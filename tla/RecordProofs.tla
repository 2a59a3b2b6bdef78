----------------------------- MODULE RecordProofs -----------------------------
(***************************************************************************)
(* Theorems about the record layer, for sizes, sessions and reads of any   *)
(* kind: it is a byte channel.                                             *)
(***************************************************************************)
EXTENDS RecordProperties, WellFoundedInduction, SequenceTheorems, TLAPS

-----------------------------------------------------------------------------
(* Sequences joined into one.                                              *)

\* Induction over the natural numbers, for a set of them.
LEMMA NatSet ==
    ASSUME NEW S \in SUBSET Nat, 0 \in S, \A n \in S : n + 1 \in S
    PROVE  S = Nat
<1>1. SUFFICES ASSUME Nat \ S # {}
               PROVE  FALSE
  OBVIOUS
<1>2. PICK n \in Nat \ S : \A k \in Nat \ S : <<k, n>> \notin OpToRel(<, Nat)
  BY <1>1, NatLessThanWellFounded, WFMin
<1>3. \A k \in Nat \ S : ~(k < n)
  BY <1>2 DEF OpToRel
<1>4. n - 1 \in Nat /\ n - 1 < n /\ (n - 1) + 1 = n
  OBVIOUS
<1> QED
  BY <1>3, <1>4

\* f computes what the local function of FlattenSeq does, up to n.
JoinsTo(ss, n, f) ==
    \A i \in 1 .. n : f[i] = IF i = 1 THEN ss[i] ELSE f[i - 1] \o ss[i]

LEMMA JoinsExist ==
    ASSUME NEW S, NEW ss \in Seq(Seq(S))
    PROVE  \E f \in [1 .. Len(ss) -> Seq(S)] : JoinsTo(ss, Len(ss), f)
<1> DEFINE N == {n \in Nat : n <= Len(ss) =>
                     \E f \in [1 .. n -> Seq(S)] : JoinsTo(ss, n, f)}
<1>1. 0 \in N
  <2>1. [i \in 1 .. 0 |-> <<>>] \in [1 .. 0 -> Seq(S)]
    OBVIOUS
  <2>2. JoinsTo(ss, 0, [i \in 1 .. 0 |-> <<>>])
    BY DEF JoinsTo
  <2> QED
    BY <2>1, <2>2
<1>2. ASSUME NEW n \in N
      PROVE  n + 1 \in N
  <2>1. SUFFICES ASSUME n + 1 <= Len(ss)
                 PROVE  \E f \in [1 .. n + 1 -> Seq(S)] : JoinsTo(ss, n + 1, f)
    OBVIOUS
  <2>2. n \in Nat /\ n <= Len(ss) /\ n + 1 \in 1 .. Len(ss)
    BY <2>1
  <2>3. PICK g \in [1 .. n -> Seq(S)] : JoinsTo(ss, n, g)
    BY <2>2
  <2>4. ss[n + 1] \in Seq(S)
    BY <2>2
  <2> DEFINE last == IF n = 0 THEN ss[n + 1] ELSE g[n] \o ss[n + 1]
             f == [i \in 1 .. n + 1 |-> IF i <= n THEN g[i] ELSE last]
  <2>5. last \in Seq(S)
    <3>1. CASE n = 0
      BY <2>4, <3>1
    <3>2. CASE n # 0
      <4>1. g[n] \in Seq(S)
        BY <2>2, <3>2
      <4> QED
        BY <2>4, <3>2, <4>1
    <3> QED
      BY <3>1, <3>2
  <2>6. last = IF n + 1 = 1 THEN ss[n + 1] ELSE g[n] \o ss[n + 1]
    BY <2>2
  <2> HIDE DEF last
  <2>7. f \in [1 .. n + 1 -> Seq(S)]
    BY <2>2, <2>5
  <2>8. \A i \in 1 .. n : f[i] = g[i]
    BY <2>2
  <2>9. f[n + 1] = last
    BY <2>2
  <2> HIDE DEF f
  <2>10. ASSUME NEW i \in 1 .. n + 1
         PROVE  f[i] = IF i = 1 THEN ss[i] ELSE f[i - 1] \o ss[i]
    <3>1. CASE i \in 1 .. n
      <4>1. i # 1 => i - 1 \in 1 .. n
        BY <2>2, <3>1
      <4>2. g[i] = IF i = 1 THEN ss[i] ELSE g[i - 1] \o ss[i]
        BY <2>3, <3>1 DEF JoinsTo
      <4> QED
        BY <2>8, <3>1, <4>1, <4>2
    <3>2. CASE i = n + 1
      <4>1. i # 1 => i - 1 = n /\ n \in 1 .. n
        BY <2>2, <3>2
      <4> QED
        BY <2>6, <2>8, <2>9, <3>2, <4>1
    <3> QED
      BY <2>2, <3>1, <3>2
  <2> QED
    BY <2>7, <2>10 DEF JoinsTo
<1>3. N = Nat
  <2> HIDE DEF N
  <2>1. N \in SUBSET Nat
    BY DEF N
  <2> QED
    BY <1>1, <1>2, <2>1, NatSet
<1>4. Len(ss) \in N
  BY <1>3
<1> QED
  BY <1>4

LEMMA JoinsAgree ==
    ASSUME NEW ss, NEW n \in Nat, NEW f, NEW g, JoinsTo(ss, n, f), JoinsTo(ss, n, g)
    PROVE  \A i \in 1 .. n : f[i] = g[i]
<1> DEFINE N == {k \in Nat : \A i \in 1 .. n : i <= k => f[i] = g[i]}
<1>1. 0 \in N
  OBVIOUS
<1>2. ASSUME NEW k \in N
      PROVE  k + 1 \in N
  <2>1. ASSUME NEW i \in 1 .. n, i <= k + 1
        PROVE  f[i] = g[i]
    <3>1. f[i] = IF i = 1 THEN ss[i] ELSE f[i - 1] \o ss[i]
      BY DEF JoinsTo
    <3>2. g[i] = IF i = 1 THEN ss[i] ELSE g[i - 1] \o ss[i]
      BY DEF JoinsTo
    <3>3. i # 1 => i - 1 \in 1 .. n /\ i - 1 <= k
      BY <2>1
    <3>4. i # 1 => f[i - 1] = g[i - 1]
      BY <3>3
    <3> QED
      BY <3>1, <3>2, <3>4
  <2> QED
    BY <2>1
<1>3. N = Nat
  <2> HIDE DEF N
  <2>1. N \in SUBSET Nat
    BY DEF N
  <2> QED
    BY <1>1, <1>2, <2>1, NatSet
<1>4. n \in N
  BY <1>3
<1> QED
  BY <1>4

LEMMA FlattenIs ==
    ASSUME NEW S, NEW ss \in Seq(Seq(S)), Len(ss) # 0
    PROVE  \E f : JoinsTo(ss, Len(ss), f) /\ FlattenSeq(ss) = f[Len(ss)]
<1> DEFINE F(g) == g = [i \in 1 .. Len(ss) |-> IF i = 1 THEN ss[i] ELSE g[i - 1] \o ss[i]]
           f == CHOOSE g : F(g)
<1>1. PICK h \in [1 .. Len(ss) -> Seq(S)] : JoinsTo(ss, Len(ss), h)
  BY JoinsExist
<1>2. F(h)
  BY <1>1 DEF JoinsTo
<1>3. F(f)
  BY <1>2
<1>4. FlattenSeq(ss) = f[Len(ss)]
  BY DEF FlattenSeq
<1> HIDE DEF f
<1>5. JoinsTo(ss, Len(ss), f)
  BY <1>3 DEF JoinsTo
<1> QED
  BY <1>4, <1>5

LEMMA FlattenEmpty == FlattenSeq(<<>>) = <<>>
BY DEF FlattenSeq

\* One sequence more is one more at the end.
LEMMA FlattenAppend ==
    ASSUME NEW S, NEW ss \in Seq(Seq(S)), NEW t \in Seq(S)
    PROVE  FlattenSeq(ss) \in Seq(S) /\ FlattenSeq(Append(ss, t)) = FlattenSeq(ss) \o t
<1> DEFINE tt == Append(ss, t)
           n  == Len(ss)
<1>1. /\ tt \in Seq(Seq(S)) /\ Len(tt) = n + 1 /\ Len(tt) # 0 /\ n \in Nat
      /\ \A i \in 1 .. n : tt[i] = ss[i]
      /\ tt[n + 1] = t
  OBVIOUS
<1> HIDE DEF tt
<1>2. PICK g : JoinsTo(tt, n + 1, g) /\ FlattenSeq(tt) = g[n + 1]
  BY <1>1, FlattenIs
<1>3. g[n + 1] = IF n + 1 = 1 THEN tt[n + 1] ELSE g[n + 1 - 1] \o tt[n + 1]
  BY <1>1, <1>2 DEF JoinsTo
<1>4. CASE n = 0
  <2>1. ss = <<>> /\ FlattenSeq(ss) = <<>>
    BY <1>4, FlattenEmpty
  <2>2. <<>> \o t = t /\ <<>> \in Seq(S)
    OBVIOUS
  <2>3. FlattenSeq(tt) = t
    BY <1>1, <1>2, <1>3, <1>4
  <2> QED
    BY <2>1, <2>2, <2>3 DEF tt
<1>5. CASE n # 0
  <2>1. PICK h \in [1 .. n -> Seq(S)] : JoinsTo(ss, n, h)
    BY JoinsExist
  <2>2. PICK f : JoinsTo(ss, n, f) /\ FlattenSeq(ss) = f[n]
    BY <1>5, FlattenIs
  <2>3. n \in 1 .. n /\ n + 1 - 1 = n
    BY <1>1, <1>5
  <2>4. f[n] = h[n]
    BY <1>1, <2>1, <2>2, <2>3, JoinsAgree
  <2>5. JoinsTo(ss, n, g)
    BY <1>1, <1>2 DEF JoinsTo
  <2>6. f[n] = g[n]
    BY <1>1, <2>2, <2>3, <2>5, JoinsAgree
  <2>7. h[n] \in Seq(S)
    BY <2>3
  <2> QED
    <3>1. g[n + 1] = g[n] \o t
      BY <1>1, <1>3, <1>5, <2>3
    <3>2. FlattenSeq(ss) = h[n] /\ FlattenSeq(tt) = FlattenSeq(ss) \o t
      BY <1>2, <2>2, <2>4, <2>6, <3>1
    <3> QED
      BY <2>7, <3>2 DEF tt
<1> QED
  BY <1>4, <1>5

\* Where the m-th sequence begins.
Before(ss, m) == Len(FlattenSeq(SubSeq(ss, 1, m - 1)))

LEMMA BeforeIs ==
    ASSUME NEW ss, NEW m, NEW k, m - 1 = k
    PROVE  Before(ss, m) = Len(FlattenSeq(SubSeq(ss, 1, k)))
BY DEF Before

LEMMA PrefixGrows ==
    ASSUME NEW S, NEW ss \in Seq(Seq(S)), NEW n \in 0 .. Len(ss) - 1
    PROVE  /\ SubSeq(ss, 1, n) \in Seq(Seq(S)) /\ ss[n + 1] \in Seq(S)
           /\ FlattenSeq(SubSeq(ss, 1, n)) \in Seq(S)
           /\ FlattenSeq(SubSeq(ss, 1, n + 1)) = FlattenSeq(SubSeq(ss, 1, n)) \o ss[n + 1]
<1> DEFINE pre == SubSeq(ss, 1, n)
           more == SubSeq(ss, 1, n + 1)
<1>1. /\ pre \in Seq(Seq(S)) /\ Len(pre) = n /\ ss[n + 1] \in Seq(S)
      /\ more \in Seq(Seq(S)) /\ Len(more) = n + 1
      /\ \A i \in 1 .. n : pre[i] = ss[i]
      /\ \A i \in 1 .. n + 1 : more[i] = ss[i]
  OBVIOUS
<1> HIDE DEF pre, more
<1>2. more = Append(pre, ss[n + 1])
  <2> DEFINE app == Append(pre, ss[n + 1])
  <2>1. /\ app \in Seq(Seq(S)) /\ Len(app) = n + 1
        /\ \A i \in 1 .. n : app[i] = pre[i]
        /\ app[n + 1] = ss[n + 1]
    BY <1>1
  <2> HIDE DEF app
  <2>2. ASSUME NEW i \in 1 .. n + 1 PROVE more[i] = app[i]
    <3>1. CASE i \in 1 .. n
      BY <1>1, <2>1, <3>1
    <3>2. CASE i = n + 1
      BY <1>1, <2>1, <3>2
    <3> QED
      BY <3>1, <3>2
  <2>3. more = app
    BY <1>1, <2>1, <2>2, SeqEqual
  <2> QED
    BY <2>3 DEF app
<1> QED
  BY <1>1, <1>2, FlattenAppend DEF pre, more

LEMMA Flattened ==
    ASSUME NEW S, NEW ss \in Seq(Seq(S))
    PROVE  /\ FlattenSeq(ss) \in Seq(S)
           /\ Before(ss, 1) = 0
           /\ Before(ss, Len(ss) + 1) = Len(FlattenSeq(ss))
           /\ \A m \in 1 .. Len(ss) + 1 : Before(ss, m) \in Nat
           /\ \A m \in 1 .. Len(ss) : Before(ss, m + 1) = Before(ss, m) + Len(ss[m])
<1>1. SubSeq(ss, 1, 0) = <<>> /\ SubSeq(ss, 1, Len(ss)) = ss /\ Len(ss) \in Nat
  OBVIOUS
<1>2. Before(ss, 1) = 0
  <2>1. 1 - 1 = 0 /\ Len(<<>>) = 0
    OBVIOUS
  <2>2. Before(ss, 1) = Len(FlattenSeq(SubSeq(ss, 1, 0)))
    BY <2>1, Zenon DEF Before
  <2>3. FlattenSeq(SubSeq(ss, 1, 0)) = <<>>
    BY <1>1, FlattenEmpty, Zenon
  <2> QED
    BY <2>1, <2>2, <2>3, Zenon
<1>3. Len(ss) + 1 - 1 = Len(ss)
  BY <1>1
<1>4. Before(ss, Len(ss) + 1) = Len(FlattenSeq(ss))
  <2>1. Before(ss, Len(ss) + 1) = Len(FlattenSeq(SubSeq(ss, 1, Len(ss))))
    BY <1>3, BeforeIs
  <2> QED
    BY <1>1, <2>1
<1>5. ASSUME NEW m \in 1 .. Len(ss)
      PROVE  Before(ss, m) \in Nat /\ Before(ss, m + 1) = Before(ss, m) + Len(ss[m])
  <2>1. m - 1 \in 0 .. Len(ss) - 1 /\ m - 1 + 1 = m /\ m + 1 - 1 = m
    BY <1>1
  <2> DEFINE pre == FlattenSeq(SubSeq(ss, 1, m - 1))
  <2>2. /\ pre \in Seq(S) /\ ss[m] \in Seq(S)
        /\ FlattenSeq(SubSeq(ss, 1, m)) = pre \o ss[m]
    BY <2>1, PrefixGrows
  <2>3. Len(pre \o ss[m]) = Len(pre) + Len(ss[m]) /\ Len(pre) \in Nat
    BY <2>2
  <2> QED
    <3>1. Before(ss, m) = Len(pre)
      BY Zenon DEF Before
    <3>2. Before(ss, m + 1) = Len(FlattenSeq(SubSeq(ss, 1, m)))
      BY <2>1, BeforeIs
    <3> QED
      BY <2>2, <2>3, <3>1, <3>2
<1>6. FlattenSeq(ss) \in Seq(S)
  <2>1. <<>> \in Seq(S)
    OBVIOUS
  <2> QED
    BY <2>1, FlattenAppend
<1>7. Len(FlattenSeq(ss)) \in Nat
  BY <1>6
<1>8. \A m \in 1 .. Len(ss) + 1 : Before(ss, m) \in Nat
  <2> SUFFICES ASSUME NEW m \in 1 .. Len(ss) + 1
               PROVE  Before(ss, m) \in Nat
    OBVIOUS
  <2>1. m \in 1 .. Len(ss) \/ m = Len(ss) + 1
    BY <1>1
  <2> QED
    BY <1>4, <1>5, <1>7, <2>1
<1> QED
  BY <1>2, <1>4, <1>5, <1>6, <1>8

LEMMA BeforeMonotone ==
    ASSUME NEW S, NEW ss \in Seq(Seq(S)),
           NEW m \in 1 .. Len(ss) + 1, NEW n \in m .. Len(ss) + 1
    PROVE  Before(ss, m) <= Before(ss, n)
<1> DEFINE N == {k \in Nat : m + k <= Len(ss) + 1 => Before(ss, m) <= Before(ss, m + k)}
<1>1. 0 \in N
  <2>1. Before(ss, m) \in Nat /\ m + 0 = m
    BY Flattened
  <2> QED
    BY <2>1
<1>2. ASSUME NEW k \in N
      PROVE  k + 1 \in N
  <2>1. SUFFICES ASSUME m + (k + 1) <= Len(ss) + 1
                 PROVE  Before(ss, m) <= Before(ss, m + (k + 1))
    OBVIOUS
  <2>2. /\ m + k \in 1 .. Len(ss) /\ m + k + 1 = m + (k + 1)
        /\ m + k \in 1 .. Len(ss) + 1
    BY <2>1
  <2>3. /\ Before(ss, m) \in Nat /\ Before(ss, m + k) \in Nat
        /\ Before(ss, m + k + 1) = Before(ss, m + k) + Len(ss[m + k])
    BY <2>2, Flattened
  <2>4. Before(ss, m) <= Before(ss, m + k)
    BY <2>2
  <2>5. Len(ss[m + k]) \in Nat
    BY <2>2
  <2> QED
    BY <2>2, <2>3, <2>4, <2>5
<1>3. N = Nat
  <2> HIDE DEF N
  <2>1. N \in SUBSET Nat
    BY DEF N
  <2> QED
    BY <1>1, <1>2, <2>1, NatSet
<1>4. n - m \in Nat /\ m + (n - m) = n /\ n <= Len(ss) + 1
  OBVIOUS
<1>5. n - m \in N
  BY <1>3, <1>4
<1> QED
  BY <1>4, <1>5

\* The i-th element of the m-th sequence.
LEMMA FlattenedAt ==
    ASSUME NEW S, NEW ss \in Seq(Seq(S)),
           NEW m \in 1 .. Len(ss), NEW i \in 1 .. Len(ss[m])
    PROVE  /\ Before(ss, m) + i \in 1 .. Len(FlattenSeq(ss))
           /\ FlattenSeq(ss)[Before(ss, m) + i] = ss[m][i]
<1> DEFINE Pre(n) == FlattenSeq(SubSeq(ss, 1, n))
           p == Before(ss, m) + i
           N == {k \in Nat : m + k <= Len(ss) =>
                     p \in 1 .. Len(Pre(m + k)) /\ Pre(m + k)[p] = ss[m][i]}
<1>0. Before(ss, m) \in Nat /\ ss[m] \in Seq(S) /\ Before(ss, m) = Len(Pre(m - 1))
  BY Flattened DEF Before
<1>1. \A n \in 0 .. Len(ss) - 1 :
          Pre(n) \in Seq(S) /\ ss[n + 1] \in Seq(S) /\ Pre(n + 1) = Pre(n) \o ss[n + 1]
  BY PrefixGrows
<1> HIDE DEF Pre
<1>2. 0 \in N
  <2>1. m - 1 \in 0 .. Len(ss) - 1 /\ m - 1 + 1 = m /\ m + 0 = m
    OBVIOUS
  <2>2. Pre(m - 1) \in Seq(S) /\ Pre(m) = Pre(m - 1) \o ss[m]
    BY <1>1, <2>1
  <2>3. p \in 1 .. Len(Pre(m)) /\ Pre(m)[p] = ss[m][i]
    BY <1>0, <2>2
  <2> QED
    BY <2>1, <2>3
<1>3. ASSUME NEW k \in N
      PROVE  k + 1 \in N
  <2>1. SUFFICES ASSUME m + (k + 1) <= Len(ss)
                 PROVE  p \in 1 .. Len(Pre(m + (k + 1))) /\ Pre(m + (k + 1))[p] = ss[m][i]
    OBVIOUS
  <2> DEFINE n == m + k
  <2>2. n \in 0 .. Len(ss) - 1 /\ n + 1 = m + (k + 1)
    BY <2>1
  <2>3. p \in 1 .. Len(Pre(n)) /\ Pre(n)[p] = ss[m][i]
    BY <2>2
  <2>4. Pre(n) \in Seq(S) /\ ss[n + 1] \in Seq(S) /\ Pre(n + 1) = Pre(n) \o ss[n + 1]
    BY <1>1, <2>2
  <2> HIDE DEF n, p
  <2>5. p \in 1 .. Len(Pre(n + 1)) /\ Pre(n + 1)[p] = ss[m][i]
    BY <2>3, <2>4
  <2> QED
    BY <2>2, <2>5
<1>4. N = Nat
  <2> HIDE DEF N
  <2>1. N \in SUBSET Nat
    BY DEF N
  <2> QED
    BY <1>2, <1>3, <2>1, NatSet
<1>5. Len(ss) - m \in Nat /\ m + (Len(ss) - m) = Len(ss) /\ Len(ss) <= Len(ss)
  OBVIOUS
<1>6. Len(ss) - m \in N
  BY <1>4, <1>5
<1>7. p \in 1 .. Len(Pre(Len(ss))) /\ Pre(Len(ss))[p] = ss[m][i]
  BY <1>5, <1>6
<1>8. SubSeq(ss, 1, Len(ss)) = ss
  OBVIOUS
<1>9. Pre(Len(ss)) = FlattenSeq(ss)
  BY <1>8, Zenon DEF Pre
<1> QED
  BY <1>7, <1>9

\* Every element is one of some sequence.
LEMMA FlattenedFrom ==
    ASSUME NEW S, NEW ss \in Seq(Seq(S)), NEW p \in 1 .. Len(FlattenSeq(ss))
    PROVE  \E m \in 1 .. Len(ss) :
               p > Before(ss, m) /\ p - Before(ss, m) \in 1 .. Len(ss[m])
<1> DEFINE N == {k \in Nat : k <= Len(ss) /\ p <= Before(ss, k + 1) =>
                     \E m \in 1 .. Len(ss) :
                         p > Before(ss, m) /\ p - Before(ss, m) \in 1 .. Len(ss[m])}
<1>0. /\ FlattenSeq(ss) \in Seq(S) /\ Len(FlattenSeq(ss)) \in Nat /\ Len(ss) \in Nat
      /\ Before(ss, 1) = 0
      /\ p \in Nat \ {0} /\ p <= Before(ss, Len(ss) + 1)
  <2>1. FlattenSeq(ss) \in Seq(S) /\ Before(ss, 1) = 0
        /\ Before(ss, Len(ss) + 1) = Len(FlattenSeq(ss))
    BY Flattened
  <2> QED
    BY <2>1
<1>1. 0 \in N
  BY <1>0
<1>2. ASSUME NEW k \in N
      PROVE  k + 1 \in N
  <2>1. SUFFICES ASSUME k + 1 <= Len(ss), p <= Before(ss, k + 1 + 1)
                 PROVE  \E m \in 1 .. Len(ss) :
                            p > Before(ss, m) /\ p - Before(ss, m) \in 1 .. Len(ss[m])
    OBVIOUS
  <2>2. k + 1 \in 1 .. Len(ss) /\ k <= Len(ss)
    BY <1>0, <2>1
  <2>3. Before(ss, k + 1) \in Nat /\ Before(ss, k + 1 + 1) = Before(ss, k + 1) + Len(ss[k + 1])
    BY <2>2, Flattened
  <2>4. Len(ss[k + 1]) \in Nat
    BY <2>2
  <2>5. CASE p <= Before(ss, k + 1)
    BY <2>2, <2>5
  <2>6. CASE p > Before(ss, k + 1)
    <3>1. p - Before(ss, k + 1) \in 1 .. Len(ss[k + 1])
      BY <1>0, <2>1, <2>3, <2>4, <2>6
    <3> QED
      BY <2>2, <2>6, <3>1
  <2> QED
    BY <1>0, <2>3, <2>5, <2>6
<1>3. N = Nat
  <2> HIDE DEF N
  <2>1. N \in SUBSET Nat
    BY DEF N
  <2> QED
    BY <1>1, <1>2, <2>1, NatSet
<1>4. Len(ss) \in N
  BY <1>0, <1>3
<1> QED
  BY <1>0, <1>4

LEMMA BeforeAppend ==
    ASSUME NEW S, NEW ss \in Seq(Seq(S)), NEW t \in Seq(S)
    PROVE  \A m \in 1 .. Len(ss) + 1 : Before(Append(ss, t), m) = Before(ss, m)
<1> SUFFICES ASSUME NEW m \in 1 .. Len(ss) + 1
             PROVE  SubSeq(Append(ss, t), 1, m - 1) = SubSeq(ss, 1, m - 1)
  BY DEF Before
<1> DEFINE tt == Append(ss, t)
<1>1. /\ tt \in Seq(Seq(S)) /\ Len(tt) = Len(ss) + 1
      /\ \A i \in 1 .. Len(ss) : tt[i] = ss[i]
  OBVIOUS
<1> HIDE DEF tt
<1>2. /\ SubSeq(tt, 1, m - 1) \in Seq(Seq(S)) /\ SubSeq(ss, 1, m - 1) \in Seq(Seq(S))
      /\ Len(SubSeq(tt, 1, m - 1)) = m - 1 /\ Len(SubSeq(ss, 1, m - 1)) = m - 1
      /\ \A i \in 1 .. m - 1 : SubSeq(tt, 1, m - 1)[i] = SubSeq(ss, 1, m - 1)[i]
  BY <1>1
<1>3. SubSeq(tt, 1, m - 1) = SubSeq(ss, 1, m - 1)
  BY <1>2, SeqEqual
<1> QED
  BY <1>3 DEF tt

-----------------------------------------------------------------------------
(* The script of a session: where its messages begin.                      *)

Messages == [m \in 1 .. NumMsgs |-> MsgBytes(m)]

Begin(m) == Before(Messages, m)

LEMMA SessionTyped ==
    ASSUME session \in Sessions
    PROVE  /\ NumHs \in Nat \ {0} /\ NumMsgs \in Nat /\ NumHs <= NumMsgs
           /\ session.peer \in {"wolfSSL", "other"}
           /\ \A m \in 1 .. NumMsgs : MsgLen(m) \in Nat \ {0}
           /\ \A m \in 1 .. NumHs :
                  /\ session.hs[m].cert \in BOOLEAN /\ session.hs[m].size \in Nat
                  /\ MsgLen(m) = HsHdr + session.hs[m].size
                  /\ session.hs[m].cert => CertSz(m) \in Nat \ {0}
<1>1. /\ session \in [hs : Seq([cert : BOOLEAN, size : Nat]), app : Seq(Nat \ {0}),
                      peer : {"wolfSSL", "other"}]
      /\ session.hs # <<>>
      /\ \A m \in DOMAIN session.hs :
             session.hs[m].cert => session.hs[m].size > CertHdr + ExtSz
  BY SessionsAssumption
<1>2. /\ session.hs \in Seq([cert : BOOLEAN, size : Nat]) /\ session.app \in Seq(Nat \ {0})
      /\ session.peer \in {"wolfSSL", "other"}
  BY <1>1
<1>3. NumHs \in Nat \ {0} /\ NumMsgs \in Nat /\ NumHs <= NumMsgs
  BY <1>1, <1>2 DEF NumHs, NumMsgs
<1>4. ASSUME NEW m \in 1 .. NumHs
      PROVE  /\ session.hs[m].cert \in BOOLEAN /\ session.hs[m].size \in Nat
             /\ m \in DOMAIN session.hs /\ MsgLen(m) = HsHdr + session.hs[m].size
  <2>1. m \in DOMAIN session.hs /\ session.hs[m] \in [cert : BOOLEAN, size : Nat]
    <3> DEFINE hs == session.hs
               T  == [cert : BOOLEAN, size : Nat]
    <3>1. hs \in Seq(T) /\ m \in 1 .. Len(hs)
      BY <1>2 DEF NumHs
    <3> HIDE DEF hs, T
    <3>2. m \in DOMAIN hs /\ hs[m] \in T
      BY <3>1
    <3> QED
      BY <3>2 DEF hs, T
  <2>2. m <= NumHs
    OBVIOUS
  <2> QED
    BY <2>1, <2>2 DEF MsgLen
<1>5. ASSUME NEW m \in 1 .. NumHs, session.hs[m].cert
      PROVE  CertSz(m) \in Nat \ {0}
  <2>1. /\ session.hs[m].size > CertHdr + ExtSz /\ session.hs[m].size \in Nat
        /\ CertHdr \in Nat /\ ExtSz = 2
    BY <1>1, <1>4, <1>5, RecordSizes DEF ExtSz
  <2> QED
    BY <2>1 DEF CertSz
<1>6. ASSUME NEW m \in 1 .. NumMsgs
      PROVE  MsgLen(m) \in Nat \ {0}
  <2>1. CASE m <= NumHs
    BY <1>3, <1>4, <2>1, RecordSizes
  <2>2. CASE ~(m <= NumHs)
    <3>1. m - NumHs \in 1 .. Len(session.app)
      BY <1>2, <1>3, <2>2 DEF NumMsgs
    <3>2. MsgLen(m) = session.app[m - NumHs]
      BY <2>2 DEF MsgLen
    <3> QED
      BY <1>2, <3>1, <3>2
  <2> QED
    BY <2>1, <2>2
<1> QED
  BY <1>2, <1>3, <1>4, <1>5, <1>6

LEMMA MessageTyped ==
    ASSUME session \in Sessions, NEW m \in 1 .. NumMsgs
    PROVE  /\ MsgBytes(m) \in Seq(Byte) /\ Len(MsgBytes(m)) = MsgLen(m)
           /\ \A i \in 1 .. MsgLen(m) :
                  MsgBytes(m)[i] = [msg |-> m, no |-> i,
                                    cut |-> (m > NumHs \/ i = MsgLen(m))]
<1>1. MsgLen(m) \in Nat /\ m \in Nat /\ NumHs \in Nat
  BY SessionTyped
<1>2. \A i \in 1 .. MsgLen(m) :
          [msg |-> m, no |-> i, cut |-> (m > NumHs \/ i = MsgLen(m))] \in Byte
  BY <1>1 DEF Byte
<1> QED
  BY <1>1, <1>2 DEF MsgBytes

LEMMA ScriptTyped ==
    ASSUME session \in Sessions
    PROVE  /\ Messages \in Seq(Seq(Byte)) /\ Len(Messages) = NumMsgs
           /\ \A m \in 1 .. NumMsgs : Messages[m] = MsgBytes(m)
           /\ Script = FlattenSeq(Messages) /\ Script \in Seq(Byte)
           /\ Begin(1) = 0 /\ Begin(NumMsgs + 1) = Len(Script)
           /\ \A m \in 1 .. NumMsgs + 1 : Begin(m) \in Nat
           /\ \A m \in 1 .. NumMsgs : Begin(m + 1) = Begin(m) + MsgLen(m)
<1>1. NumMsgs \in Nat
  BY SessionTyped
<1>2. \A m \in 1 .. NumMsgs : MsgBytes(m) \in Seq(Byte) /\ Len(MsgBytes(m)) = MsgLen(m)
  BY MessageTyped
<1>3. /\ Messages \in Seq(Seq(Byte)) /\ Len(Messages) = NumMsgs
      /\ \A m \in 1 .. NumMsgs : Messages[m] = MsgBytes(m)
  BY <1>1, <1>2 DEF Messages
<1>4. Script = FlattenSeq(Messages)
  BY DEF Script, Messages
<1>5. /\ FlattenSeq(Messages) \in Seq(Byte)
      /\ Before(Messages, 1) = 0
      /\ Before(Messages, Len(Messages) + 1) = Len(FlattenSeq(Messages))
      /\ \A m \in 1 .. Len(Messages) + 1 : Before(Messages, m) \in Nat
      /\ \A m \in 1 .. Len(Messages) :
             Before(Messages, m + 1) = Before(Messages, m) + Len(Messages[m])
  BY <1>3, Flattened
<1> QED
  BY <1>2, <1>3, <1>4, <1>5 DEF Begin

LEMMA BeginMonotone ==
    ASSUME session \in Sessions,
           NEW m \in 1 .. NumMsgs + 1, NEW n \in m .. NumMsgs + 1
    PROVE  Begin(m) <= Begin(n)
BY ScriptTyped, BeforeMonotone DEF Begin

LEMMA ScriptHas ==
    ASSUME session \in Sessions, NEW m \in 1 .. NumMsgs, NEW i \in 1 .. MsgLen(m)
    PROVE  /\ Begin(m) + i \in 1 .. Len(Script)
           /\ Script[Begin(m) + i] = MsgBytes(m)[i]
<1>1. i \in 1 .. Len(Messages[m]) /\ Messages[m] = MsgBytes(m) /\ m \in 1 .. Len(Messages)
  BY MessageTyped, ScriptTyped
<1> QED
  BY <1>1, ScriptTyped, FlattenedAt DEF Begin

\* A byte of the script tells its own place.
LEMMA ScriptAt ==
    ASSUME session \in Sessions, NEW p \in 1 .. Len(Script)
    PROVE  /\ Script[p].msg \in 1 .. NumMsgs
           /\ Script[p].no \in 1 .. MsgLen(Script[p].msg)
           /\ p = Begin(Script[p].msg) + Script[p].no
           /\ Script[p].cut = (Script[p].msg > NumHs
                               \/ Script[p].no = MsgLen(Script[p].msg))
<1>1. PICK m \in 1 .. Len(Messages) :
          p > Before(Messages, m) /\ p - Before(Messages, m) \in 1 .. Len(Messages[m])
  BY ScriptTyped, FlattenedFrom
<1> DEFINE i == p - Begin(m)
<1>2. /\ m \in 1 .. NumMsgs /\ i \in 1 .. MsgLen(m) /\ p \in Nat /\ Begin(m) \in Nat
      /\ p = Begin(m) + i
  <2>1. m \in 1 .. NumMsgs /\ Len(Messages[m]) = MsgLen(m) /\ Begin(m) \in Nat
    <3>1. m \in 1 .. NumMsgs
      BY <1>1, ScriptTyped
    <3>2. Messages[m] = MsgBytes(m)
      BY <3>1, ScriptTyped
    <3>3. m \in 1 .. NumMsgs + 1
      BY <3>1, SessionTyped
    <3> QED
      BY <3>1, <3>2, <3>3, ScriptTyped, MessageTyped
  <2>2. p \in Nat
    OBVIOUS
  <2> QED
    BY <1>1, <2>1, <2>2 DEF Begin
<1> HIDE DEF i
<1>3. Script[p] = [msg |-> m, no |-> i, cut |-> (m > NumHs \/ i = MsgLen(m))]
  BY <1>2, ScriptHas, MessageTyped
<1> QED
  BY <1>2, <1>3

LEMMA SameScript ==
    ASSUME session' = session
    PROVE  /\ NumHs' = NumHs /\ NumMsgs' = NumMsgs /\ Script' = Script
           /\ \A m : /\ MsgLen(m)' = MsgLen(m) /\ MsgBytes(m)' = MsgBytes(m)
                     /\ Begin(m)' = Begin(m) /\ CertSz(m)' = CertSz(m)
<1>1. NumHs' = NumHs /\ NumMsgs' = NumMsgs
  BY DEF NumHs, NumMsgs
<1>2. \A m : MsgLen(m)' = MsgLen(m) /\ CertSz(m)' = CertSz(m)
  BY <1>1 DEF MsgLen, CertSz
<1>3. \A m : MsgBytes(m)' = MsgBytes(m)
  BY <1>1, <1>2 DEF MsgBytes
<1>4. Messages' = Messages
  BY <1>1, <1>3 DEF Messages
<1>5. Script' = Script
  BY <1>1, <1>3 DEF Script
<1>6. \A m : Begin(m)' = Begin(m)
  BY <1>4 DEF Begin
<1> QED
  BY <1>1, <1>2, <1>3, <1>5, <1>6

-----------------------------------------------------------------------------
(* The writer's invariant.                                                 *)

Records == [type : {"handshake", "application_data", "alert"}, enc : BOOLEAN,
            body : Seq(Byte)]

WireBytes == Nat \X Nat

OutOk(o) == o \in [buf : Seq(WireBytes), idx : Nat] /\ o.idx <= Len(o.buf)

\* What the network has not taken of the output buffer.
Rest(o) == SubSeq(o.buf, o.idx + 1, Len(o.buf))

WriterRecords ==
    [phase : {"sending", "closing", "stopped"}, next : Nat, fragOffset : Nat,
     sent : Nat, prevSent : Nat, plainSz : Nat,
     error : {"none", "WANT_WRITE", "SOCKET_ERROR_E"}, sentNotify : BOOLEAN,
     handed : Seq(Byte)]

\* A beginning of the script.
IsPart(h) == Len(h) <= Len(Script) /\ \A j \in 1 .. Len(h) : h[j] = Script[j]

\* While the sender works, its indices say how much of which message it has
\* handed over.
HandsOther(w) ==
    /\ w.error = "none" /\ w.fragOffset = 0
    /\ Begin(w.next) <= Len(w.handed)
    /\ Len(w.handed) < Begin(w.next) + MsgLen(w.next)

HandsMessage(w) ==
    /\ w.fragOffset = 0
    /\ Len(w.handed) = Begin(w.next)
                       + IF w.error = "none" THEN 0 ELSE MsgLen(w.next)

HandsCertificate(w) ==
    /\ w.fragOffset \in (0 .. CertSz(w.next)) \cup {CertSz(w.next) + ExtSz}
    /\ w.error = "WANT_WRITE" => w.fragOffset # 0
    /\ Len(w.handed) = Begin(w.next) + IF w.fragOffset = 0 THEN 0
                                       ELSE HsHdr + CertHdr + w.fragOffset

HandsData(w) ==
    /\ w.fragOffset = 0
    /\ IF w.error = "none"
       THEN w.sent < MsgLen(w.next) /\ Len(w.handed) = Begin(w.next) + w.sent
       ELSE /\ w.plainSz > 0
            /\ w.prevSent + w.plainSz <= MsgLen(w.next)
            /\ Len(w.handed) = Begin(w.next) + w.prevSent + w.plainSz

Hands(w) ==
    /\ w.error \in {"none", "WANT_WRITE"}
    /\ w.next \in 1 .. NumMsgs + 1
    /\ IF w.next > NumMsgs
       THEN /\ w.error = "none" /\ w.fragOffset = 0 /\ w.sent = 0
            /\ Len(w.handed) = Begin(w.next)
       ELSE IF w.next > NumHs THEN HandsData(w)
       ELSE /\ w.sent = 0
            /\ IF session.peer = "other" THEN HandsOther(w)
               ELSE IF session.hs[w.next].cert THEN HandsCertificate(w)
               ELSE HandsMessage(w)

\* What a record carries of the script, and where.
PartOf(rec) == IF rec.type = "alert" THEN <<>> ELSE rec.body

PartsOf(rs) == [r \in 1 .. Len(rs) |-> PartOf(rs[r])]

From(r) == Before(PartsOf(recs), r)

\* A record that carries the script from a given place on: of its types, and
\* encrypted, if that is due there; this repository's does not end inside a
\* header.
Fits(rec, from) ==
    LET to == from + Len(rec.body)
    IN  /\ rec.body # <<>>
        /\ rec.type # "handshake" => Len(rec.body) <= MaxFragment
        /\ rec.type = "handshake" =>
               /\ to <= Begin(NumHs + 1)
               /\ session.peer = "other" \/ rec.body[Len(rec.body)].no >= HsHdr
               /\ rec.enc = (from >= MsgLen(1))
               /\ ~rec.enc => to <= MsgLen(1)
        /\ rec.type = "application_data" => from >= Begin(NumHs + 1) /\ rec.enc
        /\ rec.type = "alert" /\ rec.enc => from >= MsgLen(1)

Recorded ==
    /\ wr.handed = FlattenSeq(PartsOf(recs))
    /\ \A r \in 1 .. Len(recs) : Fits(recs[r], From(r))

\* After an alert nothing is sent.
AlertLast ==
    \A r \in 1 .. Len(recs) :
        recs[r].type = "alert" =>
            /\ r = Len(recs) /\ wr.phase # "sending"
            /\ wr.sentNotify \/ wr.error = "SOCKET_ERROR_E"

LinkKnown ==
    /\ wr.error = "SOCKET_ERROR_E" => link = "cut"
    /\ wr.error = "none" => out = EmptyOut
    /\ link = "stopped" => wr.phase = "stopped"
    /\ link = "up" => wr.phase # "stopped"

WriterTyped ==
    /\ session \in Sessions
    /\ recs \in Seq(Records)
    /\ wire \in Seq(WireBytes)
    /\ link \in {"up", "stopped", "cut"}
    /\ wr \in WriterRecords
    /\ OutOk(out)

WriterInv ==
    /\ WriterTyped
    /\ IsPart(wr.handed)
    /\ wr.phase = "sending" /\ wr.error # "SOCKET_ERROR_E" => Hands(wr)
    /\ wr.next > 1 => Len(wr.handed) >= MsgLen(1)
    /\ Recorded
    /\ AlertLast
    /\ LinkKnown

-----------------------------------------------------------------------------
(* What a step of the writer does to the stream.                           *)

\* The network takes some of bytes, and the output buffer keeps the others.
Pushes(bytes) ==
    IF link = "cut" THEN wire' = wire
    ELSE \E taken \in Seq(WireBytes) :
             wire' = wire \o taken /\ bytes = taken \o Rest(out')

Image(r, rec) == [i \in 1 .. RecHdr + SizeOf(rec) |-> <<r, i>>]

WriterTurn ==
    /\ session' = session
    /\ wr.phase # "stopped"
    /\ wr.phase # "sending" => wr'.phase # "sending" /\ wr'.handed = wr.handed
    /\ \/ /\ recs' = recs /\ wr'.handed = wr.handed
          /\ \/ link' = link /\ Pushes(Rest(out))
             \/ link' # "up" /\ wire' = wire
       \/ \E rec \in Records :
              /\ recs' = Append(recs, rec) /\ wr'.handed = wr.handed \o PartOf(rec)
              /\ link' = link
              /\ Pushes(Rest(out) \o Image(Len(recs) + 1, rec))

LEMMA PushesTyped ==
    ASSUME wire \in Seq(WireBytes), NEW bytes, Pushes(bytes)
    PROVE  wire' \in Seq(WireBytes)
<1>1. CASE link = "cut"
  BY <1>1 DEF Pushes
<1>2. CASE link # "cut"
  <2>1. PICK taken \in Seq(WireBytes) : wire' = wire \o taken
    BY <1>2 DEF Pushes
  <2> QED
    BY <2>1
<1> QED
  BY <1>1, <1>2

LEMMA ImageTyped ==
    ASSUME NEW r \in Nat, NEW rec \in Records
    PROVE  /\ SizeOf(rec) \in Nat /\ SizeOf(rec) >= Len(rec.body)
           /\ Image(r, rec) \in Seq(WireBytes)
           /\ Len(Image(r, rec)) = RecHdr + SizeOf(rec)
           /\ \A i \in 1 .. RecHdr + SizeOf(rec) : Image(r, rec)[i] = <<r, i>>
<1>1. Len(rec.body) \in Nat /\ RecHdr \in Nat /\ PadSz \in Nat
  BY RecordSizes DEF Records
<1> DEFINE pad == IF rec.enc THEN PadSz ELSE 0
<1>2. pad \in Nat /\ SizeOf(rec) = Len(rec.body) + pad
  BY <1>1 DEF SizeOf
<1> HIDE DEF pad
<1>3. SizeOf(rec) \in Nat /\ SizeOf(rec) >= Len(rec.body)
  BY <1>1, <1>2
<1> QED
  BY <1>1, <1>3 DEF Image, WireBytes

LEMMA RestTyped ==
    ASSUME NEW o, OutOk(o)
    PROVE  Rest(o) \in Seq(WireBytes) /\ Len(Rest(o)) = Pending(o) /\ Pending(o) \in Nat
<1>1. o.buf \in Seq(WireBytes) /\ o.idx \in 0 .. Len(o.buf)
  BY DEF OutOk
<1> QED
  BY <1>1 DEF Rest, Pending

LEMMA EmptyRest == OutOk(EmptyOut) /\ Rest(EmptyOut) = <<>>
BY DEF OutOk, Rest, EmptyOut

LEMMA SliceIs ==
    ASSUME NEW S, NEW s \in Seq(S), NEW i \in 0 .. Len(s), NEW n \in i .. Len(s)
    PROVE  /\ SubSeq(s, i + 1, n) \in Seq(S) /\ Len(SubSeq(s, i + 1, n)) = n - i
           /\ \A j \in 1 .. n - i : SubSeq(s, i + 1, n)[j] = s[i + j]
<1>1. /\ \A j \in i + 1 .. n : s[j] \in S
      /\ i + 1 \in Int /\ n \in Int /\ n - (i + 1) + 1 = n - i
      /\ (IF i + 1 <= n THEN n - (i + 1) + 1 ELSE 0) = n - i
      /\ \A j \in 1 .. n - i : i + 1 + j - 1 = i + j
  OBVIOUS
<1>2. /\ SubSeq(s, i + 1, n) \in Seq(S)
      /\ Len(SubSeq(s, i + 1, n)) = IF i + 1 <= n THEN n - (i + 1) + 1 ELSE 0
      /\ \A j \in 1 .. n - (i + 1) + 1 : SubSeq(s, i + 1, n)[j] = s[i + 1 + j - 1]
  BY <1>1, SubSeqProperties
<1> QED
  BY <1>1, <1>2

LEMMA ConcatIs ==
    ASSUME NEW S, NEW p \in Seq(S), NEW q \in Seq(S)
    PROVE  /\ p \o q \in Seq(S) /\ Len(p \o q) = Len(p) + Len(q)
           /\ Len(p) \in Nat /\ Len(q) \in Nat
           /\ \A j \in 1 .. Len(p) : (p \o q)[j] = p[j]
           /\ \A j \in 1 .. Len(q) : (p \o q)[Len(p) + j] = q[j]
OBVIOUS

LEMMA RestConcat ==
    ASSUME NEW S, NEW s \in Seq(S), NEW t \in Seq(S), NEW i \in 0 .. Len(s)
    PROVE  SubSeq(s \o t, i + 1, Len(s \o t)) = SubSeq(s, i + 1, Len(s)) \o t
<1> DEFINE u == s \o t
           a == SubSeq(u, i + 1, Len(u))
           c == SubSeq(s, i + 1, Len(s))
           b == c \o t
<1>1. /\ u \in Seq(S) /\ Len(u) = Len(s) + Len(t) /\ Len(s) \in Nat /\ Len(t) \in Nat
      /\ \A j \in 1 .. Len(s) : u[j] = s[j]
      /\ \A j \in 1 .. Len(t) : u[Len(s) + j] = t[j]
  OBVIOUS
<1> HIDE DEF u
<1>2. /\ a \in Seq(S) /\ Len(a) = Len(s) + Len(t) - i
      /\ \A j \in 1 .. Len(a) : a[j] = u[i + j]
  <2>1. i \in 0 .. Len(u) /\ Len(u) \in i .. Len(u)
    BY <1>1
  <2> QED
    BY <1>1, <2>1, SliceIs
<1>3. /\ c \in Seq(S) /\ Len(c) = Len(s) - i
      /\ \A j \in 1 .. Len(c) : c[j] = s[i + j]
  <2>1. Len(s) \in i .. Len(s)
    OBVIOUS
  <2> QED
    BY <2>1, SliceIs
<1> HIDE DEF a, c
<1>4. /\ b \in Seq(S) /\ Len(b) = Len(c) + Len(t)
      /\ \A j \in 1 .. Len(c) : b[j] = c[j]
      /\ \A j \in 1 .. Len(t) : b[Len(c) + j] = t[j]
  <2>1. c \in Seq(S)
    BY <1>3
  <2> QED
    BY <2>1, ConcatIs
<1> HIDE DEF b
<1>5. ASSUME NEW j \in 1 .. Len(a) PROVE a[j] = b[j]
  <2>1. CASE j <= Len(s) - i
    <3>1. j \in 1 .. Len(c) /\ i + j \in 1 .. Len(s)
      BY <1>1, <1>2, <1>3, <2>1
    <3>2. a[j] = u[i + j] /\ u[i + j] = s[i + j]
      BY <1>1, <1>2, <3>1
    <3>3. b[j] = s[i + j]
      BY <1>3, <1>4, <3>1
    <3> QED
      BY <3>2, <3>3
  <2>2. CASE j > Len(s) - i
    <3> DEFINE k == j - (Len(s) - i)
    <3>1. k \in 1 .. Len(t) /\ j = Len(c) + k /\ i + j = Len(s) + k
      BY <1>1, <1>2, <1>3, <2>2
    <3> HIDE DEF k
    <3>2. a[j] = u[Len(s) + k]
      BY <1>2, <3>1
    <3>3. b[j] = t[k]
      BY <1>4, <3>1
    <3> QED
      BY <1>1, <3>1, <3>2, <3>3
  <2> QED
    BY <1>1, <1>2, <2>1, <2>2
<1>6. Len(a) = Len(b)
  BY <1>1, <1>2, <1>3, <1>4
<1>7. a = b
  BY <1>2, <1>4, <1>5, <1>6, SeqEqual
<1> QED
  BY <1>7 DEF a, b, c, u

LEMMA RestSplit ==
    ASSUME NEW S, NEW s \in Seq(S), NEW i \in 0 .. Len(s), NEW k \in 0 .. Len(s) - i
    PROVE  SubSeq(s, i + 1, Len(s)) = SubSeq(s, i + 1, i + k) \o SubSeq(s, i + k + 1, Len(s))
<1> DEFINE all == SubSeq(s, i + 1, Len(s))
           a == SubSeq(s, i + 1, i + k)
           b == SubSeq(s, i + k + 1, Len(s))
           ab == a \o b
<1>1. /\ all \in Seq(S) /\ Len(all) = Len(s) - i
      /\ \A j \in 1 .. Len(all) : all[j] = s[i + j]
  BY SliceIs
<1>2. /\ a \in Seq(S) /\ Len(a) = k
      /\ \A j \in 1 .. Len(a) : a[j] = s[i + j]
  BY SliceIs
<1>3. /\ b \in Seq(S) /\ Len(b) = Len(s) - i - k
      /\ \A j \in 1 .. Len(b) : b[j] = s[i + k + j]
  <2>1. i + k \in 0 .. Len(s) /\ Len(s) \in i + k .. Len(s)
    OBVIOUS
  <2> QED
    BY <2>1, SliceIs
<1> HIDE DEF all, a, b
<1>4. /\ ab \in Seq(S) /\ Len(ab) = Len(s) - i
      /\ \A j \in 1 .. k : ab[j] = a[j]
      /\ \A j \in 1 .. Len(b) : ab[k + j] = b[j]
  BY <1>2, <1>3
<1> HIDE DEF ab
<1>5. ASSUME NEW j \in 1 .. Len(all) PROVE all[j] = ab[j]
  <2>1. CASE j <= k
    BY <1>1, <1>2, <1>4, <2>1
  <2>2. CASE j > k
    <3>1. j - k \in 1 .. Len(b) /\ j = k + (j - k) /\ i + k + (j - k) = i + j
      BY <1>1, <1>3, <2>2
    <3> QED
      BY <1>1, <1>3, <1>4, <3>1
  <2> QED
    BY <1>1, <2>1, <2>2
<1>6. all = ab
  BY <1>1, <1>4, <1>5, SeqEqual
<1> QED
  BY <1>6 DEF all, a, b, ab

LEMMA BufferedRest ==
    ASSUME WriterTyped, NEW rec \in Records, recs' = Append(recs, rec)
    PROVE  OutOk(Buffered) /\ Rest(Buffered) = Rest(out) \o Image(Len(recs) + 1, rec)
<1> DEFINE r == Len(recs) + 1
           b == out.buf \o Image(r, rec)
<1>1. Len(recs') = r /\ recs'[r] = rec /\ r \in Nat
  BY DEF WriterTyped
<1>2. Buffered = [out EXCEPT !.buf = b]
  BY <1>1 DEF Buffered, Image
<1>3. out.buf \in Seq(WireBytes) /\ out.idx \in 0 .. Len(out.buf)
  BY DEF WriterTyped, OutOk
<1>4. Image(r, rec) \in Seq(WireBytes)
  BY <1>1, ImageTyped
<1>5. b \in Seq(WireBytes) /\ Len(b) = Len(out.buf) + Len(Image(r, rec))
  BY <1>3, <1>4
<1>6. SubSeq(b, out.idx + 1, Len(b)) = SubSeq(out.buf, out.idx + 1, Len(out.buf)) \o Image(r, rec)
  BY <1>3, <1>4, RestConcat
<1> HIDE DEF b, r
<1>7. Buffered.buf = b /\ Buffered.idx = out.idx /\ OutOk(Buffered)
  BY <1>2, <1>3, <1>4, <1>5 DEF OutOk, WriterTyped
<1> QED
  BY <1>6, <1>7 DEF Rest, r

LEMMA SendResult ==
    ASSUME NEW o, OutOk(o), NEW s \in SendBuffered(o), Sends(s)
    PROVE  /\ OutOk(out') /\ Pushes(Rest(o))
           /\ link = "cut" => s.error = "SOCKET_ERROR_E"
           /\ link # "cut" => s.error \in {"none", "WANT_WRITE"}
           /\ s.error = "none" => out' = EmptyOut
<1>1. CASE link = "cut"
  <2>1. s = [wire |-> wire, out |-> o, error |-> "SOCKET_ERROR_E"]
    BY <1>1 DEF SendBuffered
  <2> QED
    BY <1>1, <2>1 DEF Sends, Pushes
<1>2. CASE link # "cut"
  <2>1. PICK k \in 0 .. Pending(o) :
            s = [wire  |-> wire \o SubSeq(o.buf, o.idx + 1, o.idx + k),
                 out   |-> IF k = Pending(o) THEN EmptyOut ELSE [o EXCEPT !.idx = @ + k],
                 error |-> IF k = Pending(o) THEN "none" ELSE "WANT_WRITE"]
    BY <1>2 DEF SendBuffered
  <2> DEFINE taken == SubSeq(o.buf, o.idx + 1, o.idx + k)
  <2>2. o.buf \in Seq(WireBytes) /\ o.idx \in 0 .. Len(o.buf) /\ k \in 0 .. Len(o.buf) - o.idx
        /\ Pending(o) = Len(o.buf) - o.idx
    BY DEF OutOk, Pending
  <2>3. taken \in Seq(WireBytes)
    BY <2>2
  <2>4. wire' = wire \o taken
    BY <2>1 DEF Sends
  <2>5. CASE k = Pending(o)
    <3>1. taken = Rest(o)
      <4>1. o.idx + k = Len(o.buf)
        BY <2>2, <2>5
      <4> QED
        BY <4>1 DEF Rest
    <3>2. out' = EmptyOut /\ s.error = "none"
      BY <2>1, <2>5 DEF Sends
    <3>3. Rest(o) = taken \o Rest(out')
      <4>1. taken \o <<>> = taken
        BY <2>3
      <4> QED
        BY <3>1, <3>2, <4>1, EmptyRest
    <3> QED
      BY <1>2, <2>3, <2>4, <3>2, <3>3, EmptyRest DEF Pushes
  <2>6. CASE k # Pending(o)
    <3>1. out' = [o EXCEPT !.idx = @ + k] /\ s.error = "WANT_WRITE"
      BY <2>1, <2>6 DEF Sends
    <3>2. out'.buf = o.buf /\ out'.idx = o.idx + k /\ OutOk(out')
      BY <2>2, <3>1 DEF OutOk
    <3>3. Rest(o) = taken \o Rest(out')
      BY <2>2, <3>2, RestSplit DEF Rest
    <3> QED
      BY <1>2, <2>3, <2>4, <3>1, <3>2, <3>3 DEF Pushes
  <2> QED
    BY <2>5, <2>6
<1> QED
  BY <1>1, <1>2

-----------------------------------------------------------------------------
(* The writer's steps keep its invariant.                                  *)

\* Bytes a + 1 to b of message m follow what is handed over.
LEMMA HandOn ==
    ASSUME session \in Sessions, wr.handed \in Seq(Byte), IsPart(wr.handed),
           NEW m \in 1 .. NumMsgs, NEW a \in 0 .. MsgLen(m), NEW b \in a .. MsgLen(m),
           Len(wr.handed) = Begin(m) + a
    PROVE  LET part == SubSeq(MsgBytes(m), a + 1, b)
               more == wr.handed \o part
           IN  /\ part \in Seq(Byte) /\ Len(part) = b - a
               /\ \A j \in 1 .. b - a : part[j] = MsgBytes(m)[a + j]
               /\ more \in Seq(Byte) /\ Len(more) = Begin(m) + b /\ IsPart(more)
<1> DEFINE h == wr.handed
           part == SubSeq(MsgBytes(m), a + 1, b)
           more == h \o part
<1>1. /\ MsgLen(m) \in Nat /\ MsgBytes(m) \in Seq(Byte) /\ Len(MsgBytes(m)) = MsgLen(m)
      /\ Begin(m) \in Nat /\ m \in 1 .. NumMsgs + 1
      /\ Script \in Seq(Byte)
  <2>1. m \in 1 .. NumMsgs + 1
    BY SessionTyped
  <2> QED
    BY <2>1, SessionTyped, MessageTyped, ScriptTyped
<1>2. /\ part \in Seq(Byte) /\ Len(part) = b - a
      /\ \A j \in 1 .. b - a : part[j] = MsgBytes(m)[a + j]
  BY <1>1, SliceIs
<1> HIDE DEF part
<1>3. /\ more \in Seq(Byte) /\ Len(more) = Len(h) + Len(part) /\ Len(h) \in Nat
      /\ \A j \in 1 .. Len(h) : more[j] = h[j]
      /\ \A j \in 1 .. Len(part) : more[Len(h) + j] = part[j]
  <2>1. part \in Seq(Byte) /\ h \in Seq(Byte)
    BY <1>2
  <2> HIDE DEF h
  <2> QED
    BY <2>1, ConcatIs
<1> HIDE DEF more
<1>4. Len(more) = Begin(m) + b
  BY <1>1, <1>2, <1>3
<1>5. ASSUME NEW j \in 1 .. b - a
      PROVE  /\ Begin(m) + a + j \in 1 .. Len(Script)
             /\ part[j] = Script[Begin(m) + a + j]
  <2>1. a + j \in 1 .. MsgLen(m) /\ Begin(m) + (a + j) = Begin(m) + a + j
    BY <1>1
  <2> QED
    BY <1>2, <2>1, ScriptHas
<1>6. Len(more) <= Len(Script)
  <2>1. CASE a = b
    BY <1>1, <1>4, <2>1 DEF IsPart
  <2>2. CASE a # b
    <3>1. b - a \in 1 .. b - a /\ Begin(m) + a + (b - a) = Begin(m) + b
      BY <1>1, <2>2
    <3> QED
      BY <1>1, <1>4, <1>5, <3>1
  <2> QED
    BY <2>1, <2>2
<1>7. ASSUME NEW j \in 1 .. Len(more) PROVE more[j] = Script[j]
  <2>1. CASE j \in 1 .. Len(h)
    BY <1>3, <2>1 DEF IsPart
  <2>2. CASE j \notin 1 .. Len(h)
    <3>1. j - Len(h) \in 1 .. b - a /\ Len(h) + (j - Len(h)) = j
      BY <1>2, <1>3, <2>2
    <3> QED
      BY <1>2, <1>3, <1>5, <3>1
  <2> QED
    BY <2>1, <2>2
<1> QED
  BY <1>2, <1>3, <1>4, <1>6, <1>7 DEF IsPart, part, more

LEMMA PartsTyped ==
    ASSUME NEW rs \in Seq(Records)
    PROVE  /\ PartsOf(rs) \in Seq(Seq(Byte)) /\ Len(PartsOf(rs)) = Len(rs)
           /\ \A r \in 1 .. Len(rs) : PartsOf(rs)[r] = PartOf(rs[r])
<1>1. \A rec \in Records : PartOf(rec) \in Seq(Byte)
  BY DEF Records, PartOf
<1>2. \A r \in 1 .. Len(rs) : rs[r] \in Records
  OBVIOUS
<1> QED
  BY <1>1, <1>2 DEF PartsOf

LEMMA PartsAppend ==
    ASSUME NEW rs \in Seq(Records), NEW rec \in Records
    PROVE  PartOf(rec) \in Seq(Byte)
           /\ PartsOf(Append(rs, rec)) = Append(PartsOf(rs), PartOf(rec))
<1> DEFINE more == Append(rs, rec)
           a == PartsOf(more)
           b == Append(PartsOf(rs), PartOf(rec))
<1>1. PartOf(rec) \in Seq(Byte)
  BY DEF Records, PartOf
<1>2. /\ more \in Seq(Records) /\ Len(more) = Len(rs) + 1 /\ Len(rs) \in Nat
      /\ \A r \in 1 .. Len(rs) : more[r] = rs[r]
      /\ more[Len(rs) + 1] = rec
  OBVIOUS
<1> HIDE DEF more
<1>3. /\ a \in Seq(Seq(Byte)) /\ Len(a) = Len(rs) + 1
      /\ \A r \in 1 .. Len(rs) + 1 : a[r] = PartOf(more[r])
  BY <1>2, PartsTyped
<1>4. /\ PartsOf(rs) \in Seq(Seq(Byte)) /\ Len(PartsOf(rs)) = Len(rs)
      /\ \A r \in 1 .. Len(rs) : PartsOf(rs)[r] = PartOf(rs[r])
  BY PartsTyped
<1>5. /\ b \in Seq(Seq(Byte)) /\ Len(b) = Len(rs) + 1
      /\ \A r \in 1 .. Len(rs) : b[r] = PartsOf(rs)[r]
      /\ b[Len(rs) + 1] = PartOf(rec)
  BY <1>1, <1>4
<1> HIDE DEF a, b
<1>6. ASSUME NEW r \in 1 .. Len(rs) + 1 PROVE a[r] = b[r]
  <2>1. CASE r \in 1 .. Len(rs)
    BY <1>2, <1>3, <1>4, <1>5, <2>1
  <2>2. CASE r = Len(rs) + 1
    BY <1>2, <1>3, <1>5, <2>2
  <2> QED
    BY <1>2, <2>1, <2>2
<1>7. a = b
  BY <1>3, <1>5, <1>6, SeqEqual
<1> QED
  BY <1>1, <1>7 DEF a, b, more

LEMMA FromTyped ==
    ASSUME recs \in Seq(Records), Recorded
    PROVE  /\ From(1) = 0 /\ From(Len(recs) + 1) = Len(wr.handed)
           /\ \A r \in 1 .. Len(recs) + 1 : From(r) \in Nat
           /\ \A r \in 1 .. Len(recs) : From(r + 1) = From(r) + Len(PartOf(recs[r]))
<1>1. /\ PartsOf(recs) \in Seq(Seq(Byte)) /\ Len(PartsOf(recs)) = Len(recs)
      /\ \A r \in 1 .. Len(recs) : PartsOf(recs)[r] = PartOf(recs[r])
  BY PartsTyped
<1> QED
  BY <1>1, Flattened DEF From, Recorded

\* The new record is where the handed bytes end.
LEMMA RecordAdded ==
    ASSUME WriterTyped, Recorded, NEW rec \in Records, recs' = Append(recs, rec),
           session' = session, Fits(rec, Len(wr.handed)),
           wr'.handed = wr.handed \o PartOf(rec)
    PROVE  /\ recs' \in Seq(Records) /\ Recorded'
           /\ \A r \in 1 .. Len(recs) + 1 : From(r)' = From(r)
<1>1. /\ recs \in Seq(Records) /\ Len(recs) \in Nat /\ recs' \in Seq(Records)
      /\ Len(recs') = Len(recs) + 1
      /\ \A r \in 1 .. Len(recs) : recs'[r] = recs[r]
      /\ recs'[Len(recs) + 1] = rec
  BY DEF WriterTyped
<1>2. /\ PartOf(rec) \in Seq(Byte) /\ PartsOf(recs') = Append(PartsOf(recs), PartOf(rec))
      /\ PartsOf(recs) \in Seq(Seq(Byte)) /\ Len(PartsOf(recs)) = Len(recs)
  BY <1>1, PartsAppend, PartsTyped
<1>3. \A r \in 1 .. Len(recs) + 1 : Before(PartsOf(recs'), r) = From(r)
  BY <1>2, BeforeAppend DEF From
<1>4. FlattenSeq(PartsOf(recs')) = FlattenSeq(PartsOf(recs)) \o PartOf(rec)
  BY <1>2, FlattenAppend
<1>5. wr'.handed = FlattenSeq(PartsOf(recs'))
  BY <1>4 DEF Recorded
<1>6. \A r \in 1 .. Len(recs) + 1 : From(r)' = From(r)
  BY <1>3 DEF From
<1>8. ASSUME NEW r \in 1 .. Len(recs') PROVE Fits(recs'[r], From(r)')
  <2>1. CASE r \in 1 .. Len(recs)
    <3>1. Fits(recs[r], From(r)) /\ From(r)' = From(r)
      BY <1>1, <1>6, <2>1 DEF Recorded
    <3> QED
      BY <1>1, <2>1, <3>1
  <2>2. CASE r = Len(recs) + 1
    BY <1>1, <1>6, <2>2, FromTyped
  <2> QED
    BY <1>1, <2>1, <2>2
<1>9. Recorded'
  <2>1. ASSUME NEW r \in 1 .. Len(recs') PROVE Fits(recs[r], From(r))'
    BY <1>8, SameScript DEF Fits
  <2> QED
    BY <1>5, <2>1 DEF Recorded
<1> QED
  BY <1>1, <1>6, <1>9

LEMMA WriterStays ==
    ASSUME session' = session
    PROVE  /\ \A h : IsPart(h)' <=> IsPart(h)
           /\ Hands(wr)' <=> Hands(wr')
           /\ (wr.next > 1 => Len(wr.handed) >= MsgLen(1))' <=>
                  (wr'.next > 1 => Len(wr'.handed) >= MsgLen(1))
<1>1. \A h : IsPart(h)' <=> IsPart(h)
  BY SameScript DEF IsPart
<1>2. Hands(wr)' <=> Hands(wr')
  BY SameScript
     DEF Hands, HandsData, HandsOther, HandsCertificate, HandsMessage
<1> QED
  BY <1>1, <1>2, SameScript

\* A record is built and what is in the output buffer is sent.
LEMMA Builds ==
    ASSUME WriterInv, NEW rec \in Records, recs' = Append(recs, rec),
           session' = session, link' = link,
           NEW s \in SendBuffered(Buffered), Sends(s),
           wr' \in WriterRecords, wr'.phase = wr.phase, wr'.error = s.error,
           wr'.handed = wr.handed \o PartOf(rec), IsPart(wr'.handed),
           Fits(rec, Len(wr.handed)),
           \/ wr.phase = "sending" /\ rec.type # "alert"
           \/ /\ wr.phase = "closing" /\ rec.type = "alert"
              /\ ~wr.sentNotify /\ wr.error = "none"
              /\ wr'.sentNotify \/ wr'.error = "SOCKET_ERROR_E",
           wr.phase = "sending" /\ s.error # "SOCKET_ERROR_E" => Hands(wr'),
           wr'.next > 1 => Len(wr'.handed) >= MsgLen(1)
    PROVE  WriterInv' /\ WriterTurn
<1>1. WriterTyped /\ Recorded /\ AlertLast /\ LinkKnown
  BY DEF WriterInv
<1>2. OutOk(Buffered) /\ Rest(Buffered) = Rest(out) \o Image(Len(recs) + 1, rec)
  BY <1>1, BufferedRest
<1>3. /\ OutOk(out') /\ Pushes(Rest(Buffered))
      /\ link = "cut" => s.error = "SOCKET_ERROR_E"
      /\ link # "cut" => s.error \in {"none", "WANT_WRITE"}
      /\ s.error = "none" => out' = EmptyOut
  BY <1>2, SendResult
<1>4. WriterTurn
  <2>1. wr.phase # "sending" => wr'.phase # "sending" /\ wr'.handed = wr.handed
    <3>1. wr.phase # "sending" => PartOf(rec) = <<>>
      BY DEF PartOf
    <3>2. wr.handed \o <<>> = wr.handed
      BY <1>1 DEF WriterTyped, WriterRecords
    <3> QED
      BY <3>1, <3>2
  <2> QED
    BY <1>2, <1>3, <2>1 DEF WriterTurn
<1>5. recs' \in Seq(Records) /\ Recorded'
  BY <1>1, RecordAdded
<1>6. WriterTyped'
  <2>1. wire' \in Seq(WireBytes)
    BY <1>1, <1>3, PushesTyped DEF WriterTyped
  <2> QED
    BY <1>1, <1>3, <1>5, <2>1 DEF WriterTyped, OutOk
<1>7. AlertLast'
  <2>1. /\ recs \in Seq(Records) /\ Len(recs') = Len(recs) + 1 /\ Len(recs) \in Nat
        /\ \A r \in 1 .. Len(recs) : recs'[r] = recs[r]
        /\ recs'[Len(recs) + 1] = rec
    BY <1>1 DEF WriterTyped
  <2>2. \A r \in 1 .. Len(recs) : recs[r].type # "alert"
    BY <1>1 DEF AlertLast
  <2>3. \A r \in 1 .. Len(recs') : recs'[r].type = "alert" => r = Len(recs') /\ rec.type = "alert"
    BY <2>1, <2>2
  <2> QED
    BY <2>3 DEF AlertLast
<1>8. LinkKnown'
  BY <1>1, <1>3 DEF LinkKnown
<1> QED
  BY <1>4, <1>5, <1>6, <1>7, <1>8, WriterStays DEF WriterInv

LEMMA RecordsStay ==
    ASSUME Recorded, AlertLast, session' = session, recs' = recs,
           wr'.handed = wr.handed,
           wr.phase # "sending" => wr'.phase # "sending",
           wr.sentNotify \/ wr.error = "SOCKET_ERROR_E" =>
               wr'.sentNotify \/ wr'.error = "SOCKET_ERROR_E"
    PROVE  Recorded' /\ AlertLast'
<1>1. \A r : From(r)' = From(r)
  BY DEF From
<1>2. ASSUME NEW r \in 1 .. Len(recs) PROVE Fits(recs[r], From(r))'
  <2>1. Fits(recs[r], From(r))
    BY DEF Recorded
  <2> QED
    BY <1>1, <2>1, SameScript DEF Fits
<1> QED
  BY <1>2 DEF Recorded, AlertLast

\* What was blocked is sent.
LEMMA Resumes ==
    ASSUME WriterInv, UNCHANGED <<session, recs, link>>,
           NEW s \in SendBuffered(out), Sends(s),
           wr.phase # "stopped", wr.error # "SOCKET_ERROR_E",
           wr' \in WriterRecords, wr'.phase = wr.phase, wr'.error = s.error,
           wr'.handed = wr.handed, wr'.sentNotify = wr.sentNotify,
           wr.phase = "sending" /\ s.error # "SOCKET_ERROR_E" => Hands(wr'),
           wr'.next > 1 => Len(wr'.handed) >= MsgLen(1)
    PROVE  WriterInv' /\ WriterTurn
<1>1. WriterTyped /\ Recorded /\ AlertLast /\ LinkKnown /\ OutOk(out)
  BY DEF WriterInv, WriterTyped
<1>2. /\ OutOk(out') /\ Pushes(Rest(out))
      /\ link = "cut" => s.error = "SOCKET_ERROR_E"
      /\ link # "cut" => s.error \in {"none", "WANT_WRITE"}
      /\ s.error = "none" => out' = EmptyOut
  BY <1>1, SendResult
<1>3. WriterTurn
  BY <1>2 DEF WriterTurn
<1>4. Recorded' /\ AlertLast'
  BY <1>1, RecordsStay
<1>5. WriterTyped'
  <2>1. wire' \in Seq(WireBytes)
    BY <1>1, <1>2, PushesTyped DEF WriterTyped
  <2> QED
    BY <1>1, <1>2, <2>1 DEF WriterTyped, OutOk
<1>6. LinkKnown'
  BY <1>1, <1>2 DEF LinkKnown
<1>7. IsPart(wr'.handed)
  BY DEF WriterInv
<1> QED
  BY <1>3, <1>4, <1>5, <1>6, <1>7, WriterStays DEF WriterInv

LEMMA AtMessage ==
    ASSUME session \in Sessions, NEW w, w.next \in 1 .. NumMsgs + 1, w.error = "none",
           w.fragOffset = 0, w.sent = 0, Len(w.handed) = Begin(w.next)
    PROVE  Hands(w)
<1>1. /\ NumHs \in Nat /\ NumMsgs \in Nat /\ NumHs <= NumMsgs
      /\ \A m \in 1 .. NumMsgs : MsgLen(m) \in Nat \ {0}
      /\ \A m \in 1 .. NumHs : session.hs[m].cert => CertSz(m) \in Nat \ {0}
      /\ Begin(w.next) \in Nat
  BY SessionTyped, ScriptTyped
<1>2. CASE w.next > NumMsgs
  BY <1>2 DEF Hands
<1>3. CASE w.next <= NumMsgs /\ w.next > NumHs
  BY <1>1, <1>3 DEF Hands, HandsData
<1>4. CASE w.next <= NumHs
  <2>1. w.next \in 1 .. NumHs /\ w.next \in 1 .. NumMsgs
    BY <1>1, <1>4
  <2>2. HandsOther(w)
    BY <1>1, <2>1 DEF HandsOther
  <2>3. session.hs[w.next].cert => HandsCertificate(w)
    BY <1>1, <2>1 DEF HandsCertificate
  <2>4. HandsMessage(w)
    BY <1>1 DEF HandsMessage
  <2> QED
    BY <1>1, <1>4, <2>1, <2>2, <2>3, <2>4 DEF Hands
<1> QED
  BY <1>1, <1>2, <1>3, <1>4

LEMMA BehindFirst ==
    ASSUME session \in Sessions, NEW m \in 1 .. NumMsgs
    PROVE  /\ Begin(m) \in Nat /\ Begin(m + 1) = Begin(m) + MsgLen(m)
           /\ Begin(m + 1) >= MsgLen(1)
           /\ m > 1 => Begin(m) >= MsgLen(1)
           /\ m <= NumHs => Begin(m + 1) <= Begin(NumHs + 1)
<1>1. /\ NumHs \in Nat \ {0} /\ NumMsgs \in Nat /\ NumHs <= NumMsgs
      /\ m \in 1 .. NumMsgs + 1 /\ m + 1 \in 2 .. NumMsgs + 1 /\ 2 \in 1 .. NumMsgs + 1
      /\ NumHs + 1 \in 1 .. NumMsgs + 1 /\ m + 1 \in 1 .. NumMsgs + 1
  BY SessionTyped
<1>2. Begin(1) = 0 /\ Begin(m) \in Nat /\ Begin(m + 1) = Begin(m) + MsgLen(m)
  BY <1>1, ScriptTyped
<1>3. Begin(2) = MsgLen(1)
  <2>1. 1 \in 1 .. NumMsgs /\ 1 + 1 = 2
    BY <1>1
  <2>2. Begin(1 + 1) = Begin(1) + MsgLen(1) /\ MsgLen(1) \in Nat
    BY <2>1, ScriptTyped, SessionTyped
  <2> QED
    BY <1>2, <2>1, <2>2
<1>4. Begin(2) <= Begin(m + 1)
  BY <1>1, BeginMonotone
<1>5. m > 1 => Begin(2) <= Begin(m)
  <2>1. m > 1 => m \in 2 .. NumMsgs + 1
    BY <1>1
  <2> QED
    BY <1>1, <2>1, BeginMonotone
<1>6. m <= NumHs => Begin(m + 1) <= Begin(NumHs + 1)
  <2>1. m <= NumHs => NumHs + 1 \in m + 1 .. NumMsgs + 1
    BY <1>1
  <2> QED
    BY <1>1, <2>1, BeginMonotone
<1>7. MsgLen(1) \in Nat /\ Begin(m + 1) \in Nat
  BY <1>1, SessionTyped, ScriptTyped
<1> QED
  BY <1>2, <1>3, <1>4, <1>5, <1>6, <1>7

\* Bytes a + 1 to b of a handshake message make a record.
LEMMA MessageFits ==
    ASSUME session \in Sessions, NEW m \in 1 .. NumHs,
           NEW a \in 0 .. MsgLen(m), NEW b \in a + 1 .. MsgLen(m), b >= HsHdr,
           NEW rec, rec = [type |-> "handshake", enc |-> (m > 1),
                           body |-> SubSeq(MsgBytes(m), a + 1, b)]
    PROVE  rec \in Records /\ PartOf(rec) = rec.body /\ Fits(rec, Begin(m) + a)
<1> DEFINE part == SubSeq(MsgBytes(m), a + 1, b)
<1>1. /\ m \in 1 .. NumMsgs /\ MsgLen(m) \in Nat \ {0} /\ 1 \in 1 .. NumMsgs
      /\ MsgLen(1) \in Nat \ {0} /\ HsHdr \in Nat
  BY SessionTyped, RecordSizes
<1>2. /\ MsgBytes(m) \in Seq(Byte) /\ Len(MsgBytes(m)) = MsgLen(m)
      /\ \A i \in 1 .. MsgLen(m) : MsgBytes(m)[i].no = i
  <2>1. \A i \in 1 .. MsgLen(m) :
            MsgBytes(m)[i] = [msg |-> m, no |-> i, cut |-> (m > NumHs \/ i = MsgLen(m))]
    BY <1>1, MessageTyped
  <2>2. ASSUME NEW i \in 1 .. MsgLen(m) PROVE MsgBytes(m)[i].no = i
    <3>1. MsgBytes(m)[i] = [msg |-> m, no |-> i, cut |-> (m > NumHs \/ i = MsgLen(m))]
      BY <2>1
    <3> QED
      BY <3>1
  <2> QED
    BY <1>1, <2>2, MessageTyped
<1>3. /\ part \in Seq(Byte) /\ Len(part) = b - a
      /\ \A j \in 1 .. b - a : part[j] = MsgBytes(m)[a + j]
  BY <1>1, <1>2, SliceIs
<1> HIDE DEF part
<1>4. rec.type = "handshake" /\ rec.enc = (m > 1) /\ rec.body = part /\ rec \in Records
  BY <1>3 DEF Records, part
<1>5. part # <<>> /\ part[Len(part)].no = b
  <2>1. b - a \in 1 .. b - a /\ a + (b - a) = b /\ b \in 1 .. MsgLen(m) /\ b - a # 0
    BY <1>1
  <2> QED
    BY <1>2, <1>3, <2>1
<1>6. /\ Begin(m) \in Nat /\ Begin(m + 1) = Begin(m) + MsgLen(m)
      /\ m > 1 => Begin(m) >= MsgLen(1)
      /\ m <= NumHs => Begin(m + 1) <= Begin(NumHs + 1)
  BY <1>1, BehindFirst
<1>7. Begin(1) = 0 /\ Begin(NumHs + 1) \in Nat
  <2>1. NumHs + 1 \in 1 .. NumMsgs + 1
    BY SessionTyped
  <2> QED
    BY <2>1, ScriptTyped
<1>8. Begin(m) + a + Len(part) = Begin(m) + b
  BY <1>1, <1>3, <1>6
<1>9. Begin(m) + b <= Begin(NumHs + 1)
  BY <1>1, <1>6, <1>7
<1>10. (m > 1) <=> (Begin(m) + a >= MsgLen(1))
  <2>1. CASE m = 1
    BY <1>1, <1>7, <2>1
  <2>2. CASE m # 1
    BY <1>1, <1>6, <2>2
  <2> QED
    BY <2>1, <2>2
<1>11. ~(m > 1) => Begin(m) + b <= MsgLen(1)
  BY <1>1, <1>7
<1>12. PartOf(rec) = rec.body
  BY <1>4 DEF PartOf
<1>13. Fits(rec, Begin(m) + a)
  <2>1. rec.enc = (Begin(m) + a >= MsgLen(1))
    BY <1>4, <1>10
  <2> QED
    BY <1>4, <1>5, <1>8, <1>9, <1>11, <2>1, b >= HsHdr DEF Fits
<1> QED
  BY <1>4, <1>12, <1>13

LEMMA SendHandshakeKeeps ==
    ASSUME WriterInv, SendHandshake
    PROVE  WriterInv' /\ WriterTurn
<1> DEFINE m == wr.next
           rec == [type |-> "handshake", enc |-> (m > 1), body |-> MsgBytes(m)]
<1>1. /\ session \in Sessions /\ wr \in WriterRecords /\ IsPart(wr.handed)
      /\ wr.phase = "sending" /\ wr.error = "none" /\ Hands(wr)
  BY DEF WriterInv, WriterTyped, SendHandshake, Handshaking
<1>2. /\ NumHs \in Nat /\ NumMsgs \in Nat /\ NumHs <= NumMsgs
      /\ m \in 1 .. NumHs /\ m \in 1 .. NumMsgs /\ wr.handed \in Seq(Byte)
  <2>1. m <= NumHs /\ m \in 1 .. NumMsgs + 1
    BY <1>1 DEF SendHandshake, Handshaking, Hands
  <2> QED
    BY <1>1, <2>1, SessionTyped DEF WriterRecords
<1>3. /\ wr.sent = 0 /\ wr.fragOffset = 0 /\ Len(wr.handed) = Begin(m) + 0
      /\ session.peer # "other" /\ ~session.hs[m].cert
  <2>1. session.peer = "wolfSSL" /\ ~session.hs[m].cert
    BY DEF SendHandshake
  <2>2. wr.sent = 0 /\ HandsMessage(wr)
    BY <1>1, <1>2, <2>1 DEF Hands
  <2>3. Begin(m) \in Nat
    BY <1>1, <1>2, BehindFirst
  <2> QED
    BY <1>1, <2>1, <2>2, <2>3 DEF HandsMessage
<1>4. /\ MsgLen(m) \in Nat \ {0} /\ MsgLen(m) >= HsHdr /\ HsHdr \in Nat
      /\ MsgBytes(m) \in Seq(Byte) /\ Len(MsgBytes(m)) = MsgLen(m)
  <2>1. session.hs[m].size \in Nat /\ MsgLen(m) = HsHdr + session.hs[m].size
    BY <1>1, <1>2, SessionTyped
  <2>2. MsgBytes(m) \in Seq(Byte) /\ Len(MsgBytes(m)) = MsgLen(m)
    BY <1>1, <1>2, MessageTyped
  <2>3. HsHdr \in Nat \ {0}
    BY RecordSizes
  <2> QED
    BY <2>1, <2>2, <2>3
<1>5. SubSeq(MsgBytes(m), 0 + 1, MsgLen(m)) = MsgBytes(m)
  BY <1>4
<1>6. rec \in Records /\ PartOf(rec) = rec.body /\ Fits(rec, Begin(m) + 0)
  <2>1. 0 \in 0 .. MsgLen(m) /\ MsgLen(m) \in 0 + 1 .. MsgLen(m)
    BY <1>4
  <2> HIDE DEF m
  <2>2. rec = [type |-> "handshake", enc |-> (m > 1),
               body |-> SubSeq(MsgBytes(m), 0 + 1, MsgLen(m))]
    BY <1>5
  <2> HIDE DEF rec
  <2> QED
    BY <1>1, <1>2, <1>4, <2>1, <2>2, MessageFits
<1>7. /\ wr.handed \o MsgBytes(m) \in Seq(Byte)
      /\ Len(wr.handed \o MsgBytes(m)) = Begin(m) + MsgLen(m)
      /\ IsPart(wr.handed \o MsgBytes(m))
  <2>1. 0 \in 0 .. MsgLen(m) /\ MsgLen(m) \in 0 .. MsgLen(m)
    BY <1>4
  <2> HIDE DEF m
  <2> QED
    BY <1>1, <1>2, <1>3, <1>5, <2>1, HandOn
<1>8. PICK s \in SendBuffered(Buffered) :
          /\ Sends(s)
          /\ wr' = [wr EXCEPT !.error = s.error, !.handed = @ \o MsgBytes(m),
                              !.next = IF s.error = "none" THEN @ + 1 ELSE @]
  BY DEF SendHandshake
<1>9. recs' = Append(recs, rec) /\ session' = session /\ link' = link
  BY DEF SendHandshake, BuildRecord
<1>10. s.error \in {"none", "WANT_WRITE", "SOCKET_ERROR_E"}
  BY DEF SendBuffered
<1>11. /\ wr' \in WriterRecords /\ wr'.phase = wr.phase /\ wr'.error = s.error
       /\ wr'.handed = wr.handed \o MsgBytes(m) /\ wr'.sent = 0 /\ wr'.fragOffset = 0
       /\ wr'.next = IF s.error = "none" THEN m + 1 ELSE m
  <2> DEFINE n == IF s.error = "none" THEN m + 1 ELSE m
             more == wr.handed \o MsgBytes(m)
  <2>1. n \in Nat /\ more \in Seq(Byte)
    BY <1>2, <1>7
  <2>2. wr' = [wr EXCEPT !.error = s.error, !.handed = more, !.next = n]
    BY <1>8
  <2> HIDE DEF n, more
  <2>3. /\ wr' \in WriterRecords /\ wr'.phase = wr.phase /\ wr'.error = s.error
        /\ wr'.handed = more /\ wr'.sent = 0 /\ wr'.fragOffset = 0 /\ wr'.next = n
    BY <1>1, <1>3, <1>10, <2>1, <2>2 DEF WriterRecords
  <2> QED
    BY <2>3 DEF n, more
<1>12. /\ Begin(m) \in Nat /\ Begin(m + 1) = Begin(m) + MsgLen(m)
       /\ Begin(m + 1) >= MsgLen(1)
  BY <1>1, <1>2, BehindFirst
<1>13. wr'.next > 1 => Len(wr'.handed) >= MsgLen(1)
  BY <1>7, <1>11, <1>12
<1>14. s.error # "SOCKET_ERROR_E" => Hands(wr')
  <2>1. ASSUME s.error = "none" PROVE Hands(wr')
    <3>1. wr'.next = m + 1 /\ m + 1 \in 1 .. NumMsgs + 1 /\ Len(wr'.handed) = Begin(m + 1)
      <4>1. wr'.next = m + 1 /\ m + 1 \in 1 .. NumMsgs + 1
        BY <1>2, <1>11, <2>1
      <4>2. Len(wr'.handed) = Begin(m + 1)
        BY <1>7, <1>11, <1>12
      <4> QED
        BY <4>1, <4>2
    <3> QED
      BY <1>1, <1>11, <2>1, <3>1, AtMessage
  <2>2. ASSUME s.error = "WANT_WRITE" PROVE Hands(wr')
    <3>1. wr'.next = m /\ Len(wr'.handed) = Begin(m) + MsgLen(m) /\ wr'.error = "WANT_WRITE"
      BY <1>7, <1>11, <2>2
    <3>2. HandsMessage(wr')
      BY <1>11, <3>1 DEF HandsMessage
    <3> QED
      BY <1>2, <1>3, <1>11, <3>1, <3>2 DEF Hands
  <2> QED
    BY <1>10, <2>1, <2>2
<1>15. rec.type # "alert" /\ Fits(rec, Len(wr.handed)) /\ rec.body = MsgBytes(m)
  BY <1>3, <1>6
<1>16. PartOf(rec) = MsgBytes(m)
  BY <1>6, <1>15
<1> HIDE DEF rec
<1> QED
  BY <1>1, <1>6, <1>7, <1>8, <1>9, <1>11, <1>13, <1>14, <1>15, <1>16, Builds

\* Nothing is built and nothing is sent.
LEMMA Stands ==
    ASSUME WriterInv, UNCHANGED <<session, recs, wire, link, out>>,
           wr' \in WriterRecords, wr'.handed = wr.handed, wr'.error = wr.error,
           wr'.sentNotify = wr.sentNotify,
           wr.phase # "stopped", wr'.phase # "stopped",
           wr'.phase = "sending" => wr.phase = "sending"
                                    /\ (wr.error # "SOCKET_ERROR_E" => Hands(wr')),
           wr'.next > 1 => Len(wr'.handed) >= MsgLen(1)
    PROVE  WriterInv' /\ WriterTurn
<1>1. WriterTyped /\ Recorded /\ AlertLast /\ LinkKnown /\ OutOk(out)
  BY DEF WriterInv, WriterTyped
<1>2. Recorded' /\ AlertLast'
  BY <1>1, RecordsStay
<1>3. WriterTyped'
  BY <1>1 DEF WriterTyped, OutOk
<1>4. LinkKnown'
  BY <1>1 DEF LinkKnown
<1>5. WriterTurn
  <2>1. <<>> \in Seq(WireBytes) /\ Rest(out') = Rest(out)
    OBVIOUS
  <2>2. Rest(out) = <<>> \o Rest(out')
    BY <1>1, <2>1, RestTyped
  <2>3. CASE link = "cut"
    BY <2>3 DEF WriterTurn, Pushes
  <2>4. CASE link # "cut"
    <3>1. wire' = wire \o <<>>
      BY <1>1 DEF WriterTyped
    <3> QED
      BY <2>1, <2>2, <2>4, <3>1 DEF WriterTurn, Pushes
  <2> QED
    BY <2>3, <2>4
<1>6. IsPart(wr'.handed)
  BY DEF WriterInv
<1> QED
  BY <1>2, <1>3, <1>4, <1>5, <1>6, WriterStays DEF WriterInv

LEMMA CertExt ==
    ASSUME NEW len \in Nat \ {0}, NEW idx \in 0 .. len, NEW fragSz \in Nat \ {0},
           idx = len => fragSz >= ExtSz
    PROVE  LET k == AddCertExt(len, idx, fragSz)
           IN  k \in Nat \ {0} /\ idx + k \in (1 .. len) \cup {len + ExtSz}
<1> DEFINE i == IF idx < len THEN Lesser(len - idx, fragSz) ELSE 0
           k == AddCertExt(len, idx, fragSz)
<1>1. /\ i \in Nat /\ idx + i \in 0 .. len
      /\ idx < len => i # 0
      /\ i # fragSz => idx + i = len
  BY DEF Lesser
<1>2. k = IF i = fragSz \/ len + ExtSz - idx - i > fragSz THEN i ELSE i + ExtSz
  BY DEF AddCertExt
<1> SUFFICES k \in Nat \ {0} /\ idx + k \in (1 .. len) \cup {len + ExtSz}
  OBVIOUS
<1> HIDE DEF i, k
<1>3. ExtSz = 2
  BY DEF ExtSz
<1>4. CASE idx < len
  <2>1. CASE i = fragSz \/ len + ExtSz - idx - i > fragSz
    <3>1. k = i
      BY <1>2, <2>1, Zenon
    <3> QED
      BY <1>1, <1>3, <1>4, <3>1
  <2>2. CASE ~(i = fragSz \/ len + ExtSz - idx - i > fragSz)
    <3>1. k = i + ExtSz /\ idx + i = len
      <4>1. k = i + ExtSz
        BY <1>2, <2>2, Zenon
      <4> QED
        BY <1>1, <2>2, <4>1
    <3> QED
      BY <1>1, <1>3, <3>1
  <2> QED
    BY <2>1, <2>2
<1>5. CASE idx = len
  <2>1. i = 0
    BY <1>1, <1>5
  <2>2. len + ExtSz - idx - i = ExtSz
    BY <1>3, <1>5, <2>1
  <2>3. k = ExtSz
    BY <1>2, <1>3, <1>5, <2>1, <2>2
  <2> QED
    BY <1>3, <1>5, <2>3
<1> QED
  BY <1>4, <1>5

\* A fragment goes on where the last one ended.
LEMMA FragmentIs ==
    ASSUME session \in Sessions, NEW m \in 1 .. NumHs, session.hs[m].cert,
           wr.fragOffset \in 0 .. CertSz(m)
    PROVE  LET a == IF wr.fragOffset = 0 THEN 0 ELSE HsHdr + CertHdr + wr.fragOffset
           IN  \E k \in Nat \ {0} :
                   /\ wr.fragOffset + k \in (1 .. CertSz(m)) \cup {CertSz(m) + ExtSz}
                   /\ Fragment(m) = SubSeq(MsgBytes(m), a + 1,
                                           HsHdr + CertHdr + wr.fragOffset + k)
<1>1. /\ HsHdr \in Nat \ {0} /\ CertHdr \in Nat \ {0} /\ MaxFragment \in Nat
      /\ HsHdr + CertHdr < MaxFragment /\ ExtSz = 2
  BY RecordSizes DEF ExtSz
<1>2. /\ session.hs[m].size \in Nat /\ CertSz(m) \in Nat \ {0}
      /\ MsgLen(m) = HsHdr + session.hs[m].size
      /\ session.hs[m].size = CertHdr + CertSz(m) + ExtSz
  BY <1>1, SessionTyped DEF CertSz
<1>3. CASE wr.fragOffset = 0
  <2> DEFINE f == Lesser(session.hs[m].size, MaxFragment - HsHdr) - CertHdr
             k == AddCertExt(CertSz(m), 0, f)
  <2>1. f \in Nat \ {0} /\ 0 \in 0 .. CertSz(m) /\ CertSz(m) # 0
    BY <1>1, <1>2 DEF Lesser
  <2>2. Fragment(m) = SubSeq(MsgBytes(m), 1, HsHdr + CertHdr + k)
    BY <1>3 DEF Fragment
  <2> HIDE DEF f
  <2>3. k \in Nat \ {0} /\ 0 + k \in (1 .. CertSz(m)) \cup {CertSz(m) + ExtSz}
    BY <1>2, <2>1, CertExt
  <2> HIDE DEF k
  <2>4. HsHdr + CertHdr + wr.fragOffset + k = HsHdr + CertHdr + k /\ 0 + 1 = 1
    BY <1>1, <1>3, <2>3
  <2> QED
    BY <1>3, <2>2, <2>3, <2>4
<1>4. CASE wr.fragOffset # 0
  <2> DEFINE from == HsHdr + CertHdr + wr.fragOffset
             f == Lesser(MsgLen(m) - from, MaxFragment)
             k == AddCertExt(CertSz(m), wr.fragOffset, f)
  <2>1. f \in Nat \ {0} /\ (wr.fragOffset = CertSz(m) => f >= ExtSz)
    BY <1>1, <1>2 DEF Lesser
  <2>2. Fragment(m) = SubSeq(MsgBytes(m), from + 1, from + k)
    BY <1>4 DEF Fragment
  <2> HIDE DEF f
  <2>3. k \in Nat \ {0} /\ wr.fragOffset + k \in (1 .. CertSz(m)) \cup {CertSz(m) + ExtSz}
    BY <1>2, <2>1, CertExt
  <2> QED
    BY <1>4, <2>2, <2>3
<1> QED
  BY <1>3, <1>4

LEMMA SendCertificateKeeps ==
    ASSUME WriterInv, SendCertificate
    PROVE  WriterInv' /\ WriterTurn
<1> DEFINE m == wr.next
           o == wr.fragOffset
           body == Fragment(m)
           rec == [type |-> "handshake", enc |-> (m > 1), body |-> body]
           header == IF o = 0 THEN HsHdr + CertHdr ELSE 0
           offset == o + Len(body) - header
           h == wr.handed
<1>1. /\ session \in Sessions /\ wr \in WriterRecords /\ IsPart(h)
      /\ m \in 1 .. NumHs /\ session.peer = "wolfSSL" /\ session.hs[m].cert
      /\ wr.phase = "sending" /\ wr.error = "none" /\ Hands(wr)
  BY DEF WriterInv, WriterTyped, SendCertificate, Sending
<1>2. /\ NumHs \in Nat /\ NumMsgs \in Nat /\ NumHs <= NumMsgs
      /\ m \in Nat /\ m <= NumHs /\ m \in 1 .. NumMsgs /\ h \in Seq(Byte)
      /\ m + 1 \in 1 .. NumMsgs + 1 /\ m \in 1 .. NumMsgs + 1
  BY <1>1, SessionTyped DEF WriterRecords
<1>3. /\ wr.sent = 0 /\ HandsCertificate(wr)
  BY <1>1, <1>2 DEF Hands
<1>4. /\ HsHdr \in Nat \ {0} /\ CertHdr \in Nat \ {0} /\ ExtSz = 2
      /\ CertSz(m) \in Nat \ {0}
      /\ MsgLen(m) = HsHdr + CertHdr + CertSz(m) + ExtSz
      /\ MsgBytes(m) \in Seq(Byte) /\ Len(MsgBytes(m)) = MsgLen(m)
  <2>1. /\ HsHdr \in Nat \ {0} /\ CertHdr \in Nat \ {0} /\ ExtSz = 2
    BY RecordSizes DEF ExtSz
  <2>2. session.hs[m].size \in Nat /\ CertSz(m) \in Nat \ {0}
        /\ MsgLen(m) = HsHdr + session.hs[m].size
    BY <1>1, SessionTyped
  <2>3. MsgBytes(m) \in Seq(Byte) /\ Len(MsgBytes(m)) = MsgLen(m)
    BY <1>1, <1>2, MessageTyped
  <2> QED
    BY <2>1, <2>2, <2>3 DEF CertSz
<1>5. o \in (0 .. CertSz(m)) \cup {CertSz(m) + ExtSz} /\ o \in Nat
  BY <1>3, <1>4 DEF HandsCertificate
<1>6. /\ Begin(m) \in Nat /\ Begin(m + 1) = Begin(m) + MsgLen(m)
      /\ Begin(m + 1) >= MsgLen(1)
      /\ m > 1 => Begin(m) >= MsgLen(1)
  BY <1>1, <1>2, BehindFirst
<1>7. Len(h) = Begin(m) + IF o = 0 THEN 0 ELSE HsHdr + CertHdr + o
  BY <1>3 DEF HandsCertificate
<1>8. session' = session /\ link' = link
  BY DEF SendCertificate
<1>9. CASE o < CertSz(m) + ExtSz
  <2> DEFINE a == IF o = 0 THEN 0 ELSE HsHdr + CertHdr + o
  <2>1. o \in 0 .. CertSz(m)
    BY <1>4, <1>5, <1>9
  <2>2. PICK k \in Nat \ {0} :
            /\ o + k \in (1 .. CertSz(m)) \cup {CertSz(m) + ExtSz}
            /\ body = SubSeq(MsgBytes(m), a + 1, HsHdr + CertHdr + o + k)
    <3> HIDE DEF m
    <3> QED
      BY <1>1, <2>1, FragmentIs DEF m
  <2> DEFINE b == HsHdr + CertHdr + o + k
  <2>3. /\ a \in 0 .. MsgLen(m) /\ b \in a + 1 .. MsgLen(m) /\ b \in a .. MsgLen(m)
        /\ b >= HsHdr /\ Len(h) = Begin(m) + a /\ b - a = k + header
    <3>1. Len(h) = Begin(m) + a
      BY <1>7
    <3>2. CASE o = 0
      BY <1>4, <2>2, <3>1, <3>2
    <3>3. CASE o # 0
      <4>1. a = HsHdr + CertHdr + o /\ header = 0
        BY <3>3
      <4>2. o \in Nat /\ o <= CertSz(m) /\ o + k <= CertSz(m) + ExtSz
        BY <1>4, <2>1, <2>2
      <4> HIDE DEF m, o, a, header
      <4> QED
        BY <1>4, <3>1, <4>1, <4>2
    <3> QED
      BY <3>2, <3>3
  <2>4. rec = [type |-> "handshake", enc |-> (m > 1),
               body |-> SubSeq(MsgBytes(m), a + 1, b)]
    BY <2>2
  <2> HIDE DEF a, b, m, body
  <2>5. rec \in Records /\ PartOf(rec) = rec.body /\ Fits(rec, Begin(m) + a)
    <3> HIDE DEF rec
    <3> QED
      BY <1>1, <2>3, <2>4, MessageFits
  <2>6. /\ body \in Seq(Byte) /\ Len(body) = b - a
        /\ h \o body \in Seq(Byte) /\ Len(h \o body) = Begin(m) + b /\ IsPart(h \o body)
    <3>1. body = SubSeq(MsgBytes(m), a + 1, b)
      BY <2>2 DEF b
    <3> QED
      BY <1>1, <1>2, <2>3, <3>1, HandOn
  <2>7. offset = o + k
    <3>1. header \in Nat /\ Len(body) = k + header
      BY <1>4, <2>3, <2>6
    <3>2. o \in Nat /\ k \in Nat
      BY <1>5, <2>2
    <3> HIDE DEF header, o
    <3> QED
      BY <3>1, <3>2
  <2>8. PICK s \in SendBuffered(Buffered) :
            Sends(s) /\ wr' = AfterFragment(m, offset, body, s.error)
    BY <1>9, <2>3 DEF SendCertificate, Sending, m, body
  <2>9. recs' = Append(recs, rec)
    BY <1>9 DEF SendCertificate, Sending, BuildRecord, m, body
  <2>10. s.error \in {"none", "WANT_WRITE", "SOCKET_ERROR_E"}
    BY DEF SendBuffered
  <2>11. o + k \in Nat \ {0} /\ b = HsHdr + CertHdr + (o + k)
    BY <1>4, <1>5, <2>2 DEF b
  <2> HIDE DEF offset, rec
  <2> DEFINE complete == s.error = "none" /\ o + k = CertSz(m) + ExtSz
  <2>12. /\ wr' \in WriterRecords /\ wr'.phase = wr.phase /\ wr'.error = s.error
         /\ wr'.handed = h \o body /\ wr'.sent = 0
         /\ wr'.fragOffset = IF complete \/ s.error = "SOCKET_ERROR_E" THEN 0 ELSE o + k
         /\ wr'.next = IF complete THEN m + 1 ELSE m
    <3> DEFINE more == h \o body
               n == IF complete THEN m + 1 ELSE m
               f == IF complete \/ s.error = "SOCKET_ERROR_E" THEN 0 ELSE o + k
    <3>1. more \in Seq(Byte) /\ n \in Nat /\ f \in Nat
      BY <1>2, <2>6, <2>11
    <3>2. wr' = [wr EXCEPT !.error = s.error, !.handed = more, !.fragOffset = f, !.next = n]
      BY <2>7, <2>8 DEF AfterFragment, m
    <3> HIDE DEF more, n, f
    <3>3. /\ wr' \in WriterRecords /\ wr'.phase = wr.phase /\ wr'.error = s.error
          /\ wr'.handed = more /\ wr'.sent = 0 /\ wr'.fragOffset = f /\ wr'.next = n
      BY <1>1, <1>3, <2>10, <3>1, <3>2 DEF WriterRecords
    <3> QED
      BY <3>3 DEF more, n, f
  <2>13. wr'.next > 1 => Len(wr'.handed) >= MsgLen(1)
    <3>1. CASE complete
      BY <1>4, <1>6, <2>6, <2>11, <2>12, <3>1
    <3>2. CASE ~complete
      <4>1. MsgLen(1) \in Nat
        BY <1>1, <1>2, SessionTyped
      <4>2. wr'.next = m /\ Len(wr'.handed) = Begin(m) + b
        BY <2>6, <2>12, <3>2
      <4>3. b \in Nat
        BY <1>4, <2>11
      <4>4. m > 1 => Begin(m) + b >= MsgLen(1)
        BY <1>6, <4>1, <4>3
      <4> QED
        BY <4>2, <4>4
    <3> QED
      BY <3>1, <3>2
  <2>14. ASSUME s.error # "SOCKET_ERROR_E" PROVE Hands(wr')
    <3>1. CASE complete
      <4>1. /\ wr'.next = m + 1 /\ Len(wr'.handed) = Begin(m + 1)
            /\ wr'.error = "none" /\ wr'.fragOffset = 0
        BY <1>4, <1>6, <2>6, <2>11, <2>12, <3>1
      <4> QED
        BY <1>1, <1>2, <2>12, <4>1, AtMessage
    <3>2. CASE ~complete
      <4>1. /\ wr'.next = m /\ wr'.fragOffset = o + k /\ wr'.fragOffset # 0
            /\ Len(wr'.handed) = Begin(m) + (HsHdr + CertHdr + (o + k))
        BY <2>6, <2>11, <2>12, <2>14, <3>2
      <4>2. HandsCertificate(wr')
        BY <2>2, <4>1 DEF HandsCertificate
      <4> QED
        BY <1>1, <1>2, <2>10, <2>12, <2>14, <4>1, <4>2 DEF Hands
    <3> QED
      BY <3>1, <3>2
  <2>15. rec.type # "alert" /\ Fits(rec, Len(h)) /\ PartOf(rec) = body
    BY <2>3, <2>4, <2>5 DEF rec
  <2> QED
    BY <1>1, <1>8, <2>5, <2>6, <2>8, <2>9, <2>12, <2>13, <2>14, <2>15, Builds
<1>10. CASE ~(o < CertSz(m) + ExtSz)
  <2>1. o = CertSz(m) + ExtSz /\ o # 0
    BY <1>4, <1>5, <1>10
  <2>2. wr' = AfterFragment(m, o, <<>>, "none") /\ UNCHANGED <<recs, wire, out>>
    BY <1>10 DEF SendCertificate, Sending
  <2>3. h \o <<>> = h
    BY <1>2
  <2>4. /\ wr' \in WriterRecords /\ wr'.phase = wr.phase /\ wr'.error = "none"
        /\ wr'.handed = h /\ wr'.sent = 0 /\ wr'.fragOffset = 0 /\ wr'.next = m + 1
        /\ wr'.sentNotify = wr.sentNotify
    <3> DEFINE n == m + 1
    <3>1. n \in Nat
      BY <1>2
    <3>2. wr' = [wr EXCEPT !.error = "none", !.handed = h, !.fragOffset = 0, !.next = n]
      BY <2>1, <2>2, <2>3 DEF AfterFragment
    <3> HIDE DEF n
    <3>3. /\ wr' \in WriterRecords /\ wr'.phase = wr.phase /\ wr'.error = "none"
          /\ wr'.handed = h /\ wr'.sent = 0 /\ wr'.fragOffset = 0 /\ wr'.next = n
          /\ wr'.sentNotify = wr.sentNotify
      BY <1>1, <1>2, <1>3, <3>1, <3>2 DEF WriterRecords
    <3> QED
      BY <3>3 DEF n
  <2>5. Len(h) = Begin(m + 1)
    BY <1>4, <1>6, <1>7, <2>1
  <2>6. Hands(wr')
    BY <1>1, <1>2, <2>4, <2>5, AtMessage
  <2>7. wr'.next > 1 => Len(wr'.handed) >= MsgLen(1)
    BY <1>6, <2>4, <2>5
  <2> QED
    BY <1>1, <1>8, <2>2, <2>4, <2>6, <2>7, Stands
<1> QED
  BY <1>9, <1>10

\* Another implementation is never blocked: its record leaves at once.
LEMMA SendOtherKeeps ==
    ASSUME WriterInv, SendOther
    PROVE  WriterInv' /\ WriterTurn
<1> DEFINE h == wr.handed
           from == Len(h)
<1>1. /\ session \in Sessions /\ recs \in Seq(Records) /\ wr \in WriterRecords
      /\ IsPart(h) /\ wr.phase = "sending" /\ session.peer = "other"
      /\ wr.next <= NumHs /\ link = "up" /\ LinkKnown /\ WriterTyped
      /\ wr.next > 1 => from >= MsgLen(1)
  BY DEF WriterInv, WriterTyped, SendOther, Handshaking
<1>2. Hands(wr)
  BY <1>1 DEF WriterInv, LinkKnown
<1>3. /\ NumHs \in Nat \ {0} /\ NumMsgs \in Nat /\ NumHs <= NumMsgs
      /\ wr.next \in 1 .. NumHs /\ h \in Seq(Byte) /\ from \in Nat
      /\ MsgLen(1) \in Nat \ {0} /\ Script \in Seq(Byte)
      /\ \A m \in 1 .. NumMsgs : MsgLen(m) \in Nat \ {0}
  <2>1. wr.next \in Nat /\ wr.next >= 1 /\ h \in Seq(Byte)
    BY <1>1, <1>2 DEF Hands, WriterRecords
  <2>2. 1 \in 1 .. NumMsgs
    BY <1>1, SessionTyped
  <2> QED
    BY <1>1, <2>1, <2>2, SessionTyped, ScriptTyped
<1>4. wr.sent = 0 /\ HandsOther(wr)
  BY <1>1, <1>2, <1>3 DEF Hands
<1>5. wr.error = "none" /\ wr.fragOffset = 0 /\ out = EmptyOut
      /\ from < Begin(wr.next) + MsgLen(wr.next)
  BY <1>1, <1>4 DEF HandsOther, LinkKnown
<1>6. PICK p \in CutPoints :
          /\ p - from \in 1 .. MaxFragment
          /\ from >= MsgLen(1) \/ p <= MsgLen(1)
          /\ BuildRecord("handshake", SubSeq(Script, from + 1, p))
          /\ wire' = wire \o Buffered.buf
          /\ wr' = [wr EXCEPT !.handed = @ \o SubSeq(Script, from + 1, p),
                              !.next = Script[p].msg + IF Script[p].cut THEN 1 ELSE 0]
  BY DEF SendOther
<1> DEFINE at == Script[p]
           m == at.msg
           body == SubSeq(Script, from + 1, p)
           rec == [type |-> "handshake", enc |-> (wr.next > 1), body |-> body]
<1>7. /\ p \in 1 .. Len(Script) /\ m <= NumHs
  BY <1>3, <1>6 DEF CutPoints
<1>8. /\ m \in 1 .. NumHs /\ m \in 1 .. NumMsgs /\ at.no \in 1 .. MsgLen(m)
      /\ p = Begin(m) + at.no /\ at.cut = (m > NumHs \/ at.no = MsgLen(m))
  BY <1>1, <1>3, <1>7, ScriptAt
<1>9. /\ Begin(m) \in Nat /\ Begin(m + 1) = Begin(m) + MsgLen(m)
      /\ Begin(m + 1) >= MsgLen(1)
      /\ m > 1 => Begin(m) >= MsgLen(1)
      /\ m <= NumHs => Begin(m + 1) <= Begin(NumHs + 1)
  <2> HIDE DEF m, at
  <2> QED
    BY <1>1, <1>8, BehindFirst
<1>10. MsgLen(m) \in Nat \ {0} /\ m \in Nat /\ from < p /\ p \in Nat /\ Len(Script) \in Nat
  BY <1>3, <1>6, <1>7, <1>8
<1>11. /\ body \in Seq(Byte) /\ Len(body) = p - from
       /\ \A j \in 1 .. p - from : body[j] = Script[from + j]
  <2>1. from \in 0 .. Len(Script) /\ p \in from .. Len(Script)
    BY <1>3, <1>7, <1>10
  <2> HIDE DEF from
  <2> QED
    BY <1>3, <2>1, SliceIs
<1> DEFINE more == h \o body
<1>12. /\ more \in Seq(Byte) /\ Len(more) = p
       /\ \A j \in 1 .. Len(h) : more[j] = h[j]
       /\ \A j \in 1 .. Len(body) : more[Len(h) + j] = body[j]
  <2>1. body \in Seq(Byte) /\ h \in Seq(Byte)
    BY <1>3, <1>11
  <2>2. /\ more \in Seq(Byte) /\ Len(more) = Len(h) + Len(body)
        /\ \A j \in 1 .. Len(h) : more[j] = h[j]
        /\ \A j \in 1 .. Len(body) : more[Len(h) + j] = body[j]
    <3> HIDE DEF body, h
    <3> QED
      BY <2>1, ConcatIs
  <2>3. Len(h) + Len(body) = p
    BY <1>3, <1>10, <1>11
  <2> QED
    BY <2>2, <2>3
<1>13. recs' = Append(recs, rec) /\ session' = session /\ link' = link /\ out' = out
  BY <1>6 DEF BuildRecord, SendOther
<1> DEFINE n == m + IF at.cut THEN 1 ELSE 0
<1>14. wr' = [wr EXCEPT !.handed = more, !.next = n]
  BY <1>6
<1> HIDE DEF more, body
<1>15. IsPart(more)
  <2>1. Len(more) <= Len(Script)
    BY <1>7, <1>12
  <2>2. ASSUME NEW j \in 1 .. Len(more) PROVE more[j] = Script[j]
    <3>1. CASE j \in 1 .. Len(h)
      BY <1>1, <1>12, <3>1 DEF IsPart
    <3>2. CASE j \notin 1 .. Len(h)
      <4>1. j - Len(h) \in 1 .. p - from /\ Len(h) + (j - Len(h)) = j
        BY <1>3, <1>10, <1>12, <3>2
      <4> QED
        BY <1>11, <1>12, <4>1
    <3> QED
      BY <3>1, <3>2
  <2> QED
    BY <2>1, <2>2 DEF IsPart
<1>16. rec \in Records /\ PartOf(rec) = body /\ rec.type # "alert"
  BY <1>11 DEF Records, PartOf
<1>17. Fits(rec, from)
  <2>1. rec.body = body /\ rec.enc = (wr.next > 1) /\ rec.type = "handshake"
    OBVIOUS
  <2>2. from + Len(body) = p /\ body # <<>>
    BY <1>3, <1>10, <1>11
  <2>3. p <= Begin(NumHs + 1)
    <3>1. Begin(NumHs + 1) \in Nat
      <4>1. NumHs + 1 \in 1 .. NumMsgs + 1
        BY <1>3
      <4> QED
        BY <1>1, <4>1, ScriptTyped
    <3> HIDE DEF m, at
    <3> QED
      BY <1>7, <1>8, <1>9, <1>10, <3>1
  <2>4. session.peer = "other"
    BY <1>1
  <2>5. (wr.next > 1) <=> (from >= MsgLen(1))
    <3>1. CASE wr.next = 1
      <4>1. Begin(1) = 0
        BY <1>1, ScriptTyped
      <4>2. from < MsgLen(1)
        BY <1>3, <1>5, <3>1, <4>1
      <4> QED
        BY <1>3, <3>1, <4>2
    <3>2. CASE wr.next # 1
      BY <1>1, <1>3, <3>2
    <3> QED
      BY <3>1, <3>2
  <2>6. ~(wr.next > 1) => p <= MsgLen(1)
    BY <1>3, <1>6, <2>5
  <2>7. rec.enc = (from >= MsgLen(1))
    BY <2>1, <2>5
  <2> HIDE DEF rec, from
  <2> QED
    BY <2>1, <2>2, <2>3, <2>4, <2>6, <2>7 DEF Fits
<1>18. /\ n \in 1 .. NumMsgs + 1 /\ n \in Nat
       /\ at.cut => n = m + 1 /\ p = Begin(m + 1)
       /\ ~at.cut => n = m /\ Begin(m) <= p /\ p < Begin(m) + MsgLen(m)
  <2>1. at.cut <=> at.no = MsgLen(m)
    <3>1. ~(m > NumHs)
      BY <1>3, <1>8
    <3>2. at.cut = (at.no = MsgLen(m))
      BY <1>8, <3>1
    <3> HIDE DEF at, m
    <3> QED
      BY <3>2
  <2> HIDE DEF m
  <2>2. CASE at.cut
    BY <1>3, <1>8, <1>9, <1>10, <2>1, <2>2
  <2>3. CASE ~at.cut
    BY <1>3, <1>8, <1>9, <1>10, <2>1, <2>3
  <2> QED
    BY <2>2, <2>3
<1> HIDE DEF n
<1>19. /\ wr' \in WriterRecords /\ wr'.phase = wr.phase /\ wr'.error = "none"
       /\ wr'.handed = more /\ wr'.next = n /\ wr'.sent = 0 /\ wr'.fragOffset = 0
  BY <1>1, <1>4, <1>5, <1>12, <1>14, <1>18 DEF WriterRecords
<1>20. wr'.next > 1 => Len(wr'.handed) >= MsgLen(1)
  <2> HIDE DEF m, at
  <2> QED
    BY <1>3, <1>9, <1>10, <1>12, <1>18, <1>19
<1>21. Hands(wr')
  <2> HIDE DEF m
  <2>1. CASE at.cut
    <3>1. Len(wr'.handed) = Begin(wr'.next)
      BY <1>12, <1>18, <1>19, <2>1
    <3> QED
      BY <1>1, <1>18, <1>19, <3>1, AtMessage
  <2>2. CASE ~at.cut
    <3>1. wr'.next = m /\ Len(wr'.handed) = p
      BY <1>12, <1>18, <1>19, <2>2
    <3>2. HandsOther(wr')
      BY <1>18, <1>19, <2>2, <3>1 DEF HandsOther
    <3> QED
      BY <1>1, <1>3, <1>8, <1>18, <1>19, <3>1, <3>2 DEF Hands
  <2> QED
    BY <2>1, <2>2
<1>22. PICK s \in SendBuffered(Buffered) : Sends(s) /\ s.error = "none"
  <2> DEFINE s == [wire  |-> wire \o SubSeq(Buffered.buf, Buffered.idx + 1,
                                            Buffered.idx + Pending(Buffered)),
                   out   |-> EmptyOut, error |-> "none"]
  <2>1. OutOk(Buffered)
    BY <1>1, <1>13, <1>16, BufferedRest
  <2>2. Buffered.idx = 0
    BY <1>5 DEF Buffered, EmptyOut
  <2>3. Pending(Buffered) = Len(Buffered.buf) /\ Pending(Buffered) \in Nat
        /\ Buffered.buf \in Seq(WireBytes)
    BY <2>1, <2>2 DEF Pending, OutOk
  <2>4. SubSeq(Buffered.buf, Buffered.idx + 1, Buffered.idx + Pending(Buffered)) = Buffered.buf
    BY <2>2, <2>3
  <2>5. s \in SendBuffered(Buffered)
    <3>1. link # "cut" /\ Pending(Buffered) \in 0 .. Pending(Buffered)
      BY <1>1, <2>3
    <3> QED
      BY <3>1 DEF SendBuffered
  <2>6. Sends(s)
    BY <1>5, <1>6, <1>13, <2>4 DEF Sends
  <2> QED
    BY <2>5, <2>6
<1>23. wr'.handed = wr.handed \o PartOf(rec) /\ IsPart(wr'.handed) /\ wr'.error = s.error
  BY <1>15, <1>16, <1>19, <1>22 DEF more
<1> HIDE DEF rec
<1> QED
  BY <1>1, <1>13, <1>16, <1>17, <1>19, <1>20, <1>21, <1>22, <1>23, Builds

\* Bytes a + 1 to b of a write make a record.
LEMMA DataFits ==
    ASSUME session \in Sessions, NEW m \in NumHs + 1 .. NumMsgs,
           NEW a \in 0 .. MsgLen(m), NEW b \in a + 1 .. MsgLen(m),
           b - a <= MaxFragment,
           NEW rec, rec = [type |-> "application_data", enc |-> (m > 1),
                           body |-> SubSeq(MsgBytes(m), a + 1, b)]
    PROVE  rec \in Records /\ PartOf(rec) = rec.body /\ Fits(rec, Begin(m) + a)
<1> DEFINE part == SubSeq(MsgBytes(m), a + 1, b)
<1>1. /\ NumHs \in Nat \ {0} /\ NumMsgs \in Nat /\ m \in 1 .. NumMsgs /\ m > 1
      /\ MsgLen(m) \in Nat \ {0}
  BY SessionTyped
<1>2. /\ part \in Seq(Byte) /\ Len(part) = b - a
  <2>1. MsgBytes(m) \in Seq(Byte) /\ Len(MsgBytes(m)) = MsgLen(m)
    BY <1>1, MessageTyped
  <2> QED
    BY <1>1, <2>1, SliceIs
<1> HIDE DEF part
<1>3. /\ rec.type = "application_data" /\ rec.enc = TRUE /\ rec.body = part
      /\ rec \in Records
  BY <1>1, <1>2 DEF Records, part
<1>4. part # <<>>
  BY <1>1, <1>2
<1>5. Begin(NumHs + 1) <= Begin(m) /\ Begin(NumHs + 1) \in Nat /\ Begin(m) \in Nat
  <2>1. NumHs + 1 \in 1 .. NumMsgs + 1 /\ m \in NumHs + 1 .. NumMsgs + 1
        /\ m \in 1 .. NumMsgs + 1
    BY <1>1
  <2> QED
    BY <2>1, BeginMonotone, ScriptTyped
<1>6. Begin(m) + a >= Begin(NumHs + 1)
  BY <1>1, <1>5
<1>7. PartOf(rec) = rec.body /\ Fits(rec, Begin(m) + a)
  BY <1>2, <1>3, <1>4, <1>6 DEF PartOf, Fits
<1> QED
  BY <1>3, <1>7

LEMMA SendDataKeeps ==
    ASSUME WriterInv, SendData
    PROVE  WriterInv' /\ WriterTurn
<1> DEFINE m == wr.next
           h == wr.handed
           a == wr.sent
           sz == Lesser(MsgLen(m) - a, MaxFragment)
           b == a + sz
           body == SubSeq(MsgBytes(m), a + 1, b)
           done == b = MsgLen(m)
           rec == [type |-> "application_data", enc |-> (m > 1), body |-> body]
<1>1. /\ session \in Sessions /\ wr \in WriterRecords /\ IsPart(h)
      /\ m \in NumHs + 1 .. NumMsgs
      /\ wr.phase = "sending" /\ wr.error = "none" /\ Hands(wr)
  BY DEF WriterInv, WriterTyped, SendData, Sending
<1>2. /\ NumHs \in Nat \ {0} /\ NumMsgs \in Nat
      /\ m \in 1 .. NumMsgs /\ h \in Seq(Byte) /\ m \in Nat /\ a \in Nat
      /\ m + 1 \in 1 .. NumMsgs + 1 /\ m \in 1 .. NumMsgs + 1
  BY <1>1, SessionTyped DEF WriterRecords
<1>3. HandsData(wr)
  BY <1>1, <1>2 DEF Hands
<1>4. wr.fragOffset = 0 /\ a < MsgLen(m) /\ Len(h) = Begin(m) + a
  BY <1>1, <1>3 DEF HandsData
<1>5. MsgLen(m) \in Nat \ {0} /\ MaxFragment \in Nat \ {0}
  BY <1>1, <1>2, SessionTyped, RecordSizes
<1>6. /\ Begin(m) \in Nat /\ Begin(m + 1) = Begin(m) + MsgLen(m)
      /\ Begin(m + 1) >= MsgLen(1)
      /\ m > 1 => Begin(m) >= MsgLen(1)
  BY <1>1, <1>2, BehindFirst
<1>7. sz \in Nat \ {0} /\ sz <= MsgLen(m) - a /\ sz <= MaxFragment
  BY <1>2, <1>4, <1>5 DEF Lesser
<1>8. PICK s \in SendBuffered(Buffered) :
          /\ Sends(s)
          /\ wr' = IF s.error = "none"
                   THEN [wr EXCEPT !.handed = @ \o body,
                                   !.sent = IF done THEN 0 ELSE @ + sz,
                                   !.next = IF done THEN @ + 1 ELSE @]
                   ELSE [wr EXCEPT !.handed = @ \o body, !.error = s.error,
                                   !.prevSent = a, !.plainSz = sz]
  BY DEF SendData, Sending
<1>9. recs' = Append(recs, rec) /\ session' = session /\ link' = link
  BY DEF SendData, Sending, BuildRecord
<1> HIDE DEF sz
<1>10. /\ a \in 0 .. MsgLen(m) /\ b \in a + 1 .. MsgLen(m) /\ b \in a .. MsgLen(m)
       /\ b \in Nat
  BY <1>2, <1>4, <1>5, <1>7
<1>11. rec \in Records /\ PartOf(rec) = body /\ Fits(rec, Len(h)) /\ rec.type # "alert"
  <2>1. rec.body = body /\ rec.type # "alert"
    OBVIOUS
  <2>2. rec \in Records /\ PartOf(rec) = rec.body /\ Fits(rec, Begin(m) + a)
    <3>1. rec = [type |-> "application_data", enc |-> (m > 1),
                 body |-> SubSeq(MsgBytes(m), a + 1, b)]
      OBVIOUS
    <3>2. b - a <= MaxFragment
      BY <1>2, <1>5, <1>7
    <3> HIDE DEF rec, m, a, b
    <3> QED
      BY <1>1, <1>10, <3>1, <3>2, DataFits
  <2> HIDE DEF rec
  <2> QED
    BY <1>4, <2>1, <2>2
<1> DEFINE more == h \o body
<1>12. more \in Seq(Byte) /\ Len(more) = Begin(m) + b /\ IsPart(more)
  <2> HIDE DEF m, a, b
  <2>1. /\ session \in Sessions /\ wr.handed \in Seq(Byte) /\ IsPart(wr.handed)
        /\ m \in 1 .. NumMsgs /\ a \in 0 .. MsgLen(m) /\ b \in a .. MsgLen(m)
        /\ Len(wr.handed) = Begin(m) + a
    BY <1>1, <1>2, <1>4, <1>10
  <2> QED
    BY <2>1, HandOn
<1>13. s.error \in {"none", "WANT_WRITE", "SOCKET_ERROR_E"}
  BY DEF SendBuffered
<1>14. more = wr.handed \o PartOf(rec) /\ more = h \o body
  BY <1>11
<1> HIDE DEF more, body, rec
<1>15. CASE s.error = "none"
  <2> DEFINE n == IF done THEN m + 1 ELSE m
             t == IF done THEN 0 ELSE b
  <2>1. n \in Nat /\ t \in Nat
    BY <1>2, <1>10
  <2>2. wr' = [wr EXCEPT !.handed = more, !.sent = t, !.next = n]
    BY <1>8, <1>15 DEF more
  <2> HIDE DEF n, t
  <2>3. /\ wr' \in WriterRecords /\ wr'.phase = wr.phase /\ wr'.error = "none"
        /\ wr'.handed = more /\ wr'.sent = t /\ wr'.next = n /\ wr'.fragOffset = 0
    BY <1>1, <1>4, <1>12, <2>1, <2>2 DEF WriterRecords
  <2>4. Hands(wr') /\ Len(wr'.handed) >= MsgLen(1)
    <3>1. CASE done
      <4>1. n = m + 1 /\ t = 0
        BY <3>1 DEF n, t
      <4>2. Len(wr'.handed) = Begin(wr'.next)
        BY <1>6, <1>12, <2>3, <3>1, <4>1
      <4>3. Len(wr'.handed) >= MsgLen(1)
        BY <1>6, <2>3, <4>1, <4>2
      <4> QED
        BY <1>1, <1>2, <2>3, <4>1, <4>2, <4>3, AtMessage
    <3>2. CASE ~done
      <4>1. n = m /\ t = b /\ b < MsgLen(m)
        BY <1>5, <1>10, <3>2 DEF n, t
      <4>2. HandsData(wr')
        BY <1>12, <2>3, <4>1 DEF HandsData
      <4>3. Hands(wr')
        BY <1>1, <1>2, <2>3, <4>1, <4>2 DEF Hands
      <4>4. MsgLen(1) \in Nat
        <5>1. 1 \in 1 .. NumMsgs
          BY <1>2
        <5> QED
          BY <1>1, <5>1, SessionTyped
      <4>5. Len(wr'.handed) >= MsgLen(1)
        <5>1. m > 1
          BY <1>1, <1>2
        <5> QED
          BY <1>6, <1>10, <1>12, <2>3, <4>4, <5>1
      <4> QED
        BY <4>3, <4>5
    <3> QED
      BY <3>1, <3>2
  <2> QED
    BY <1>1, <1>8, <1>9, <1>11, <1>12, <1>14, <1>15, <2>3, <2>4, Builds
<1>16. CASE s.error # "none"
  <2> DEFINE z == sz
  <2>1. z \in Nat \ {0} /\ a + z = b
    BY <1>7
  <2>2. wr' = [wr EXCEPT !.handed = more, !.error = s.error, !.prevSent = a, !.plainSz = z]
    BY <1>8, <1>16 DEF more
  <2> HIDE DEF z
  <2>3. /\ wr' \in WriterRecords /\ wr'.phase = wr.phase /\ wr'.error = s.error
        /\ wr'.handed = more /\ wr'.prevSent = a /\ wr'.plainSz = z
        /\ wr'.next = m /\ wr'.fragOffset = 0
    BY <1>1, <1>2, <1>4, <1>12, <1>13, <2>1, <2>2 DEF WriterRecords
  <2>4. ASSUME s.error # "SOCKET_ERROR_E" PROVE Hands(wr')
    <3>1. wr'.error = "WANT_WRITE"
      BY <1>13, <1>16, <2>3, <2>4
    <3>2. z > 0 /\ a + z <= MsgLen(m) /\ Begin(m) + a + z = Begin(m) + b
      BY <1>2, <1>6, <1>10, <2>1
    <3>3. HandsData(wr')
      BY <1>12, <2>3, <3>1, <3>2 DEF HandsData
    <3> QED
      BY <1>1, <1>2, <2>3, <3>1, <3>3 DEF Hands
  <2>5. Len(wr'.handed) >= MsgLen(1)
    <3>1. MsgLen(1) \in Nat
      <4>1. 1 \in 1 .. NumMsgs
        BY <1>2
      <4> QED
        BY <1>1, <4>1, SessionTyped
    <3>2. m > 1
      BY <1>1, <1>2
    <3> QED
      BY <1>6, <1>10, <1>12, <2>3, <3>1, <3>2
  <2> QED
    BY <1>1, <1>8, <1>9, <1>11, <1>12, <1>14, <2>3, <2>4, <2>5, Builds
<1> QED
  BY <1>15, <1>16

LEMMA ResumeWriteKeeps ==
    ASSUME WriterInv, ResumeWrite
    PROVE  WriterInv' /\ WriterTurn
<1> DEFINE m == wr.next
           h == wr.handed
           b == wr.prevSent + wr.plainSz
           done == b = MsgLen(m)
<1>1. /\ session \in Sessions /\ wr \in WriterRecords
      /\ m \in NumHs + 1 .. NumMsgs
      /\ wr.phase = "sending" /\ wr.error = "WANT_WRITE" /\ Hands(wr)
      /\ m > 1 => Len(h) >= MsgLen(1)
  BY DEF WriterInv, WriterTyped, ResumeWrite, Sending
<1>2. /\ NumHs \in Nat \ {0} /\ NumMsgs \in Nat
      /\ m \in 1 .. NumMsgs /\ m \in Nat /\ m > 1
      /\ m + 1 \in 1 .. NumMsgs + 1 /\ m \in 1 .. NumMsgs + 1
      /\ wr.prevSent \in Nat /\ wr.plainSz \in Nat /\ b \in Nat
  BY <1>1, SessionTyped DEF WriterRecords
<1>3. HandsData(wr)
  BY <1>1, <1>2 DEF Hands
<1>4. /\ Begin(m) \in Nat /\ Begin(m + 1) = Begin(m) + MsgLen(m)
      /\ MsgLen(m) \in Nat
  BY <1>1, <1>2, BehindFirst, SessionTyped
<1>5. wr.fragOffset = 0 /\ b <= MsgLen(m) /\ Len(h) = Begin(m) + b
  <2>1. /\ wr.fragOffset = 0 /\ b <= MsgLen(m)
        /\ Len(h) = Begin(m) + wr.prevSent + wr.plainSz
    BY <1>1, <1>3 DEF HandsData
  <2> QED
    BY <1>2, <1>4, <2>1
<1>6. PICK s \in SendBuffered(out) :
          /\ Sends(s)
          /\ wr' = IF s.error # "none" THEN [wr EXCEPT !.error = s.error]
                   ELSE [wr EXCEPT !.error = "none",
                                   !.sent = IF done THEN 0 ELSE b,
                                   !.next = IF done THEN @ + 1 ELSE @]
  BY DEF ResumeWrite, Sending
<1>7. UNCHANGED <<session, recs, link>>
  BY DEF ResumeWrite
<1>8. s.error \in {"none", "WANT_WRITE", "SOCKET_ERROR_E"}
  BY DEF SendBuffered
<1>9. CASE s.error = "none"
  <2> DEFINE n == IF done THEN m + 1 ELSE m
             t == IF done THEN 0 ELSE b
  <2>1. n \in Nat /\ t \in Nat
    BY <1>2
  <2>2. wr' = [wr EXCEPT !.error = "none", !.sent = t, !.next = n]
    BY <1>6, <1>9
  <2> HIDE DEF n, t
  <2>3. /\ wr' \in WriterRecords /\ wr'.phase = wr.phase /\ wr'.error = "none"
        /\ wr'.handed = h /\ wr'.sent = t /\ wr'.next = n /\ wr'.fragOffset = 0
        /\ wr'.sentNotify = wr.sentNotify
    BY <1>1, <1>5, <2>1, <2>2 DEF WriterRecords
  <2>4. Hands(wr')
    <3>1. CASE done
      <4>1. n = m + 1 /\ t = 0
        BY <3>1 DEF n, t
      <4>2. Len(wr'.handed) = Begin(wr'.next)
        BY <1>4, <1>5, <2>3, <3>1, <4>1
      <4> QED
        BY <1>1, <1>2, <2>3, <4>1, <4>2, AtMessage
    <3>2. CASE ~done
      <4>1. n = m /\ t = b /\ b < MsgLen(m)
        BY <1>2, <1>4, <1>5, <3>2 DEF n, t
      <4>2. HandsData(wr')
        BY <1>5, <2>3, <4>1 DEF HandsData
      <4> QED
        BY <1>1, <1>2, <2>3, <4>1, <4>2 DEF Hands
    <3> QED
      BY <3>1, <3>2
  <2> QED
    BY <1>1, <1>2, <1>6, <1>7, <1>9, <2>3, <2>4, Resumes
<1>10. CASE s.error # "none"
  <2>1. wr' = [wr EXCEPT !.error = s.error]
    BY <1>6, <1>10
  <2>2. /\ wr' \in WriterRecords /\ wr'.phase = wr.phase /\ wr'.error = s.error
        /\ wr'.handed = h /\ wr'.next = m /\ wr'.fragOffset = 0
        /\ wr'.prevSent = wr.prevSent /\ wr'.plainSz = wr.plainSz
        /\ wr'.sentNotify = wr.sentNotify
    BY <1>1, <1>5, <1>8, <2>1 DEF WriterRecords
  <2>3. ASSUME s.error # "SOCKET_ERROR_E" PROVE Hands(wr')
    <3>1. wr'.error = "WANT_WRITE"
      BY <1>8, <1>10, <2>2, <2>3
    <3>2. HandsData(wr')
      BY <1>1, <1>3, <2>2, <3>1 DEF HandsData
    <3> QED
      BY <1>1, <1>2, <2>2, <3>1, <3>2 DEF Hands
  <2> QED
    BY <1>1, <1>2, <1>6, <1>7, <2>2, <2>3, Resumes
<1> QED
  BY <1>9, <1>10

LEMMA ResumeHandshakeKeeps ==
    ASSUME WriterInv, ResumeHandshake
    PROVE  WriterInv' /\ WriterTurn
<1> DEFINE m == wr.next
           h == wr.handed
<1>1. /\ session \in Sessions /\ wr \in WriterRecords
      /\ m <= NumHs
      /\ wr.phase = "sending" /\ wr.error = "WANT_WRITE" /\ Hands(wr)
      /\ m > 1 => Len(h) >= MsgLen(1)
  BY DEF WriterInv, WriterTyped, ResumeHandshake, Handshaking
<1>2. /\ NumHs \in Nat \ {0} /\ NumMsgs \in Nat /\ m \in 1 .. NumHs
      /\ m \in 1 .. NumMsgs /\ m \in Nat
      /\ m + 1 \in 1 .. NumMsgs + 1 /\ m \in 1 .. NumMsgs + 1
  <2>1. m \in Nat /\ m >= 1
    BY <1>1 DEF Hands, WriterRecords
  <2> QED
    BY <1>1, <2>1, SessionTyped
<1>3. /\ wr.sent = 0 /\ session.peer # "other"
      /\ IF session.hs[m].cert THEN HandsCertificate(wr) ELSE HandsMessage(wr)
  BY <1>1, <1>2 DEF Hands, HandsOther
<1>4. /\ Begin(m) \in Nat /\ Begin(m + 1) = Begin(m) + MsgLen(m)
      /\ Begin(m + 1) >= MsgLen(1)
  BY <1>1, <1>2, BehindFirst
<1>5. /\ session.hs[m].cert => wr.fragOffset # 0
      /\ ~session.hs[m].cert => wr.fragOffset = 0 /\ Len(h) = Begin(m) + MsgLen(m)
  BY <1>1, <1>3 DEF HandsCertificate, HandsMessage
<1>6. PICK s \in SendBuffered(out) :
          /\ Sends(s)
          /\ wr' = [wr EXCEPT !.error = s.error,
                              !.next = IF s.error = "none" /\ wr.fragOffset = 0
                                       THEN @ + 1 ELSE @]
  BY DEF ResumeHandshake
<1>7. UNCHANGED <<session, recs, link>>
  BY DEF ResumeHandshake
<1>8. s.error \in {"none", "WANT_WRITE", "SOCKET_ERROR_E"}
  BY DEF SendBuffered
<1> DEFINE advances == s.error = "none" /\ wr.fragOffset = 0
           n == IF advances THEN m + 1 ELSE m
<1>9. n \in Nat
  BY <1>2
<1>10. wr' = [wr EXCEPT !.error = s.error, !.next = n]
  BY <1>6
<1> HIDE DEF n
<1>11. /\ wr' \in WriterRecords /\ wr'.phase = wr.phase /\ wr'.error = s.error
       /\ wr'.handed = h /\ wr'.sent = 0 /\ wr'.next = n /\ wr'.fragOffset = wr.fragOffset
       /\ wr'.sentNotify = wr.sentNotify
  BY <1>1, <1>3, <1>8, <1>9, <1>10 DEF WriterRecords
<1>12. wr'.next > 1 => Len(wr'.handed) >= MsgLen(1)
  <2>1. CASE advances
    BY <1>4, <1>5, <1>11, <2>1
  <2>2. CASE ~advances
    BY <1>1, <1>11, <2>2 DEF n
  <2> QED
    BY <2>1, <2>2
<1>13. ASSUME s.error # "SOCKET_ERROR_E" PROVE Hands(wr')
  <2>1. CASE advances
    <3>1. n = m + 1 /\ Len(wr'.handed) = Begin(wr'.next)
      BY <1>4, <1>5, <1>11, <2>1 DEF n
    <3> QED
      BY <1>1, <1>2, <1>11, <2>1, <3>1, AtMessage
  <2>2. CASE ~advances /\ session.hs[m].cert
    <3>1. n = m
      BY <2>2 DEF n
    <3>2. HandsCertificate(wr')
      BY <1>3, <1>5, <1>11, <2>2, <3>1 DEF HandsCertificate
    <3> QED
      BY <1>2, <1>3, <1>8, <1>11, <1>13, <2>2, <3>1, <3>2 DEF Hands
  <2>3. CASE ~advances /\ ~session.hs[m].cert
    <3>1. n = m /\ wr'.error = "WANT_WRITE"
      BY <1>5, <1>8, <1>11, <1>13, <2>3 DEF n
    <3>2. HandsMessage(wr')
      BY <1>5, <1>11, <2>3, <3>1 DEF HandsMessage
    <3> QED
      BY <1>2, <1>3, <1>11, <2>3, <3>1, <3>2 DEF Hands
  <2> QED
    BY <2>1, <2>2, <2>3
<1> QED
  BY <1>1, <1>6, <1>7, <1>11, <1>12, <1>13, Resumes

LEMMA CloseKeeps ==
    ASSUME WriterInv, wr.phase = "sending", Close
    PROVE  WriterInv' /\ WriterTurn
<1>1. wr \in WriterRecords
  BY DEF WriterInv, WriterTyped
<1>2. /\ wr' = [wr EXCEPT !.phase = "closing"]
      /\ UNCHANGED <<session, recs, wire, link, out>>
  BY DEF Close, streamVars
<1>3. /\ wr' \in WriterRecords /\ wr'.phase = "closing" /\ wr'.handed = wr.handed
      /\ wr'.error = wr.error /\ wr'.sentNotify = wr.sentNotify /\ wr'.next = wr.next
  BY <1>1, <1>2 DEF WriterRecords
<1>4. wr'.next > 1 => Len(wr'.handed) >= MsgLen(1)
  BY <1>3 DEF WriterInv
<1> QED
  BY <1>2, <1>3, <1>4, Stands

LEMMA ShutdownFlushKeeps ==
    ASSUME WriterInv, ShutdownFlush
    PROVE  WriterInv' /\ WriterTurn
<1>1. /\ wr \in WriterRecords /\ wr.phase = "closing" /\ wr.error = "WANT_WRITE"
      /\ UNCHANGED <<session, recs, link>>
  BY DEF WriterInv, WriterTyped, ShutdownFlush
<1>2. PICK s \in SendBuffered(out) : Sends(s) /\ wr' = [wr EXCEPT !.error = s.error]
  BY DEF ShutdownFlush
<1>3. s.error \in {"none", "WANT_WRITE", "SOCKET_ERROR_E"}
  BY DEF SendBuffered
<1>4. /\ wr' \in WriterRecords /\ wr'.phase = wr.phase /\ wr'.handed = wr.handed
      /\ wr'.error = s.error /\ wr'.sentNotify = wr.sentNotify /\ wr'.next = wr.next
  BY <1>1, <1>2, <1>3 DEF WriterRecords
<1>5. wr'.next > 1 => Len(wr'.handed) >= MsgLen(1)
  BY <1>4 DEF WriterInv
<1> QED
  BY <1>1, <1>2, <1>4, <1>5, Resumes

\* An encrypted alert comes after the first message.
LEMMA ShutdownNotifyKeeps ==
    ASSUME WriterInv, ShutdownNotify
    PROVE  WriterInv' /\ WriterTurn
<1>1. /\ session \in Sessions /\ wr \in WriterRecords /\ recs \in Seq(Records)
      /\ wr.phase = "closing" /\ wr.error = "none" /\ ~wr.sentNotify
      /\ wr.handed \in Seq(Byte) /\ IsPart(wr.handed) /\ Recorded /\ AlertLast
      /\ session' = session /\ link' = link
      /\ wr.next > 1 => Len(wr.handed) >= MsgLen(1)
  BY DEF WriterInv, WriterTyped, WriterRecords, ShutdownNotify
<1>2. PICK enc \in {wr.next > 1} \cup {recs[r].enc : r \in {Len(recs)} \ {0}} :
          recs' = Append(recs, [type |-> "alert", enc |-> enc,
                                body |-> <<Filler, Filler>>])
  BY DEF ShutdownNotify
<1>3. PICK s \in SendBuffered(Buffered) :
          /\ Sends(s)
          /\ wr' = [wr EXCEPT !.error = s.error,
                              !.sentNotify = s.error \in {"none", "WANT_WRITE"}]
  BY DEF ShutdownNotify
<1>4. s.error \in {"none", "WANT_WRITE", "SOCKET_ERROR_E"}
  BY DEF SendBuffered
<1>5. /\ wr' \in WriterRecords /\ wr'.phase = wr.phase /\ wr'.handed = wr.handed
      /\ wr'.error = s.error /\ wr'.next = wr.next
      /\ wr'.sentNotify \/ wr'.error = "SOCKET_ERROR_E"
  <2> DEFINE b == s.error \in {"none", "WANT_WRITE"}
  <2>1. b \in BOOLEAN /\ (b \/ s.error = "SOCKET_ERROR_E")
    BY <1>4
  <2>2. wr' = [wr EXCEPT !.error = s.error, !.sentNotify = b]
    BY <1>3
  <2> HIDE DEF b
  <2>3. wr'.sentNotify = b
    BY <1>1, <2>2 DEF WriterRecords
  <2>4. /\ wr' \in WriterRecords /\ wr'.phase = wr.phase /\ wr'.handed = wr.handed
        /\ wr'.error = s.error /\ wr'.next = wr.next
    BY <1>1, <1>4, <2>1, <2>2 DEF WriterRecords
  <2>5. wr'.sentNotify \/ wr'.error = "SOCKET_ERROR_E"
    BY <2>1, <2>3, <2>4, Zenon
  <2> QED
    BY <2>4, <2>5
<1>6. enc \in BOOLEAN /\ (enc => Len(wr.handed) >= MsgLen(1))
  <2>1. CASE enc = (wr.next > 1)
    <3>1. enc \in BOOLEAN
      <4> DEFINE later == wr.next > 1
      <4>1. later \in BOOLEAN
        OBVIOUS
      <4> HIDE DEF later
      <4>2. enc = later
        BY <2>1 DEF later
      <4> QED
        BY <4>1, <4>2, Zenon
    <3>2. enc => wr.next > 1
      BY <2>1, Zenon
    <3>3. enc => Len(wr.handed) >= MsgLen(1)
      BY <1>1, <3>2, Zenon
    <3> QED
      BY <3>1, <3>3
  <2>2. CASE enc # (wr.next > 1)
    <3> DEFINE r == Len(recs)
    <3>1. r \in 1 .. r /\ enc = recs[r].enc /\ recs[r] \in Records /\ r \in Nat
      BY <1>1, <1>2, <2>2
    <3>2. /\ recs[r].type \in {"handshake", "application_data", "alert"}
          /\ recs[r].enc \in BOOLEAN /\ recs[r].body \in Seq(Byte)
      BY <3>1 DEF Records
    <3>3. recs[r].type # "alert"
      BY <1>1, <3>1 DEF AlertLast
    <3>4. /\ Fits(recs[r], From(r)) /\ From(r) \in Nat
          /\ From(r + 1) = From(r) + Len(PartOf(recs[r]))
          /\ From(r + 1) = Len(wr.handed)
      <4>1. r \in 1 .. r + 1
        BY <3>1
      <4> QED
        BY <1>1, <3>1, <4>1, FromTyped DEF Recorded
    <3>5. Len(PartOf(recs[r])) \in Nat
      BY <3>2, <3>3 DEF PartOf
    <3>6. MsgLen(1) \in Nat /\ Begin(NumHs + 1) \in Nat /\ Begin(NumHs + 1) >= MsgLen(1)
      <4>1. /\ NumHs \in Nat \ {0} /\ 1 \in 1 .. NumMsgs /\ NumHs \in 1 .. NumMsgs
            /\ NumHs + 1 \in 1 .. NumMsgs + 1
        BY <1>1, SessionTyped
      <4> QED
        BY <1>1, <4>1, SessionTyped, ScriptTyped, BehindFirst
    <3>7. recs[r].enc => From(r) >= MsgLen(1)
      <4>1. CASE recs[r].type = "handshake"
        BY <3>4, <4>1 DEF Fits
      <4>2. CASE recs[r].type = "application_data"
        BY <3>4, <3>6, <4>2 DEF Fits
      <4> QED
        BY <3>2, <3>3, <4>1, <4>2
    <3>8. Len(wr.handed) >= From(r)
      BY <3>4, <3>5
    <3> HIDE DEF r
    <3> QED
      BY <3>1, <3>2, <3>4, <3>6, <3>7, <3>8, <1>1
  <2> QED
    BY <2>1, <2>2
<1> DEFINE rec == [type |-> "alert", enc |-> enc, body |-> <<Filler, Filler>>]
<1>7. rec \in Records /\ rec.type = "alert" /\ PartOf(rec) = <<>>
      /\ Fits(rec, Len(wr.handed))
  <2>1. Filler \in Byte
    BY DEF Filler, Byte
  <2>2. <<Filler, Filler>> \in Seq(Byte) /\ <<Filler, Filler>> # <<>>
    BY <2>1
  <2>3. rec \in Records
    BY <1>6, <2>2 DEF Records
  <2>4. /\ rec.type = "alert" /\ rec.enc = enc /\ rec.body # <<>>
        /\ Len(rec.body) <= MaxFragment
    <3>1. 2 <= MaxFragment
      BY RecordSizes
    <3> QED
      BY <2>2, <3>1
  <2> HIDE DEF rec
  <2> QED
    BY <1>6, <2>3, <2>4 DEF PartOf, Fits
<1>8. wr.handed \o PartOf(rec) = wr.handed
  <2> DEFINE h == wr.handed
             q == PartOf(rec)
  <2>1. h \in Seq(Byte) /\ q = <<>>
    BY <1>1, <1>7 DEF WriterRecords
  <2> HIDE DEF h, q
  <2>2. h \o q = h
    BY <2>1
  <2> QED
    BY <2>2 DEF h, q
<1>9. recs' = Append(recs, rec)
  BY <1>2
<1>10. wr'.next > 1 => Len(wr'.handed) >= MsgLen(1)
  BY <1>1, <1>5
<1> HIDE DEF rec
<1> QED
  BY <1>1, <1>3, <1>5, <1>7, <1>8, <1>9, <1>10, Builds

LEMMA StopKeeps ==
    ASSUME WriterInv, Stop
    PROVE  WriterInv' /\ WriterTurn
<1>1. /\ WriterTyped /\ Recorded /\ AlertLast /\ LinkKnown /\ wr \in WriterRecords
      /\ link \in {"up", "stopped", "cut"} /\ wr.phase = "closing"
  BY DEF WriterInv, WriterTyped, Stop
<1>2. /\ wr' = [wr EXCEPT !.phase = "stopped"] /\ out' = EmptyOut
      /\ link' = (IF link = "up" THEN "stopped" ELSE link)
      /\ UNCHANGED <<session, recs, wire>>
  BY DEF Stop
<1>3. /\ wr' \in WriterRecords /\ wr'.phase = "stopped" /\ wr'.handed = wr.handed
      /\ wr'.error = wr.error /\ wr'.sentNotify = wr.sentNotify /\ wr'.next = wr.next
  BY <1>1, <1>2 DEF WriterRecords
<1>4. Recorded' /\ AlertLast'
  BY <1>1, <1>2, <1>3, RecordsStay
<1>5. WriterTyped'
  <2>1. OutOk(out')
    BY <1>2, EmptyRest
  <2> QED
    BY <1>1, <1>2, <1>3, <2>1 DEF WriterTyped, OutOk
<1>6. LinkKnown'
  BY <1>1, <1>2, <1>3 DEF LinkKnown
<1>7. IsPart(wr'.handed) /\ (wr'.next > 1 => Len(wr'.handed) >= MsgLen(1))
  BY <1>3 DEF WriterInv
<1>8. WriterTurn
  BY <1>1, <1>2 DEF WriterTurn
<1> QED
  BY <1>2, <1>3, <1>4, <1>5, <1>6, <1>7, <1>8, WriterStays DEF WriterInv

\* The network and the receiver leave the sender alone.
LEMMA WriterKept ==
    ASSUME WriterInv, UNCHANGED <<session, recs, writerVars>>,
           wire' \in Seq(WireBytes), link' = link \/ (link = "up" /\ link' = "cut")
    PROVE  WriterInv'
<1>1. /\ WriterTyped /\ Recorded /\ AlertLast /\ LinkKnown
      /\ wr' = wr /\ out' = out
  BY DEF WriterInv, writerVars
<1>2. Recorded' /\ AlertLast'
  BY <1>1, RecordsStay
<1>3. WriterTyped' /\ LinkKnown'
  BY <1>1 DEF WriterTyped, LinkKnown, OutOk
<1>4. IsPart(wr'.handed) /\ (wr'.next > 1 => Len(wr'.handed) >= MsgLen(1))
      /\ (wr'.phase = "sending" /\ wr'.error # "SOCKET_ERROR_E" => Hands(wr'))
  BY <1>1 DEF WriterInv
<1> QED
  BY <1>1, <1>2, <1>3, <1>4, WriterStays DEF WriterInv

LEMMA WriterStepKeeps ==
    ASSUME WriterInv, Writer \/ GiveUp
    PROVE  WriterInv' /\ WriterTurn
<1>1. CASE ResumeHandshake
  BY <1>1, ResumeHandshakeKeeps
<1>2. CASE SendHandshake
  BY <1>2, SendHandshakeKeeps
<1>3. CASE SendCertificate
  BY <1>3, SendCertificateKeeps
<1>4. CASE SendOther
  BY <1>4, SendOtherKeeps
<1>5. CASE ResumeWrite
  BY <1>5, ResumeWriteKeeps
<1>6. CASE SendData
  BY <1>6, SendDataKeeps
<1>7. CASE Finish \/ GiveUp
  BY <1>7, CloseKeeps DEF Finish, GiveUp
<1>8. CASE ShutdownFlush
  BY <1>8, ShutdownFlushKeeps
<1>9. CASE ShutdownNotify
  BY <1>9, ShutdownNotifyKeeps
<1>10. CASE Stop
  BY <1>10, StopKeeps
<1> QED
  BY <1>1, <1>2, <1>3, <1>4, <1>5, <1>6, <1>7, <1>8, <1>9, <1>10 DEF Writer

-----------------------------------------------------------------------------
(* The stream of all records, and where the network is in it.              *)

ImagesOf(rs) == [r \in 1 .. Len(rs) |-> Image(r, rs[r])]

Stream == FlattenSeq(ImagesOf(recs))

Start(r) == Before(ImagesOf(recs), r)

\* st has b behind its first k bytes.
Occurs(st, b, k) ==
    k + Len(b) <= Len(st) /\ \A j \in 1 .. Len(b) : b[j] = st[k + j]

\* What the network has, w, comes after the first k bytes; while the link is
\* up, the output buffer has the rest.
Fed(w, k) ==
    /\ k \in Nat
    /\ Occurs(Stream, w, k)
    /\ link = "up" => /\ Occurs(Stream, Rest(out), k + Len(w))
                      /\ k + Len(w) + Len(Rest(out)) = Len(Stream)

LEMMA ImagesTyped ==
    ASSUME NEW rs \in Seq(Records)
    PROVE  /\ ImagesOf(rs) \in Seq(Seq(WireBytes)) /\ Len(ImagesOf(rs)) = Len(rs)
           /\ \A r \in 1 .. Len(rs) : ImagesOf(rs)[r] = Image(r, rs[r])
<1>1. ASSUME NEW r \in 1 .. Len(rs) PROVE Image(r, rs[r]) \in Seq(WireBytes)
  <2>1. r \in Nat /\ rs[r] \in Records
    OBVIOUS
  <2> QED
    BY <2>1, ImageTyped
<1> QED
  BY <1>1 DEF ImagesOf

LEMMA ImagesAppend ==
    ASSUME NEW rs \in Seq(Records), NEW rec \in Records
    PROVE  ImagesOf(Append(rs, rec)) = Append(ImagesOf(rs), Image(Len(rs) + 1, rec))
<1> DEFINE more == Append(rs, rec)
           last == Image(Len(rs) + 1, rec)
           a == ImagesOf(more)
           b == Append(ImagesOf(rs), last)
<1>1. last \in Seq(WireBytes)
  <2>1. Len(rs) + 1 \in Nat
    OBVIOUS
  <2> QED
    BY <2>1, ImageTyped
<1>2. /\ more \in Seq(Records) /\ Len(more) = Len(rs) + 1 /\ Len(rs) \in Nat
      /\ \A r \in 1 .. Len(rs) : more[r] = rs[r]
      /\ more[Len(rs) + 1] = rec
  OBVIOUS
<1> HIDE DEF more
<1>3. /\ a \in Seq(Seq(WireBytes)) /\ Len(a) = Len(rs) + 1
      /\ \A r \in 1 .. Len(rs) + 1 : a[r] = Image(r, more[r])
  BY <1>2, ImagesTyped
<1>4. /\ ImagesOf(rs) \in Seq(Seq(WireBytes)) /\ Len(ImagesOf(rs)) = Len(rs)
      /\ \A r \in 1 .. Len(rs) : ImagesOf(rs)[r] = Image(r, rs[r])
  BY ImagesTyped
<1>5. /\ b \in Seq(Seq(WireBytes)) /\ Len(b) = Len(rs) + 1
      /\ \A r \in 1 .. Len(rs) : b[r] = ImagesOf(rs)[r]
      /\ b[Len(rs) + 1] = last
  <2> HIDE DEF last
  <2> QED
    BY <1>1, <1>4
<1> HIDE DEF a, b, last
<1>6. ASSUME NEW r \in 1 .. Len(rs) + 1 PROVE a[r] = b[r]
  <2>1. CASE r \in 1 .. Len(rs)
    BY <1>2, <1>3, <1>4, <1>5, <2>1
  <2>2. CASE r = Len(rs) + 1
    BY <1>2, <1>3, <1>5, <2>2 DEF last
  <2> QED
    BY <1>2, <2>1, <2>2
<1>7. a = b
  BY <1>3, <1>5, <1>6, SeqEqual
<1> QED
  BY <1>7 DEF a, b, more, last

LEMMA StreamTyped ==
    ASSUME recs \in Seq(Records)
    PROVE  /\ Stream \in Seq(WireBytes) /\ Len(Stream) \in Nat
           /\ Start(1) = 0 /\ Start(Len(recs) + 1) = Len(Stream)
           /\ \A r \in 1 .. Len(recs) + 1 : Start(r) \in Nat
           /\ \A r \in 1 .. Len(recs) :
                  /\ SizeOf(recs[r]) \in Nat /\ SizeOf(recs[r]) >= Len(recs[r].body)
                  /\ Start(r + 1) = Start(r) + (RecHdr + SizeOf(recs[r]))
<1>1. /\ ImagesOf(recs) \in Seq(Seq(WireBytes)) /\ Len(ImagesOf(recs)) = Len(recs)
      /\ \A r \in 1 .. Len(recs) : ImagesOf(recs)[r] = Image(r, recs[r])
  BY ImagesTyped
<1>2. /\ Stream \in Seq(WireBytes)
      /\ Start(1) = 0 /\ Start(Len(recs) + 1) = Len(Stream)
      /\ \A r \in 1 .. Len(recs) + 1 : Start(r) \in Nat
      /\ \A r \in 1 .. Len(recs) : Start(r + 1) = Start(r) + Len(Image(r, recs[r]))
  BY <1>1, Flattened DEF Stream, Start
<1>3. ASSUME NEW r \in 1 .. Len(recs)
      PROVE  /\ SizeOf(recs[r]) \in Nat /\ SizeOf(recs[r]) >= Len(recs[r].body)
             /\ Len(Image(r, recs[r])) = RecHdr + SizeOf(recs[r])
  <2>1. r \in Nat /\ recs[r] \in Records
    OBVIOUS
  <2> QED
    BY <2>1, ImageTyped
<1> QED
  BY <1>2, <1>3

LEMMA StreamAt ==
    ASSUME recs \in Seq(Records), NEW r \in 1 .. Len(recs),
           NEW i \in 1 .. RecHdr + SizeOf(recs[r])
    PROVE  Start(r) + i \in 1 .. Len(Stream) /\ Stream[Start(r) + i] = <<r, i>>
<1>1. /\ ImagesOf(recs) \in Seq(Seq(WireBytes)) /\ Len(ImagesOf(recs)) = Len(recs)
      /\ ImagesOf(recs)[r] = Image(r, recs[r])
  BY ImagesTyped
<1>2. Len(Image(r, recs[r])) = RecHdr + SizeOf(recs[r]) /\ Image(r, recs[r])[i] = <<r, i>>
  <2>1. r \in Nat /\ recs[r] \in Records
    OBVIOUS
  <2> QED
    BY <2>1, ImageTyped
<1>3. r \in 1 .. Len(ImagesOf(recs)) /\ i \in 1 .. Len(ImagesOf(recs)[r])
  BY <1>1, <1>2
<1> QED
  BY <1>1, <1>2, <1>3, FlattenedAt DEF Stream, Start

LEMMA StreamGrows ==
    ASSUME recs \in Seq(Records), NEW rec \in Records, recs' = Append(recs, rec)
    PROVE  /\ Stream' = Stream \o Image(Len(recs) + 1, rec)
           /\ \A r \in 1 .. Len(recs) + 1 : Start(r)' = Start(r)
<1>1. /\ ImagesOf(recs) \in Seq(Seq(WireBytes)) /\ Len(ImagesOf(recs)) = Len(recs)
      /\ Image(Len(recs) + 1, rec) \in Seq(WireBytes)
  <2>1. Len(recs) + 1 \in Nat
    OBVIOUS
  <2> QED
    BY <2>1, ImagesTyped, ImageTyped
<1>2. ImagesOf(recs') = Append(ImagesOf(recs), Image(Len(recs) + 1, rec))
  BY ImagesAppend
<1> QED
  BY <1>1, <1>2, FlattenAppend, BeforeAppend DEF Stream, Start

LEMMA OccursConcat ==
    ASSUME NEW S, NEW st \in Seq(S), NEW a \in Seq(S), NEW b \in Seq(S), NEW k \in Nat
    PROVE  Occurs(st, a \o b, k) <=> Occurs(st, a, k) /\ Occurs(st, b, k + Len(a))
<1> DEFINE c == a \o b
<1>1. /\ c \in Seq(S) /\ Len(c) = Len(a) + Len(b)
      /\ Len(a) \in Nat /\ Len(b) \in Nat
      /\ \A j \in 1 .. Len(a) : c[j] = a[j]
      /\ \A j \in 1 .. Len(b) : c[Len(a) + j] = b[j]
  BY ConcatIs
<1>2. Len(st) \in Nat
  OBVIOUS
<1> HIDE DEF c
<1>3. ASSUME Occurs(st, c, k) PROVE Occurs(st, a, k) /\ Occurs(st, b, k + Len(a))
  <2>1. ASSUME NEW j \in 1 .. Len(a) PROVE a[j] = st[k + j]
    <3>1. j \in 1 .. Len(c)
      BY <1>1
    <3> QED
      BY <1>1, <1>3, <3>1 DEF Occurs
  <2>2. ASSUME NEW j \in 1 .. Len(b) PROVE b[j] = st[k + Len(a) + j]
    <3>1. Len(a) + j \in 1 .. Len(c) /\ k + (Len(a) + j) = k + Len(a) + j
      BY <1>1
    <3>2. c[Len(a) + j] = st[k + (Len(a) + j)]
      BY <1>3, <3>1 DEF Occurs
    <3> QED
      BY <1>1, <3>1, <3>2
  <2>3. k + Len(a) <= Len(st) /\ k + Len(a) + Len(b) <= Len(st)
    BY <1>1, <1>2, <1>3 DEF Occurs
  <2> QED
    BY <2>1, <2>2, <2>3 DEF Occurs
<1>4. ASSUME Occurs(st, a, k), Occurs(st, b, k + Len(a)) PROVE Occurs(st, c, k)
  <2>1. ASSUME NEW j \in 1 .. Len(c) PROVE c[j] = st[k + j]
    <3>1. CASE j <= Len(a)
      <4>1. j \in 1 .. Len(a)
        BY <1>1, <3>1
      <4> QED
        BY <1>1, <1>4, <4>1 DEF Occurs
    <3>2. CASE ~(j <= Len(a))
      <4> DEFINE i == j - Len(a)
      <4>1. i \in 1 .. Len(b) /\ Len(a) + i = j /\ k + Len(a) + i = k + j
        BY <1>1, <3>2
      <4>2. b[i] = st[k + Len(a) + i]
        BY <1>4, <4>1 DEF Occurs
      <4> QED
        BY <1>1, <4>1, <4>2
    <3> QED
      BY <3>1, <3>2
  <2>2. k + Len(c) <= Len(st)
    BY <1>1, <1>2, <1>4 DEF Occurs
  <2> QED
    BY <2>1, <2>2 DEF Occurs
<1> QED
  BY <1>3, <1>4 DEF c

LEMMA OccursMore ==
    ASSUME NEW S, NEW st \in Seq(S), NEW im \in Seq(S), NEW b \in Seq(S), NEW k \in Nat
    PROVE  /\ Occurs(st, b, k) => Occurs(st \o im, b, k)
           /\ Occurs(st \o im, im, Len(st))
<1> DEFINE more == st \o im
<1>1. /\ Len(more) = Len(st) + Len(im) /\ Len(st) \in Nat /\ Len(im) \in Nat
      /\ \A j \in 1 .. Len(st) : more[j] = st[j]
      /\ \A j \in 1 .. Len(im) : more[Len(st) + j] = im[j]
  BY ConcatIs
<1> HIDE DEF more
<1>2. ASSUME Occurs(st, b, k) PROVE Occurs(more, b, k)
  <2>1. k + Len(b) <= Len(st) /\ \A j \in 1 .. Len(b) : b[j] = st[k + j]
    BY <1>2 DEF Occurs
  <2>2. k + Len(b) <= Len(more)
    BY <1>1, <2>1
  <2>3. ASSUME NEW j \in 1 .. Len(b) PROVE b[j] = more[k + j]
    <3>1. k + j \in 1 .. Len(st)
      BY <1>1, <2>1
    <3> QED
      BY <1>1, <2>1, <3>1
  <2> QED
    BY <2>2, <2>3 DEF Occurs
<1>3. Occurs(more, im, Len(st))
  BY <1>1 DEF Occurs
<1> QED
  BY <1>2, <1>3 DEF more

\* How the stream grows in a step of the sender.
LEMMA TurnStream ==
    ASSUME recs \in Seq(Records), WriterTurn
    PROVE  \/ recs' = recs /\ Stream' = Stream
           \/ \E rec \in Records :
                  /\ recs' = Append(recs, rec)
                  /\ Stream' = Stream \o Image(Len(recs) + 1, rec)
<1>1. CASE recs' = recs
  BY <1>1 DEF Stream
<1>2. CASE recs' # recs
  <2>1. PICK rec \in Records : recs' = Append(recs, rec)
    BY <1>2 DEF WriterTurn
  <2> QED
    BY <2>1, StreamGrows
<1> QED
  BY <1>1, <1>2

\* What is in the stream stays there.
LEMMA OccursStill ==
    ASSUME recs \in Seq(Records), WriterTurn,
           NEW b \in Seq(WireBytes), NEW k \in Nat, Occurs(Stream, b, k)
    PROVE  Occurs(Stream', b, k)
<1>1. CASE Stream' = Stream
  BY <1>1
<1>2. CASE Stream' # Stream
  <2>1. PICK rec \in Records : Stream' = Stream \o Image(Len(recs) + 1, rec)
    BY <1>2, TurnStream
  <2>2. Image(Len(recs) + 1, rec) \in Seq(WireBytes)
    <3>1. Len(recs) + 1 \in Nat
      OBVIOUS
    <3> QED
      BY <3>1, ImageTyped
  <2>3. Stream \in Seq(WireBytes)
    BY StreamTyped
  <2>4. Occurs(Stream \o Image(Len(recs) + 1, rec), b, k)
    BY <2>2, <2>3, OccursMore
  <2> QED
    BY <2>1, <2>4
<1> QED
  BY <1>1, <1>2

\* Some of the bytes behind the network's enter it.
LEMMA PushesFeed ==
    ASSUME wire \in Seq(WireBytes), NEW st \in Seq(WireBytes),
           NEW bytes \in Seq(WireBytes), NEW k \in Nat,
           OutOk(out'), link = "up", Pushes(bytes),
           Occurs(st, wire, k), Occurs(st, bytes, k + Len(wire)),
           k + Len(wire) + Len(bytes) = Len(st)
    PROVE  /\ Occurs(st, wire', k) /\ Occurs(st, Rest(out'), k + Len(wire'))
           /\ k + Len(wire') + Len(Rest(out')) = Len(st)
<1>1. PICK taken \in Seq(WireBytes) :
          wire' = wire \o taken /\ bytes = taken \o Rest(out')
  BY DEF Pushes
<1>2. Rest(out') \in Seq(WireBytes)
  BY RestTyped
<1> DEFINE rest == Rest(out')
<1> HIDE DEF rest
<1>3. /\ Len(bytes) = Len(taken) + Len(rest) /\ Len(wire') = Len(wire) + Len(taken)
      /\ Len(taken) \in Nat /\ Len(rest) \in Nat /\ Len(wire) \in Nat
  BY <1>1, <1>2, ConcatIs DEF rest
<1>4. k + Len(wire) \in Nat
  BY <1>3
<1>5. Occurs(st, taken, k + Len(wire)) /\ Occurs(st, rest, k + Len(wire) + Len(taken))
  BY <1>1, <1>2, <1>4, OccursConcat DEF rest
<1>6. Occurs(st, wire', k)
  BY <1>1, <1>5, OccursConcat
<1>7. k + Len(wire) + Len(taken) = k + Len(wire')
  BY <1>3
<1>8. k + Len(wire') + Len(rest) = Len(st)
  BY <1>3
<1> QED
  BY <1>5, <1>6, <1>7, <1>8 DEF rest

LEMMA WriterFeeds ==
    ASSUME WriterInv, WriterTurn, OutOk(out'), NEW k, Fed(wire, k)
    PROVE  Fed(wire, k)'
<1>1. /\ recs \in Seq(Records) /\ wire \in Seq(WireBytes) /\ OutOk(out)
      /\ link \in {"up", "stopped", "cut"} /\ wr.phase # "stopped" /\ k \in Nat
      /\ Occurs(Stream, wire, k)
  BY DEF WriterInv, WriterTyped, WriterTurn, Fed
<1>2. link = "up" \/ link = "cut"
  BY <1>1 DEF WriterInv, LinkKnown
<1>3. Stream \in Seq(WireBytes) /\ Len(Stream) \in Nat
  BY <1>1, StreamTyped
<1>4. Rest(out) \in Seq(WireBytes) /\ Len(wire) \in Nat /\ Len(Rest(out)) \in Nat
  BY <1>1, RestTyped
<1>5. Occurs(Stream', wire, k)
  BY <1>1, OccursStill
<1>6. CASE wire' = wire /\ link' # "up"
  BY <1>1, <1>5, <1>6 DEF Fed
<1>7. CASE link = "up" /\ link' = link /\ recs' = recs /\ Pushes(Rest(out))
  <2>1. Stream' = Stream
    BY <1>7 DEF Stream
  <2>2. /\ Occurs(Stream, Rest(out), k + Len(wire))
        /\ k + Len(wire) + Len(Rest(out)) = Len(Stream)
    BY <1>7 DEF Fed
  <2>3. /\ Occurs(Stream, wire', k) /\ Occurs(Stream, Rest(out'), k + Len(wire'))
        /\ k + Len(wire') + Len(Rest(out')) = Len(Stream)
    BY <1>1, <1>3, <1>4, <1>7, <2>2, PushesFeed
  <2> QED
    BY <1>1, <2>1, <2>3 DEF Fed
<1>8. ASSUME link = "up", link' = link, NEW rec \in Records, recs' = Append(recs, rec),
             Pushes(Rest(out) \o Image(Len(recs) + 1, rec))
      PROVE  Fed(wire, k)'
  <2> DEFINE im == Image(Len(recs) + 1, rec)
             rest == Rest(out)
             bytes == rest \o im
  <2>1. im \in Seq(WireBytes)
    <3>1. Len(recs) + 1 \in Nat
      BY <1>1
    <3> QED
      BY <3>1, ImageTyped
  <2>2. Stream' = Stream \o im
    BY <1>1, <1>8, StreamGrows
  <2>3. Occurs(Stream, rest, k + Len(wire)) /\ k + Len(wire) + Len(rest) = Len(Stream)
    BY <1>8 DEF Fed
  <2>4. rest \in Seq(WireBytes) /\ k + Len(wire) \in Nat
    BY <1>1, <1>4
  <2> HIDE DEF im, rest
  <2>5. /\ bytes \in Seq(WireBytes) /\ Len(bytes) = Len(rest) + Len(im)
        /\ Stream \o im \in Seq(WireBytes) /\ Len(Stream \o im) = Len(Stream) + Len(im)
        /\ Len(rest) \in Nat /\ Len(im) \in Nat
    BY <1>3, <2>1, <2>4, ConcatIs
  <2>6. Occurs(Stream \o im, rest, k + Len(wire)) /\ Occurs(Stream \o im, im, Len(Stream))
    BY <1>3, <2>1, <2>3, <2>4, OccursMore
  <2>7. Occurs(Stream \o im, bytes, k + Len(wire))
    BY <2>1, <2>3, <2>4, <2>5, <2>6, OccursConcat
  <2>8. k + Len(wire) + Len(bytes) = Len(Stream \o im)
    <3> DEFINE st == Stream \o im
    <3>1. Len(bytes) = Len(rest) + Len(im) /\ Len(st) = Len(Stream) + Len(im)
          /\ Len(rest) \in Nat /\ Len(im) \in Nat /\ Len(wire) \in Nat /\ k \in Nat
          /\ k + Len(wire) + Len(rest) = Len(Stream)
      BY <1>1, <1>4, <2>3, <2>5
    <3> HIDE DEF bytes, st
    <3>2. k + Len(wire) + Len(bytes) = Len(st)
      BY <1>3, <3>1
    <3> QED
      BY <3>2 DEF st
  <2>9. Occurs(Stream \o im, wire, k) /\ Pushes(bytes)
    BY <1>5, <1>8, <2>2 DEF im, rest
  <2> DEFINE st == Stream \o im
  <2>10. st \in Seq(WireBytes) /\ bytes \in Seq(WireBytes)
    BY <2>5
  <2> HIDE DEF bytes, st
  <2>11. /\ Occurs(st, wire', k) /\ Occurs(st, Rest(out'), k + Len(wire'))
         /\ k + Len(wire') + Len(Rest(out')) = Len(st)
    BY <1>1, <1>8, <2>7, <2>8, <2>9, <2>10, PushesFeed DEF st
  <2> QED
    BY <1>1, <2>2, <2>11 DEF Fed, st
<1>9. CASE link = "cut"
  <2>1. wire' = wire /\ link' # "up"
    BY <1>9 DEF WriterTurn, Pushes
  <2> QED
    BY <1>6, <2>1
<1> QED
  BY <1>2, <1>6, <1>7, <1>8, <1>9 DEF WriterTurn

-----------------------------------------------------------------------------
(* The reader's invariant, for an input buffer i, a session r and what the *)
(* network has, w.                                                         *)

InOk(i) ==
    /\ i \in [buf : Seq(WireBytes), idx : Nat, size : Nat]
    /\ i.idx <= Len(i.buf) /\ Len(i.buf) <= i.size

ReaderRecords ==
    [reply : {"doProcessInit", "getData", "runProcessingOneMessage"},
     cur : Nat, curSize : Nat, curStart : Nat, padSz : Nat,
     pending : Seq(WireBytes), pendingSz : Nat, clearAt : Nat, clearLen : Nat,
     handled : Nat, opened : Nat, error : Errors, got : Seq(Byte)]

Reads(r) == r.error \in {"none", "WANT_READ"}

\* What the receiver has not processed is the stream from a place on.
Behind(i, w, at) == Occurs(Stream, Rest(i), at) /\ Fed(w, at + Used(i))

Taken(r) == Len(r.got) + Len(r.pending)

\* The handlers have got whole messages, and part of one may wait.
Handlers(r) ==
    /\ r.handled \in 0 .. NumHs
    /\ IF r.handled < NumHs THEN Len(r.got) = Begin(r.handled + 1) /\ r.clearLen = 0
       ELSE Len(r.got) >= Begin(NumHs + 1) /\ r.pendingSz = 0
    /\ IF r.pendingSz = 0 THEN r.pending = <<>>
       ELSE /\ r.pendingSz = MsgLen(r.handled + 1)
            /\ Len(r.pending) \in 1 .. r.pendingSz - 1

\* What waits follows what the handlers have got.
Pends(r) ==
    \A j \in 1 .. Len(r.pending) :
        /\ r.pending[j][1] \in 1 .. Len(recs)
        /\ Content(r.pending[j]) = Script[Len(r.got) + j]

\* clearOutputBuffer is the end of the last record's data.
Clear(i, r) ==
    r.clearLen > 0 =>
        /\ r.reply = "doProcessInit" /\ Used(i) = 0
        /\ r.cur \in 1 .. Len(recs) /\ recs[r.cur].type = "application_data"
        /\ r.clearLen <= Len(recs[r.cur].body)
        /\ r.clearAt + r.clearLen <= Len(i.buf)
        /\ \A j \in 1 .. r.clearLen :
               i.buf[r.clearAt + j] =
                   <<r.cur, RecHdr + (Len(recs[r.cur].body) - r.clearLen + j)>>

\* Before a header.
Between(i, r, w) ==
    /\ r.reply = "doProcessInit"
    /\ r.opened = r.cur
    /\ From(r.cur + 1) = Taken(r) + r.clearLen
    /\ Behind(i, w, Start(r.cur + 1))

\* Behind the header of record r.cur.
Fetches(i, r, w) ==
    /\ r.reply = "getData"
    /\ r.cur > 0 /\ r.opened = r.cur - 1
    /\ r.curSize = SizeOf(recs[r.cur])
    /\ From(r.cur) = Taken(r)
    /\ Behind(i, w, Start(r.cur) + RecHdr)

\* In record r.cur, behind the first d bytes of its body.
Processes(i, r, w) ==
    LET d == i.idx - r.curStart
    IN  /\ r.reply = "runProcessingOneMessage"
        /\ r.cur > 0 /\ r.opened = r.cur
        /\ r.curSize = SizeOf(recs[r.cur])
        /\ r.padSz = IF recs[r.cur].enc THEN PadSz ELSE 0
        /\ d \in 0 .. Len(recs[r.cur].body) - 1
        /\ d # 0 => recs[r.cur].type = "handshake"
        /\ From(r.cur) + d = Taken(r)
        /\ Behind(i, w, Start(r.cur) + RecHdr + d)

Holds(i, r, w) ==
    /\ Handlers(r)
    /\ Pends(r)
    /\ Clear(i, r)
    /\ Between(i, r, w) \/ Fetches(i, r, w) \/ Processes(i, r, w)

One(i, r) ==
    /\ r.reply = "doProcessInit" => Used(i) < RecHdr
    /\ r.reply = "getData" => Used(i) <= r.curSize
    /\ r.reply = "runProcessingOneMessage" =>
           i.idx + Used(i) = r.curStart + r.curSize

\* Record r.cur of another implementation ends inside a header.
SplitAt(r) ==
    /\ session.peer = "other"
    /\ r.cur \in 1 .. Len(recs) /\ recs[r.cur].type = "handshake"
    /\ recs[r.cur].body[Len(recs[r.cur].body)].no < HsHdr

\* Why the receiver has stopped.
Ends(r) ==
    /\ r.error \notin {"DECRYPT_ERROR", "OUT_OF_ORDER_E", "WANT_WRITE"}
    /\ r.error = "PARSE_ERROR" => ClosedInTheClear \/ SplitAt(r)
    /\ r.error = "INCOMPLETE_DATA" => SplitAt(r)
    /\ r.error = "BUFFER_ERROR" => ~FragmentsFit
    /\ r.error = "ZERO_RETURN" =>
           /\ wr.phase # "sending"
           /\ \A p \in Len(r.got) + 1 .. Len(wr.handed) : ~wr.handed[p].cut

ReaderOk(i, r, w) ==
    /\ InOk(i)
    /\ r \in ReaderRecords
    /\ r.cur <= Len(recs)
    /\ IsPart(r.got) /\ Len(r.got) <= Len(wr.handed)
    /\ One(i, r)
    /\ Ends(r)
    /\ Reads(r) => Holds(i, r, w)

ReaderInv == ReaderOk(in, rd, wire)

\* A reader's step leaves all the rest as it is.
LEMMA ReaderFrame ==
    ASSUME UNCHANGED <<session, recs, link, out, wr>>
    PROVE  ReaderInv' <=> ReaderOk(in', rd', wire')
<1>1. Stream' = Stream /\ (\A r : Start(r)' = Start(r)) /\ (\A r : From(r)' = From(r))
  BY DEF Stream, Start, From
<1>2. \A b : Content(b)' = Content(b)
  BY DEF Content
<1>3. ReaderOk(in, rd, wire)' <=> ReaderOk(in', rd', wire')
  <2>1. Handlers(rd)' <=> Handlers(rd')
    BY SameScript DEF Handlers
  <2>2. Pends(rd)' <=> Pends(rd')
    BY <1>2, SameScript DEF Pends
  <2>3. Clear(in, rd)' <=> Clear(in', rd')
    BY DEF Clear
  <2>5. Between(in, rd, wire)' <=> Between(in', rd', wire')
    BY <1>1 DEF Between, Behind, Fed
  <2>6. Fetches(in, rd, wire)' <=> Fetches(in', rd', wire')
    BY <1>1 DEF Fetches, Behind, Fed
  <2>7. Processes(in, rd, wire)' <=> Processes(in', rd', wire')
    BY <1>1 DEF Processes, Behind, Fed
  <2>8. Ends(rd)' <=> Ends(rd')
    BY DEF Ends, SplitAt, ClosedInTheClear, FragmentsFit
  <2>9. IsPart(rd.got)' <=> IsPart(rd'.got)
    BY SameScript DEF IsPart
  <2>10. One(in, rd)' <=> One(in', rd')
    BY DEF One
  <2> QED
    BY <2>1, <2>2, <2>3, <2>5, <2>6, <2>7, <2>8, <2>9, <2>10 DEF ReaderOk, Holds, Reads
<1> QED
  BY <1>3 DEF ReaderInv

-----------------------------------------------------------------------------
(* The sender and the network leave the reader where it is.                *)

\* What others do to the records, seen by the reader.
RecordsGrow ==
    /\ session' = session
    /\ Len(recs) <= Len(recs')
    /\ \A r \in 1 .. Len(recs) : recs'[r] = recs[r]
    /\ \A r \in 1 .. Len(recs) + 1 : From(r)' = From(r) /\ Start(r)' = Start(r)
    /\ Len(wr.handed) <= Len(wr'.handed)
    /\ wr.phase # "sending" => wr'.phase # "sending" /\ wr'.handed = wr.handed

LEMMA TurnGrows ==
    ASSUME WriterInv, WriterTurn
    PROVE  RecordsGrow
<1>1. recs \in Seq(Records) /\ Len(recs) \in Nat /\ wr.handed \in Seq(Byte)
  BY DEF WriterInv, WriterTyped, WriterRecords
<1>2. CASE recs' = recs /\ wr'.handed = wr.handed
  <2>1. \A r : From(r)' = From(r) /\ Start(r)' = Start(r)
    BY <1>2 DEF From, Start
  <2> QED
    BY <1>1, <1>2, <2>1 DEF WriterTurn, RecordsGrow
<1>3. ASSUME NEW rec \in Records, recs' = Append(recs, rec),
             wr'.handed = wr.handed \o PartOf(rec)
      PROVE  RecordsGrow
  <2>1. /\ Len(recs') = Len(recs) + 1
        /\ \A r \in 1 .. Len(recs) : recs'[r] = recs[r]
    BY <1>1, <1>3
  <2>2. /\ PartOf(rec) \in Seq(Byte) /\ PartsOf(recs') = Append(PartsOf(recs), PartOf(rec))
        /\ PartsOf(recs) \in Seq(Seq(Byte)) /\ Len(PartsOf(recs)) = Len(recs)
    BY <1>1, <1>3, PartsAppend, PartsTyped
  <2>3. \A r \in 1 .. Len(recs) + 1 : From(r)' = From(r)
    BY <2>2, BeforeAppend DEF From
  <2>4. \A r \in 1 .. Len(recs) + 1 : Start(r)' = Start(r)
    BY <1>1, <1>3, StreamGrows
  <2>5. Len(wr.handed) <= Len(wr'.handed)
    <3> DEFINE h == wr.handed
               p == PartOf(rec)
    <3>1. h \in Seq(Byte) /\ p \in Seq(Byte) /\ wr'.handed = h \o p
      BY <1>1, <1>3, <2>2
    <3> HIDE DEF h, p
    <3>2. Len(h) <= Len(h \o p)
      BY <3>1, ConcatIs
    <3> QED
      BY <3>1, <3>2 DEF h
  <2>6. Len(recs) <= Len(recs')
    BY <1>1, <2>1
  <2> QED
    BY <2>1, <2>3, <2>4, <2>5, <2>6 DEF WriterTurn, RecordsGrow
<1> QED
  BY <1>2, <1>3 DEF WriterTurn

StreamKept ==
    /\ \A b \in Seq(WireBytes), k \in Nat : Occurs(Stream, b, k) => Occurs(Stream', b, k)
    /\ \A k \in Nat : Fed(wire, k) => Fed(wire, k)'

LEMMA BehindStays ==
    ASSUME StreamKept, UNCHANGED in, InOk(in),
           NEW at \in Nat, Behind(in, wire, at)
    PROVE  Behind(in, wire, at)'
<1>1. Rest(in) \in Seq(WireBytes) /\ Used(in) \in Nat
  BY DEF InOk, Rest, Used
<1>2. at + Used(in) \in Nat
  BY <1>1
<1>3. Occurs(Stream', Rest(in), at)
  BY <1>1 DEF StreamKept, Behind
<1>4. Fed(wire, at + Used(in))'
  <2> DEFINE k == at + Used(in)
  <2>1. k \in Nat /\ Fed(wire, k)
    BY <1>2 DEF Behind
  <2> QED
    BY <2>1 DEF StreamKept
<1>5. Used(in') = Used(in) /\ Rest(in') = Rest(in)
  OBVIOUS
<1> QED
  BY <1>3, <1>4, <1>5 DEF Behind, Fed

LEMMA EndsStays ==
    ASSUME WriterInv, WriterTyped', RecordsGrow, rd' = rd, Ends(rd)
    PROVE  Ends(rd)'
<1>1. /\ DOMAIN recs = 1 .. Len(recs) /\ DOMAIN recs' = 1 .. Len(recs') /\ Len(recs) \in Nat
      /\ Len(recs') \in Nat /\ Len(recs) <= Len(recs')
      /\ \A r \in 1 .. Len(recs) : recs'[r] = recs[r]
  BY DEF WriterInv, WriterTyped, RecordsGrow
<1>2. ClosedInTheClear => ClosedInTheClear'
  BY <1>1 DEF ClosedInTheClear
<1>3. ~FragmentsFit => ~FragmentsFit'
  BY <1>1 DEF FragmentsFit
<1>4. wr.phase # "sending" => wr'.phase # "sending" /\ wr'.handed = wr.handed
  BY DEF RecordsGrow
<1>5. ASSUME SplitAt(rd) PROVE SplitAt(rd)'
  <2> DEFINE c == rd.cur
  <2>1. c \in 1 .. Len(recs) /\ c \in 1 .. Len(recs')
    BY <1>1, <1>5 DEF SplitAt
  <2>2. recs'[c] = recs[c] /\ session' = session /\ c' = c
    BY <1>1, <2>1 DEF RecordsGrow
  <2> QED
    BY <1>5, <2>1, <2>2 DEF SplitAt
<1> QED
  BY <1>2, <1>3, <1>4, <1>5 DEF Ends

LEMMA HoldsStays ==
    ASSUME WriterInv, WriterInv', RecordsGrow, StreamKept, UNCHANGED readerVars,
           ReaderInv, Reads(rd)
    PROVE  Holds(in, rd, wire)'
<1>1. /\ Len(recs) \in Nat /\ Len(recs) <= Len(recs') /\ in' = in /\ rd' = rd
      /\ \A r \in 1 .. Len(recs) : recs'[r] = recs[r]
      /\ \A r \in 1 .. Len(recs) + 1 : From(r)' = From(r) /\ Start(r)' = Start(r)
      /\ session' = session /\ rd \in ReaderRecords /\ rd.cur <= Len(recs) /\ InOk(in)
      /\ rd.cur \in Nat /\ Len(recs') \in Nat
      /\ \A r \in 1 .. Len(recs) + 1 : Start(r) \in Nat /\ From(r) \in Nat
  <2>1. recs \in Seq(Records) /\ recs' \in Seq(Records) /\ Recorded
    BY DEF WriterInv, WriterTyped
  <2>2. \A r \in 1 .. Len(recs) + 1 : Start(r) \in Nat /\ From(r) \in Nat
    BY <2>1, StreamTyped, FromTyped
  <2> QED
    BY <2>1, <2>2 DEF RecordsGrow, ReaderInv, ReaderOk, readerVars, ReaderRecords
<1>2. Handlers(rd) /\ Pends(rd) /\ Clear(in, rd)
      /\ (Between(in, rd, wire) \/ Fetches(in, rd, wire) \/ Processes(in, rd, wire))
  BY DEF ReaderInv, ReaderOk, Holds
<1>3. Handlers(rd)'
  BY <1>1, <1>2, SameScript DEF Handlers
<1>4. Pends(rd)'
  <2>1. ASSUME NEW j \in 1 .. Len(rd.pending)
        PROVE  /\ rd.pending[j][1] \in 1 .. Len(recs')
               /\ Content(rd.pending[j])' = Script[Len(rd.got) + j]
    <3>1. rd.pending[j][1] \in 1 .. Len(recs)
          /\ Content(rd.pending[j]) = Script[Len(rd.got) + j]
      BY <1>2 DEF Pends
    <3>2. Content(rd.pending[j])' = Content(rd.pending[j])
      BY <1>1, <3>1 DEF Content
    <3> QED
      BY <1>1, <3>1, <3>2
  <2> QED
    BY <1>1, <2>1, SameScript DEF Pends
<1>5. Clear(in, rd)'
  <2>1. CASE rd.clearLen > 0
    <3> DEFINE c == rd.cur
    <3>1. c \in 1 .. Len(recs)
      BY <1>2, <2>1 DEF Clear
    <3>2. recs'[c] = recs[c] /\ c \in 1 .. Len(recs')
      BY <1>1, <3>1
    <3>3. Used(in)' = Used(in)
      BY <1>1 DEF Used
    <3> QED
      BY <1>1, <1>2, <3>2, <3>3 DEF Clear
  <2>2. CASE ~(rd.clearLen > 0)
    BY <1>1, <2>2 DEF Clear
  <2> QED
    BY <2>1, <2>2
<1>6. CASE Between(in, rd, wire)
  <2>1. rd.cur + 1 \in 1 .. Len(recs) + 1
    BY <1>1
  <2>2. Behind(in, wire, Start(rd.cur + 1))'
    <3> DEFINE at == Start(rd.cur + 1)
    <3>1. at \in Nat /\ Behind(in, wire, at)
      BY <1>1, <1>6, <2>1 DEF Between
    <3>2. at' = at
      BY <1>1, <2>1
    <3> HIDE DEF at
    <3>3. /\ Occurs(Stream', Rest(in'), at) /\ Occurs(Stream', wire', at + Used(in'))
          /\ at + Used(in') \in Nat
          /\ link' = "up" => /\ Occurs(Stream', Rest(out'), at + Used(in') + Len(wire'))
                             /\ at + Used(in') + Len(wire') + Len(Rest(out')) = Len(Stream')
      BY <1>1, <3>1, BehindStays DEF Behind, Fed
    <3>4. Behind(in, wire, at)'
      BY <3>2, <3>3 DEF Behind, Fed
    <3> QED
      BY <3>4 DEF at
  <2> QED
    BY <1>1, <1>3, <1>4, <1>5, <1>6, <2>1, <2>2 DEF Between, Holds, Taken
<1>7. CASE Fetches(in, rd, wire)
  <2>1. rd.cur \in 1 .. Len(recs) /\ rd.cur \in 1 .. Len(recs) + 1
    BY <1>1, <1>7 DEF Fetches
  <2>2. Behind(in, wire, Start(rd.cur) + RecHdr)'
    <3> DEFINE at == Start(rd.cur) + RecHdr
    <3>1. at \in Nat /\ Behind(in, wire, at)
      BY <1>1, <1>7, <2>1, RecordSizes DEF Fetches
    <3>2. at' = at
      BY <1>1, <2>1
    <3> HIDE DEF at
    <3>3. /\ Occurs(Stream', Rest(in'), at) /\ Occurs(Stream', wire', at + Used(in'))
          /\ at + Used(in') \in Nat
          /\ link' = "up" => /\ Occurs(Stream', Rest(out'), at + Used(in') + Len(wire'))
                             /\ at + Used(in') + Len(wire') + Len(Rest(out')) = Len(Stream')
      BY <1>1, <3>1, BehindStays DEF Behind, Fed
    <3>4. Behind(in, wire, at)'
      BY <3>2, <3>3 DEF Behind, Fed
    <3> QED
      BY <3>4 DEF at
  <2>3. SizeOf(recs[rd.cur])' = SizeOf(recs[rd.cur])
    BY <1>1, <2>1 DEF SizeOf
  <2> QED
    BY <1>1, <1>3, <1>4, <1>5, <1>7, <2>1, <2>2, <2>3 DEF Fetches, Holds, Taken
<1>8. CASE Processes(in, rd, wire)
  <2> DEFINE d == in.idx - rd.curStart
  <2>1. /\ rd.cur \in 1 .. Len(recs) /\ rd.cur \in 1 .. Len(recs) + 1 /\ d \in Nat
        /\ d' = d
    <3>1. d \in 0 .. Len(recs[rd.cur].body) - 1
      BY <1>8 DEF Processes
    <3> QED
      BY <1>1, <1>8, <3>1 DEF Processes
  <2>2. Behind(in, wire, Start(rd.cur) + RecHdr + d)'
    <3> DEFINE at == Start(rd.cur) + RecHdr + d
    <3>0. Start(rd.cur) \in Nat /\ RecHdr \in Nat
      BY <1>1, <2>1, RecordSizes
    <3>1. at \in Nat /\ Behind(in, wire, at)
      BY <1>8, <2>1, <3>0 DEF Processes
    <3>2. at' = at
      BY <1>1, <2>1
    <3> HIDE DEF at
    <3>3. /\ Occurs(Stream', Rest(in'), at) /\ Occurs(Stream', wire', at + Used(in'))
          /\ at + Used(in') \in Nat
          /\ link' = "up" => /\ Occurs(Stream', Rest(out'), at + Used(in') + Len(wire'))
                             /\ at + Used(in') + Len(wire') + Len(Rest(out')) = Len(Stream')
      BY <1>1, <3>1, BehindStays DEF Behind, Fed
    <3>4. Behind(in, wire, at)'
      BY <3>2, <3>3 DEF Behind, Fed
    <3> QED
      BY <3>4 DEF at
  <2>3. SizeOf(recs[rd.cur])' = SizeOf(recs[rd.cur])
    BY <1>1, <2>1 DEF SizeOf
  <2> QED
    BY <1>1, <1>3, <1>4, <1>5, <1>8, <2>1, <2>2, <2>3 DEF Processes, Holds, Taken
<1> QED
  BY <1>2, <1>6, <1>7, <1>8

LEMMA ReaderStays ==
    ASSUME WriterInv, WriterInv', RecordsGrow, StreamKept, UNCHANGED readerVars, ReaderInv
    PROVE  ReaderInv'
<1>1. /\ in' = in /\ rd' = rd /\ session' = session /\ Len(wr.handed) <= Len(wr'.handed)
      /\ Len(recs) <= Len(recs') /\ Len(recs) \in Nat /\ Len(recs') \in Nat
      /\ Len(wr.handed) \in Nat /\ Len(wr'.handed) \in Nat
      /\ WriterTyped'
  BY DEF WriterInv, WriterTyped, WriterRecords, RecordsGrow, readerVars
<1>2. /\ InOk(in) /\ rd \in ReaderRecords /\ rd.cur <= Len(recs) /\ IsPart(rd.got)
      /\ Len(rd.got) <= Len(wr.handed) /\ One(in, rd) /\ Ends(rd)
      /\ (Reads(rd) => Holds(in, rd, wire))
  BY DEF ReaderInv, ReaderOk
<1>3. Ends(rd)'
  BY <1>1, <1>2, EndsStays
<1>4. IsPart(rd.got)'
  BY <1>1, <1>2, SameScript DEF IsPart
<1>5. InOk(in)' /\ (rd \in ReaderRecords)' /\ (rd.cur <= Len(recs))' /\ One(in, rd)'
      /\ (Len(rd.got) <= Len(wr.handed))'
  <2>1. rd.cur \in Nat /\ Len(rd.got) \in Nat
    BY <1>2 DEF ReaderRecords
  <2> QED
    BY <1>1, <1>2, <2>1 DEF InOk, ReaderRecords, One, Used
<1>6. (Reads(rd) => Holds(in, rd, wire))'
  BY <1>1, HoldsStays DEF Reads
<1> QED
  BY <1>3, <1>4, <1>5, <1>6 DEF ReaderInv, ReaderOk

LEMMA WriterStepReader ==
    ASSUME WriterInv, ReaderInv, Writer \/ GiveUp, UNCHANGED readerVars
    PROVE  ReaderInv'
<1>1. WriterInv' /\ WriterTurn
  BY WriterStepKeeps
<1>2. RecordsGrow
  BY <1>1, TurnGrows
<1>3. recs \in Seq(Records) /\ OutOk(out')
  BY <1>1 DEF WriterInv, WriterTyped
<1>4. \A b \in Seq(WireBytes), k \in Nat : Occurs(Stream, b, k) => Occurs(Stream', b, k)
  BY <1>1, <1>3, OccursStill
<1>5. \A k \in Nat : Fed(wire, k) => Fed(wire, k)'
  BY <1>1, <1>3, WriterFeeds
<1> QED
  BY <1>1, <1>2, <1>4, <1>5, ReaderStays DEF StreamKept

LEMMA CutKeeps ==
    ASSUME WriterInv, ReaderInv, Cut, UNCHANGED <<writerVars, readerVars>>
    PROVE  WriterInv' /\ ReaderInv'
<1>1. /\ session' = session /\ recs' = recs /\ wr' = wr /\ out' = out
      /\ wire' = <<>> /\ link = "up" /\ link' = "cut"
  BY DEF Cut, writerVars
<1>2. wire' \in Seq(WireBytes)
  BY <1>1
<1>3. WriterInv'
  BY <1>1, <1>2, WriterKept DEF Cut, writerVars
<1>4. recs \in Seq(Records) /\ Len(recs) \in Nat /\ wr.handed \in Seq(Byte)
      /\ wire \in Seq(WireBytes)
  BY DEF WriterInv, WriterTyped, WriterRecords
<1>5. Stream' = Stream /\ (\A r : From(r)' = From(r) /\ Start(r)' = Start(r))
  BY <1>1 DEF Stream, From, Start
<1>6. RecordsGrow
  BY <1>1, <1>4, <1>5 DEF RecordsGrow
<1>7. ASSUME NEW k \in Nat, Fed(wire, k) PROVE Fed(wire, k)'
  <2>1. k + Len(wire) <= Len(Stream) /\ Len(Stream) \in Nat /\ Len(wire) \in Nat
    BY <1>4, <1>7, StreamTyped DEF Fed, Occurs
  <2>2. Len(<<>>) = 0
    OBVIOUS
  <2>3. k + Len(<<>>) <= Len(Stream)
    BY <2>1, <2>2
  <2>4. Occurs(Stream, <<>>, k)
    BY <2>2, <2>3 DEF Occurs
  <2> QED
    BY <1>1, <1>5, <2>4 DEF Fed
<1> QED
  BY <1>3, <1>5, <1>6, <1>7, ReaderStays DEF StreamKept

LEMMA InitHolds ==
    ASSUME Init
    PROVE  WriterInv /\ ReaderInv
<1>1. /\ session \in Sessions /\ recs = <<>> /\ wire = <<>> /\ link = "up"
      /\ out = EmptyOut
      /\ wr = [phase |-> "sending", next |-> 1, fragOffset |-> 0,
               sent |-> 0, prevSent |-> 0, plainSz |-> 0,
               error |-> "none", sentNotify |-> FALSE, handed |-> <<>>]
  BY DEF Init, StreamInit, WriterInit
<1>2. /\ in = [buf |-> <<>>, idx |-> 0, size |-> StaticLen]
      /\ rd = [reply |-> "doProcessInit", cur |-> 0, curSize |-> 0, curStart |-> 0,
               padSz |-> 0, pending |-> <<>>, pendingSz |-> 0,
               clearAt |-> 0, clearLen |-> 0,
               handled |-> 0, opened |-> 0, error |-> "none", got |-> <<>>]
  BY DEF Init, ReaderInit
<1>3. /\ NumHs \in Nat \ {0} /\ NumMsgs \in Nat /\ NumHs <= NumMsgs
      /\ Begin(1) = 0 /\ Len(Script) \in Nat
      /\ Script \in Seq(Byte)
  BY <1>1, SessionTyped, ScriptTyped
<1>4. Len(<<>>) = 0
  OBVIOUS
<1>5. wr \in WriterRecords /\ OutOk(out)
  <2>1. <<>> \in Seq(Byte)
    OBVIOUS
  <2> QED
    BY <1>1, <2>1, EmptyRest DEF WriterRecords
<1>6. WriterTyped
  <2>1. <<>> \in Seq(Records) /\ <<>> \in Seq(WireBytes)
    OBVIOUS
  <2> QED
    BY <1>1, <1>5, <2>1 DEF WriterTyped
<1>7. Hands(wr)
  BY <1>1, <1>3, <1>4, AtMessage
<1>8. FlattenSeq(PartsOf(recs)) = <<>> /\ Stream = <<>>
  <2>1. PartsOf(recs) = <<>> /\ ImagesOf(recs) = <<>>
    BY <1>1, <1>4 DEF PartsOf, ImagesOf
  <2> QED
    BY <2>1, FlattenEmpty DEF Stream
<1>9. Recorded /\ AlertLast /\ IsPart(wr.handed) /\ LinkKnown
  BY <1>1, <1>3, <1>4, <1>8 DEF Recorded, AlertLast, IsPart, LinkKnown
<1>10. WriterInv
  BY <1>1, <1>6, <1>7, <1>9 DEF WriterInv
<1>11. recs \in Seq(Records) /\ Start(1) = 0 /\ From(1) = 0
  BY <1>6, <1>9, StreamTyped, FromTyped DEF WriterTyped
<1>12. InOk(in) /\ Used(in) = 0 /\ Rest(in) = <<>>
  BY <1>2, <1>4, RecordSizes DEF InOk, Used, Rest
<1>13. rd \in ReaderRecords
  <2>1. <<>> \in Seq(WireBytes) /\ <<>> \in Seq(Byte)
    OBVIOUS
  <2> QED
    BY <1>2, <2>1 DEF ReaderRecords, Errors
<1>14. Fed(<<>>, 0) /\ Occurs(Stream, <<>>, 0)
  <2>1. Rest(out) = <<>>
    BY <1>1, EmptyRest
  <2> QED
    BY <1>4, <1>8, <2>1 DEF Fed, Occurs
<1>15. Between(in, rd, wire)
  <2>1. Len(rd.got) = 0 /\ Len(rd.pending) = 0 /\ rd.clearLen = 0 /\ rd.cur + 1 = 1
    BY <1>2, <1>4
  <2>2. Behind(in, wire, 0)
    BY <1>1, <1>12, <1>14 DEF Behind
  <2> QED
    BY <1>2, <1>11, <2>1, <2>2 DEF Between, Taken
<1>16. Handlers(rd) /\ Pends(rd) /\ Clear(in, rd)
  BY <1>2, <1>3, <1>4 DEF Handlers, Pends, Clear
<1>17. One(in, rd) /\ Ends(rd) /\ IsPart(rd.got) /\ Len(rd.got) <= Len(wr.handed)
       /\ rd.cur <= Len(recs)
  BY <1>1, <1>2, <1>3, <1>4, <1>12, RecordSizes DEF One, Ends, IsPart
<1> QED
  BY <1>10, <1>12, <1>13, <1>15, <1>16, <1>17 DEF ReaderInv, ReaderOk, Holds

-----------------------------------------------------------------------------
(* What GetInputData leaves in the buffer is still the stream.             *)

LEMMA InRest ==
    ASSUME NEW i, InOk(i)
    PROVE  /\ Rest(i) \in Seq(WireBytes) /\ Len(Rest(i)) = Used(i) /\ Used(i) \in Nat
           /\ Ahead(i, Used(i)) = Rest(i)
           /\ \A j \in 1 .. Used(i) : Rest(i)[j] = i.buf[i.idx + j]
<1> DEFINE b == i.buf
           x == i.idx
<1>1. b \in Seq(WireBytes) /\ x \in 0 .. Len(b) /\ Len(b) \in x .. Len(b) /\ x + (Len(b) - x) = Len(b)
      /\ Used(i) = Len(b) - x /\ Len(b) - x \in Nat
  BY DEF InOk, Used
<1>2. Rest(i) = SubSeq(b, x + 1, Len(b)) /\ Ahead(i, Used(i)) = SubSeq(b, x + 1, x + (Len(b) - x))
  BY <1>1 DEF Rest, Ahead
<1> HIDE DEF b, x
<1>3. /\ SubSeq(b, x + 1, Len(b)) \in Seq(WireBytes) /\ Len(SubSeq(b, x + 1, Len(b))) = Len(b) - x
      /\ \A j \in 1 .. Len(b) - x : SubSeq(b, x + 1, Len(b))[j] = b[x + j]
  BY <1>1, SliceIs
<1> QED
  BY <1>1, <1>2, <1>3 DEF b, x

LEMMA WireSplit ==
    ASSUME NEW w \in Seq(WireBytes), NEW n \in 0 .. Len(w), Stream \in Seq(WireBytes),
           NEW k \in Nat, Fed(w, k)
    PROVE  /\ SubSeq(w, 1, n) \in Seq(WireBytes) /\ Len(SubSeq(w, 1, n)) = n
           /\ SubSeq(w, n + 1, Len(w)) \in Seq(WireBytes)
           /\ Occurs(Stream, SubSeq(w, 1, n), k)
           /\ Fed(SubSeq(w, n + 1, Len(w)), k + n)
<1> DEFINE a == SubSeq(w, 1, n)
           b == SubSeq(w, n + 1, Len(w))
<1>1. a \in Seq(WireBytes) /\ Len(a) = n
  <2>1. 0 \in 0 .. Len(w) /\ n \in 0 .. Len(w) /\ 0 + 1 = 1 /\ n - 0 = n
    OBVIOUS
  <2>2. SubSeq(w, 0 + 1, n) \in Seq(WireBytes) /\ Len(SubSeq(w, 0 + 1, n)) = n - 0
    BY <2>1, SliceIs
  <2> QED
    BY <2>1, <2>2
<1>2. b \in Seq(WireBytes) /\ Len(b) = Len(w) - n
  <2>1. Len(w) \in n .. Len(w)
    OBVIOUS
  <2> QED
    BY <2>1, SliceIs
<1>3. w = a \o b
  <2>1. SubSeq(w, 0 + 1, Len(w)) = SubSeq(w, 0 + 1, 0 + n) \o SubSeq(w, 0 + n + 1, Len(w))
    <3>1. 0 \in 0 .. Len(w) /\ n \in 0 .. Len(w) - 0
      OBVIOUS
    <3> QED
      BY <3>1, RestSplit
  <2>2. 0 + 1 = 1 /\ 0 + n = n /\ 0 + n + 1 = n + 1 /\ SubSeq(w, 1, Len(w)) = w
    OBVIOUS
  <2> QED
    BY <2>1, <2>2
<1> HIDE DEF a, b
<1>4. Occurs(Stream, a, k) /\ Occurs(Stream, b, k + n)
  BY <1>1, <1>2, <1>3, OccursConcat DEF Fed
<1>5. k + n \in Nat /\ k + n + Len(b) = k + Len(w)
  BY <1>2
<1>6. Fed(b, k + n)
  BY <1>4, <1>5 DEF Fed
<1> QED
  BY <1>1, <1>2, <1>4, <1>6 DEF a, b

LEMMA FetchResult ==
    ASSUME InOk(in), wire \in Seq(WireBytes), Stream \in Seq(WireBytes),
           NEW at \in Nat, Behind(in, wire, at),
           NEW size \in Nat, Used(in) <= size, NEW g \in GetInputData(size)
    PROVE  /\ InOk(g.in) /\ g.wire \in Seq(WireBytes) /\ Behind(g.in, g.wire, at)
           /\ g.error \in {"none", "WANT_READ", "SOCKET_ERROR_E", "MEMORY_E"}
           /\ IF g.error = "none" THEN Used(g.in) = size ELSE Used(g.in) < size
<1>1. Used(in) \in Nat /\ Missing(in, size) = size - Used(in) /\ Len(wire) \in Nat
  BY InRest DEF Missing
<1>2. CASE g.in = in /\ g.wire = wire /\ g.error = "none" /\ size <= Used(in)
  BY <1>1, <1>2
<1>3. CASE g.in = in /\ g.wire = wire /\ g.error \in {"SOCKET_ERROR_E", "MEMORY_E"}
           /\ ~(size <= Used(in))
  BY <1>1, <1>3
<1>4. ASSUME NEW n \in 0 .. Lesser(Missing(in, size), Len(wire)),
             g.in = Received(in, size, n), g.wire = SubSeq(wire, n + 1, Len(wire)),
             g.error = IF n = Missing(in, size) THEN "none" ELSE "WANT_READ"
      PROVE  /\ InOk(g.in) /\ g.wire \in Seq(WireBytes) /\ Behind(g.in, g.wire, at)
             /\ g.error \in {"none", "WANT_READ"}
             /\ IF g.error = "none" THEN Used(g.in) = size ELSE Used(g.in) < size
  <2> DEFINE a == SubSeq(wire, 1, n)
             b == SubSeq(wire, n + 1, Len(wire))
             rest == Rest(in)
             all == rest \o a
             more == Grown(in, size)
             k == at + Used(in)
  <2>1. n \in 0 .. Len(wire) /\ n <= size - Used(in) /\ n \in Nat
    BY <1>1 DEF Lesser
  <2>2. rest \in Seq(WireBytes) /\ Len(rest) = Used(in) /\ Occurs(Stream, rest, at)
        /\ k \in Nat /\ Fed(wire, k) /\ Ahead(in, Used(in)) = rest
    BY <1>1, InRest DEF Behind
  <2>3. /\ a \in Seq(WireBytes) /\ Len(a) = n /\ b \in Seq(WireBytes)
        /\ Occurs(Stream, a, k) /\ Fed(b, k + n)
    <3> HIDE DEF k
    <3> QED
      BY <2>1, <2>2, WireSplit
  <2>4. more \in Nat /\ Used(in) + n <= more
    <3>1. in.size \in Nat /\ Used(in) <= in.size
      BY <1>1 DEF InOk, Used
    <3> QED
      BY <1>1, <2>1, <3>1 DEF Grown
  <2>5. g.in = [buf |-> all, idx |-> 0, size |-> more]
    BY <1>4, <2>2 DEF Received
  <2>6. k = at + Len(rest)
    BY <2>2
  <2> HIDE DEF a, b, rest, more, k
  <2>7. all \in Seq(WireBytes) /\ Len(all) = Used(in) + n
    BY <2>2, <2>3, ConcatIs
  <2>8. Occurs(Stream, all, at)
    BY <2>2, <2>3, <2>6, OccursConcat
  <2> HIDE DEF all
  <2>9. g.in.buf = all /\ g.in.idx = 0 /\ g.in.size = more
    BY <2>5
  <2>10. InOk(g.in)
    <3>1. 0 <= Len(all)
      BY <2>7
    <3> QED
      BY <1>1, <2>1, <2>4, <2>5, <2>7, <2>9, <3>1 DEF InOk
  <2>11. Used(g.in) = Used(in) + n
    BY <1>1, <2>1, <2>7, <2>9 DEF Used
  <2>12. Rest(g.in) = all
    <3>1. SubSeq(all, 1, Len(all)) = all
      BY <2>7
    <3> QED
      BY <2>9, <3>1 DEF Rest
  <2>13. Behind(g.in, g.wire, at)
    <3>1. at + Used(g.in) = k + n
      BY <1>1, <2>1, <2>11 DEF k
    <3>2. g.wire = b
      BY <1>4 DEF b
    <3> QED
      BY <2>3, <2>8, <2>12, <3>1, <3>2 DEF Behind
  <2> QED
    BY <1>1, <1>4, <2>1, <2>3, <2>10, <2>11, <2>13 DEF b
<1>5. CASE size <= Used(in)
  BY <1>2, <1>5 DEF GetInputData
<1>6. CASE ~(size <= Used(in))
  <2>1. \/ g.in = in /\ g.wire = wire /\ g.error \in {"SOCKET_ERROR_E", "MEMORY_E"}
        \/ \E n \in 0 .. Lesser(Missing(in, size), Len(wire)) :
              /\ g.in = Received(in, size, n) /\ g.wire = SubSeq(wire, n + 1, Len(wire))
              /\ g.error = IF n = Missing(in, size) THEN "none" ELSE "WANT_READ"
    BY <1>6 DEF GetInputData
  <2> QED
    BY <1>3, <1>4, <1>6, <2>1
<1> QED
  BY <1>5, <1>6

-----------------------------------------------------------------------------
(* The reader fetches a header, then a record.                             *)

LEMMA ReaderFacts ==
    ASSUME WriterInv, ReaderInv
    PROVE  /\ session \in Sessions /\ recs \in Seq(Records) /\ Len(recs) \in Nat
           /\ DOMAIN recs = 1 .. Len(recs)
           /\ wire \in Seq(WireBytes) /\ Stream \in Seq(WireBytes) /\ Len(Stream) \in Nat
           /\ wr.handed \in Seq(Byte) /\ Len(wr.handed) \in Nat
           /\ Start(Len(recs) + 1) = Len(Stream) /\ From(Len(recs) + 1) = Len(wr.handed)
           /\ \A r \in 1 .. Len(recs) + 1 : Start(r) \in Nat /\ From(r) \in Nat
           /\ \A r \in 1 .. Len(recs) :
                  /\ SizeOf(recs[r]) \in Nat /\ recs[r] \in Records
                  /\ SizeOf(recs[r]) = Len(recs[r].body) + IF recs[r].enc THEN PadSz ELSE 0
                  /\ Len(recs[r].body) \in Nat \ {0}
                  /\ Start(r + 1) = Start(r) + (RecHdr + SizeOf(recs[r]))
                  /\ From(r + 1) = From(r) + Len(PartOf(recs[r]))
                  /\ Fits(recs[r], From(r))
           /\ InOk(in) /\ Used(in) \in Nat
           /\ rd \in ReaderRecords /\ rd.cur \in 0 .. Len(recs)
           /\ Len(rd.got) \in Nat /\ Len(rd.pending) \in Nat /\ Taken(rd) \in Nat
           /\ RecHdr \in Nat \ {0} /\ PadSz \in Nat \ {0} /\ HsHdr \in Nat \ {0}
<1>1. /\ WriterTyped /\ Recorded /\ session \in Sessions
      /\ recs \in Seq(Records) /\ Len(recs) \in Nat
      /\ DOMAIN recs = 1 .. Len(recs) /\ wire \in Seq(WireBytes)
      /\ wr.handed \in Seq(Byte) /\ Len(wr.handed) \in Nat
  BY DEF WriterInv, WriterTyped, WriterRecords
<1>2. /\ InOk(in) /\ rd \in ReaderRecords /\ rd.cur \in 0 .. Len(recs)
      /\ Len(rd.got) \in Nat /\ Len(rd.pending) \in Nat /\ Taken(rd) \in Nat
  BY <1>1 DEF ReaderInv, ReaderOk, ReaderRecords, Taken
<1>3. Used(in) \in Nat
  BY <1>2, InRest
<1>4. ASSUME NEW r \in 1 .. Len(recs)
      PROVE  /\ recs[r] \in Records /\ Fits(recs[r], From(r))
             /\ Len(recs[r].body) \in Nat \ {0}
             /\ SizeOf(recs[r]) = Len(recs[r].body) + IF recs[r].enc THEN PadSz ELSE 0
  <2>1. recs[r] \in Records /\ Fits(recs[r], From(r))
    BY <1>1 DEF Recorded
  <2>2. recs[r].body \in Seq(Byte) /\ recs[r].body # <<>>
    BY <2>1 DEF Records, Fits
  <2> QED
    BY <2>1, <2>2 DEF SizeOf
<1> QED
  BY <1>1, <1>2, <1>3, <1>4, StreamTyped, FromTyped, RecordSizes

\* The first message is through if the handlers have had its bytes.
LEMMA KeysKnown ==
    ASSUME WriterInv, ReaderInv, Handlers(rd)
    PROVE  (rd.handled >= 1) <=> (Taken(rd) >= MsgLen(1))
<1>1. /\ session \in Sessions /\ Len(rd.got) \in Nat /\ Len(rd.pending) \in Nat
      /\ Taken(rd) = Len(rd.got) + Len(rd.pending) /\ Taken(rd) \in Nat
  BY ReaderFacts DEF Taken
<1>2. /\ NumHs \in Nat \ {0} /\ NumMsgs \in Nat /\ NumHs <= NumMsgs
      /\ 1 \in 1 .. NumMsgs /\ MsgLen(1) \in Nat \ {0} /\ Begin(1) = 0
      /\ rd.handled \in 0 .. NumHs
  BY <1>1, SessionTyped, ScriptTyped DEF Handlers
<1>3. CASE rd.handled = 0
  <2>1. Len(rd.got) = 0 /\ (rd.pendingSz = 0 => rd.pending = <<>>)
        /\ (rd.pendingSz # 0 => Len(rd.pending) \in 1 .. MsgLen(1) - 1)
    BY <1>2, <1>3 DEF Handlers
  <2>2. Len(rd.pending) < MsgLen(1)
    <3>1. Len(<<>>) = 0
      OBVIOUS
    <3> QED
      BY <1>2, <2>1, <3>1
  <2> QED
    BY <1>1, <1>2, <1>3, <2>1, <2>2
<1>4. CASE rd.handled >= 1
  <2> DEFINE m == rd.handled
  <2>1. m \in 1 .. NumMsgs /\ Begin(m + 1) \in Nat /\ Begin(m + 1) >= MsgLen(1)
    <3>1. m \in 1 .. NumMsgs /\ m + 1 \in 1 .. NumMsgs + 1
      BY <1>2, <1>4
    <3> QED
      BY <1>1, <3>1, BehindFirst, ScriptTyped
  <2>2. Len(rd.got) >= Begin(m + 1)
    <3>1. m = NumHs => Len(rd.got) >= Begin(NumHs + 1)
      BY <1>2 DEF Handlers
    <3>2. m # NumHs => Len(rd.got) = Begin(m + 1)
      BY <1>2 DEF Handlers
    <3> QED
      BY <2>1, <3>1, <3>2
  <2> DEFINE b == Begin(m + 1)
  <2>3. b \in Nat /\ b >= MsgLen(1) /\ Len(rd.got) >= b
    BY <2>1, <2>2
  <2> HIDE DEF b, m
  <2>4. Taken(rd) >= MsgLen(1)
    <3> DEFINE t == Taken(rd)
               g == Len(rd.got)
               p == Len(rd.pending)
               l == MsgLen(1)
    <3>1. t = g + p /\ g \in Nat /\ p \in Nat /\ l \in Nat /\ b \in Nat /\ b >= l /\ g >= b
      BY <1>1, <1>2, <2>3
    <3> HIDE DEF t, g, p, l
    <3>2. t >= l
      BY <3>1
    <3> QED
      BY <3>2 DEF t, l
  <2> QED
    BY <1>4, <2>4
<1> QED
  BY <1>2, <1>3, <1>4

\* The next record is as encrypted as the receiver expects, an alert excepted.
LEMMA KeysFit ==
    ASSUME WriterInv, ReaderInv, Handlers(rd), NEW r \in 1 .. Len(recs),
           From(r) = Taken(rd)
    PROVE  /\ recs[r].enc = Encrypted \/ ClosedInTheClear
           /\ recs[r].type = "handshake" => (recs[r].enc <=> rd.handled >= 1)
<1> DEFINE rec == recs[r]
<1>1. /\ rec \in Records /\ Fits(rec, From(r)) /\ r \in DOMAIN recs
      /\ session \in Sessions /\ Taken(rd) \in Nat
  BY ReaderFacts
<1>2. (rd.handled >= 1) <=> (From(r) >= MsgLen(1))
  BY KeysKnown
<1>3. Begin(NumHs + 1) >= MsgLen(1) /\ Begin(NumHs + 1) \in Nat /\ MsgLen(1) \in Nat
  <2>1. NumHs \in 1 .. NumMsgs /\ NumHs + 1 \in 1 .. NumMsgs + 1 /\ 1 \in 1 .. NumMsgs
    BY <1>1, SessionTyped
  <2> QED
    BY <1>1, <2>1, BehindFirst, ScriptTyped, SessionTyped
<1>4. rec.enc \in BOOLEAN /\ rec.type \in {"handshake", "application_data", "alert"}
  BY <1>1 DEF Records
<1>5. CASE rec.type = "handshake"
  BY <1>1, <1>2, <1>4, <1>5 DEF Fits, Encrypted
<1>6. CASE rec.type = "application_data"
  BY <1>1, <1>2, <1>3, <1>4, <1>6 DEF Fits, Encrypted
<1>7. CASE rec.type = "alert"
  BY <1>1, <1>2, <1>4, <1>7 DEF Fits, Encrypted, ClosedInTheClear
<1> QED
  BY <1>4, <1>5, <1>6, <1>7

\* A step of the reader keeps its invariant, and what it delivers is more.
ReaderMoves ==
    /\ ReaderOk(in', rd', wire')
    /\ wire' \in Seq(WireBytes)
    /\ Reads(rd)
    /\ rd'.got = rd.got \/ (Reads(rd') /\ Len(rd.got) <= Len(rd'.got))

\* The stream goes on where the reader is.
At(i, r) ==
    IF r.reply = "doProcessInit" THEN Start(r.cur + 1)
    ELSE IF r.reply = "getData" THEN Start(r.cur) + RecHdr
    ELSE Start(r.cur) + RecHdr + (i.idx - r.curStart)

LEMMA WhereItIs ==
    ASSUME WriterInv, ReaderInv, Reading
    PROVE  /\ Holds(in, rd, wire) /\ Behind(in, wire, At(in, rd)) /\ At(in, rd) \in Nat
           /\ rd.reply # "doProcessInit" => rd.cur \in 1 .. Len(recs) /\ rd.clearLen = 0
<1>1. Holds(in, rd, wire) /\ rd.clearLen \in Nat
  BY ReaderFacts DEF Reading, ReaderInv, ReaderOk, Reads, ReaderRecords
<1>2. CASE Between(in, rd, wire)
  <2>1. rd.cur + 1 \in 1 .. Len(recs) + 1
    BY ReaderFacts
  <2>2. Start(rd.cur + 1) \in Nat
    BY <2>1, ReaderFacts
  <2> QED
    BY <1>1, <1>2, <2>2 DEF Between, At
<1>3. rd.reply # "doProcessInit" => rd.clearLen = 0
  BY <1>1 DEF Holds, Clear
<1>4. CASE Fetches(in, rd, wire)
  <2>1. rd.cur \in 1 .. Len(recs) /\ rd.cur \in 1 .. Len(recs) + 1
    BY <1>4, ReaderFacts DEF Fetches
  <2>2. Start(rd.cur) \in Nat /\ RecHdr \in Nat
    BY <2>1, ReaderFacts
  <2> QED
    BY <1>1, <1>3, <1>4, <2>1, <2>2 DEF Fetches, At
<1>5. CASE Processes(in, rd, wire)
  <2> DEFINE d == in.idx - rd.curStart
  <2>1. rd.cur \in 1 .. Len(recs) /\ rd.cur \in 1 .. Len(recs) + 1
    BY <1>5, ReaderFacts DEF Processes
  <2>2. Start(rd.cur) \in Nat /\ RecHdr \in Nat /\ Len(recs[rd.cur].body) \in Nat
    BY <2>1, ReaderFacts
  <2>3. d \in 0 .. Len(recs[rd.cur].body) - 1
    BY <1>5 DEF Processes
  <2>4. Start(rd.cur) + RecHdr + d \in Nat
    <3> HIDE DEF d
    <3> QED
      BY <2>2, <2>3
  <2> QED
    BY <1>1, <1>3, <1>5, <2>1, <2>4 DEF Processes, At
<1> QED
  BY <1>1, <1>2, <1>4, <1>5 DEF Holds

LEMMA NotFetchedKeeps ==
    ASSUME WriterInv, ReaderInv, Reading, rd.clearLen = 0,
           rd.reply \in {"doProcessInit", "getData"}, NEW size \in Nat,
           size = IF rd.reply = "doProcessInit" THEN RecHdr ELSE rd.curSize,
           NEW g \in GetInputData(size), NotFetched(g)
    PROVE  ReaderMoves
<1>1. /\ InOk(in) /\ wire \in Seq(WireBytes) /\ Stream \in Seq(WireBytes)
      /\ rd \in ReaderRecords /\ Used(in) \in Nat /\ RecHdr \in Nat \ {0}
  BY ReaderFacts
<1>2. /\ Holds(in, rd, wire) /\ Behind(in, wire, At(in, rd)) /\ At(in, rd) \in Nat
      /\ rd.reply = "getData" => rd.cur \in 1 .. Len(recs)
  BY WhereItIs
<1>3. Used(in) <= size
  <2>1. One(in, rd)
    BY DEF ReaderInv, ReaderOk
  <2> QED
    BY <1>1, <2>1 DEF One
<1> DEFINE at == At(in, rd)
<1>4. at \in Nat /\ Behind(in, wire, at)
  BY <1>2
<1> HIDE DEF at
<1>5. /\ InOk(g.in) /\ g.wire \in Seq(WireBytes) /\ Behind(g.in, g.wire, at)
      /\ g.error \in {"none", "WANT_READ", "SOCKET_ERROR_E", "MEMORY_E"}
      /\ IF g.error = "none" THEN Used(g.in) = size ELSE Used(g.in) < size
  BY <1>1, <1>3, <1>4, FetchResult
<1>6. /\ wire' = g.wire /\ in' = g.in /\ g.error # "none"
      /\ rd' = [rd EXCEPT !.error = g.error]
  BY DEF NotFetched, Failed
<1>7. /\ rd' \in ReaderRecords /\ rd'.error = g.error /\ rd'.reply = rd.reply
      /\ rd'.cur = rd.cur /\ rd'.curSize = rd.curSize /\ rd'.curStart = rd.curStart
      /\ rd'.padSz = rd.padSz /\ rd'.pending = rd.pending /\ rd'.pendingSz = rd.pendingSz
      /\ rd'.clearAt = rd.clearAt /\ rd'.clearLen = rd.clearLen
      /\ rd'.handled = rd.handled /\ rd'.opened = rd.opened /\ rd'.got = rd.got
  <2>1. g.error \in Errors
    BY <1>5 DEF Errors
  <2> QED
    BY <1>1, <1>6, <2>1 DEF ReaderRecords
<1>8. One(in', rd')
  <2>1. Used(in') \in Nat /\ Used(in') < size
    <3> DEFINE i == g.in
    <3>1. InOk(i) /\ Used(i) < size
      BY <1>5, <1>6
    <3> HIDE DEF i
    <3>2. Used(i) \in Nat
      BY <3>1, InRest
    <3> QED
      BY <1>6, <3>1, <3>2 DEF i
  <2> QED
    BY <1>7, <2>1 DEF One
<1>9. Ends(rd')
  BY <1>5, <1>7 DEF Ends
<1>10. Holds(in', rd', wire')
  <2>1. Handlers(rd') /\ Pends(rd') /\ Clear(in', rd')
    BY <1>2, <1>7 DEF Holds, Handlers, Pends, Clear
  <2>2. Taken(rd') = Taken(rd)
    BY <1>7 DEF Taken
  <2>3. CASE rd.reply = "doProcessInit"
    <3>1. Between(in, rd, wire)
      BY <1>2, <2>3 DEF Holds, Fetches, Processes
    <3> QED
      BY <1>5, <1>6, <1>7, <2>1, <2>2, <2>3, <3>1 DEF Between, Holds, at, At
  <2>4. CASE rd.reply = "getData"
    <3>1. Fetches(in, rd, wire)
      BY <1>2, <2>4 DEF Holds, Between, Processes
    <3> QED
      BY <1>5, <1>6, <1>7, <2>1, <2>2, <2>4, <3>1 DEF Fetches, Holds, at, At
  <2> QED
    BY <2>3, <2>4
<1>11. IsPart(rd'.got) /\ Len(rd'.got) <= Len(wr.handed) /\ rd'.cur <= Len(recs)
  BY <1>7 DEF ReaderInv, ReaderOk
<1> QED
  BY <1>5, <1>6, <1>7, <1>8, <1>9, <1>10, <1>11 DEF ReaderMoves, ReaderOk, Reads, Reading

\* The bytes behind the last record are the next one's header.
LEMMA HeaderHere ==
    ASSUME WriterInv, ReaderInv, NEW i, InOk(i), Used(i) = RecHdr,
           NEW c \in 1 .. Len(recs) + 1, Occurs(Stream, Rest(i), Start(c))
    PROVE  /\ c \in 1 .. Len(recs)
           /\ {r \in DOMAIN recs : HeaderBytes(r) = Ahead(i, RecHdr)} = {c}
<1>1. /\ Rest(i) \in Seq(WireBytes) /\ Len(Rest(i)) = RecHdr
      /\ Ahead(i, RecHdr) = Rest(i)
  BY InRest
<1>2. /\ DOMAIN recs = 1 .. Len(recs) /\ Len(recs) \in Nat /\ recs \in Seq(Records)
      /\ RecHdr \in Nat \ {0} /\ Start(c) \in Nat
      /\ Len(Stream) \in Nat /\ Start(Len(recs) + 1) = Len(Stream)
  BY ReaderFacts
<1>3. /\ Start(c) + RecHdr <= Len(Stream)
      /\ \A j \in 1 .. RecHdr : Rest(i)[j] = Stream[Start(c) + j]
  BY <1>1 DEF Occurs
<1>4. c \in 1 .. Len(recs)
  BY <1>2, <1>3
<1>5. ASSUME NEW j \in 1 .. RecHdr PROVE Rest(i)[j] = <<c, j>>
  <2>1. j \in 1 .. RecHdr + SizeOf(recs[c])
    <3>1. SizeOf(recs[c]) \in Nat
      BY <1>4, ReaderFacts
    <3> QED
      BY <1>2, <3>1
  <2>2. Stream[Start(c) + j] = <<c, j>>
    BY <1>2, <1>4, <2>1, StreamAt
  <2> QED
    BY <1>3, <2>2
<1>6. Rest(i) = HeaderBytes(c)
  <2> DEFINE h == HeaderBytes(c)
  <2>1. /\ h \in Seq(WireBytes) /\ Len(h) = RecHdr
        /\ \A j \in 1 .. RecHdr : h[j] = <<c, j>>
    <3>1. \A j \in 1 .. RecHdr : <<c, j>> \in WireBytes
      BY <1>2, <1>4 DEF WireBytes
    <3> QED
      BY <1>2, <3>1 DEF HeaderBytes
  <2> HIDE DEF h
  <2>2. Rest(i) = h
    BY <1>1, <1>5, <2>1, SeqEqual
  <2> QED
    BY <2>2 DEF h
<1>7. ASSUME NEW r \in 1 .. Len(recs), HeaderBytes(r) = HeaderBytes(c) PROVE r = c
  <2>1. 1 \in 1 .. RecHdr
    BY <1>2
  <2>2. HeaderBytes(r)[1] = <<r, 1>> /\ HeaderBytes(c)[1] = <<c, 1>>
    BY <2>1 DEF HeaderBytes
  <2>3. <<r, 1>> = <<c, 1>>
    BY <1>7, <2>2
  <2> QED
    BY <2>3
<1> QED
  BY <1>1, <1>2, <1>4, <1>6, <1>7

LEMMA HeaderKeeps ==
    ASSUME WriterInv, ReaderInv, Reading, rd.reply = "doProcessInit", rd.clearLen = 0,
           NEW g \in GetInputData(RecHdr), Fetched(g), ParseHeader(g.in)
    PROVE  ReaderMoves
<1>1. /\ InOk(in) /\ wire \in Seq(WireBytes) /\ Stream \in Seq(WireBytes)
      /\ rd \in ReaderRecords /\ Used(in) \in Nat /\ RecHdr \in Nat \ {0}
      /\ Len(recs) \in Nat /\ rd.cur \in 0 .. Len(recs)
  BY ReaderFacts
<1>2. Holds(in, rd, wire) /\ Between(in, rd, wire)
  BY WhereItIs DEF Holds, Fetches, Processes
<1> DEFINE c == rd.cur + 1
           i == g.in
           at == Start(c)
<1>3. c \in 1 .. Len(recs) + 1 /\ c \in Nat /\ at \in Nat /\ c > 0 /\ c - 1 = rd.cur
  <2>1. c \in 1 .. Len(recs) + 1 /\ c \in Nat /\ c > 0 /\ c - 1 = rd.cur
    BY <1>1
  <2> HIDE DEF c
  <2>2. Start(c) \in Nat
    BY <2>1, ReaderFacts
  <2> QED
    BY <2>1, <2>2
<1>4. From(c) = Taken(rd) /\ Behind(in, wire, at) /\ Handlers(rd) /\ Pends(rd) /\ rd.opened = c - 1
  <2>1. Taken(rd) + 0 = Taken(rd)
    BY ReaderFacts
  <2> QED
    BY <1>2, <1>3, <2>1 DEF Holds, Between
<1> HIDE DEF c, at
<1>5. /\ InOk(i) /\ g.wire \in Seq(WireBytes) /\ Behind(i, g.wire, at)
      /\ Used(i) = RecHdr /\ wire' = g.wire
  <2>1. Used(in) <= RecHdr
    BY <1>1 DEF ReaderInv, ReaderOk, One
  <2>2. /\ InOk(g.in) /\ g.wire \in Seq(WireBytes) /\ Behind(g.in, g.wire, at)
        /\ (g.error = "none" => Used(g.in) = RecHdr)
    BY <1>1, <1>3, <1>4, <2>1, FetchResult
  <2> QED
    BY <2>2 DEF Fetched
<1> DEFINE here == {r \in DOMAIN recs : HeaderBytes(r) = Ahead(i, RecHdr)}
           expected == {r \in here : recs[r].enc = Encrypted}
<1>6. in' = IF here = {} THEN i ELSE [i EXCEPT !.idx = @ + RecHdr]
  BY DEF ParseHeader
<1>7. rd' = IF expected = {} THEN [rd EXCEPT !.error = "PARSE_ERROR"]
            ELSE LET r == CHOOSE x \in expected : TRUE
                 IN  [rd EXCEPT !.cur = r, !.curSize = SizeOf(recs[r]),
                                !.reply = "getData", !.error = "none"]
  BY DEF ParseHeader
<1> HIDE DEF i
<1>8. c \in 1 .. Len(recs) /\ here = {c}
  <2>1. Occurs(Stream, Rest(i), Start(c))
    BY <1>5 DEF Behind, at
  <2> QED
    BY <1>3, <1>5, <2>1, HeaderHere
<1>9. /\ SizeOf(recs[c]) \in Nat /\ at + RecHdr \in Nat
      /\ recs[c].enc = Encrypted \/ ClosedInTheClear
  BY <1>1, <1>3, <1>4, <1>8, ReaderFacts, KeysFit
<1>10. /\ in' \in [buf : Seq(WireBytes), idx : Nat, size : Nat]
       /\ in'.buf = i.buf /\ in'.idx = Len(i.buf) /\ in'.size = i.size
  <2> DEFINE x == i.idx + RecHdr
  <2>1. x \in Nat /\ x = Len(i.buf)
    BY <1>1, <1>5 DEF InOk, Used
  <2>2. in' = [i EXCEPT !.idx = x]
    BY <1>6, <1>8
  <2> HIDE DEF x
  <2> QED
    BY <1>5, <2>1, <2>2 DEF InOk
<1>11. InOk(in') /\ Used(in') = 0 /\ Rest(in') = <<>>
  <2>1. i.buf \in Seq(WireBytes) /\ Len(i.buf) <= i.size
    BY <1>5 DEF InOk
  <2>2. InOk(in')
    BY <1>10, <2>1 DEF InOk
  <2>3. Used(in') = 0
    BY <1>10, <2>1 DEF Used
  <2>4. Rest(in') \in Seq(WireBytes) /\ Len(Rest(in')) = 0
    BY <2>2, <2>3, InRest
  <2> QED
    BY <2>2, <2>3, <2>4
<1>12. CASE expected = {}
  <2>1. rd' = [rd EXCEPT !.error = "PARSE_ERROR"]
    BY <1>7, <1>12
  <2>2. /\ rd' \in ReaderRecords /\ rd'.error = "PARSE_ERROR" /\ rd'.got = rd.got
        /\ rd'.cur = rd.cur /\ rd'.reply = "doProcessInit"
    BY <1>1, <2>1 DEF ReaderRecords, Errors
  <2>3. recs[c].enc # Encrypted
    BY <1>8, <1>12
  <2>4. Ends(rd') /\ One(in', rd') /\ ~Reads(rd')
    BY <1>1, <1>9, <1>11, <2>2, <2>3 DEF Ends, One, Reads
  <2> QED
    BY <1>5, <1>11, <2>2, <2>4 DEF ReaderMoves, ReaderOk, ReaderInv, Reading, Reads
<1>13. CASE expected # {}
  <2>1. expected = {c}
    BY <1>8, <1>13
  <2> DEFINE sz == SizeOf(recs[c])
  <2>2. rd' = [rd EXCEPT !.cur = c, !.curSize = sz, !.reply = "getData", !.error = "none"]
    <3>1. (CHOOSE x \in {c} : TRUE) = c
      OBVIOUS
    <3>2. expected # {} /\ (CHOOSE x \in expected : TRUE) = c
      BY <2>1, <3>1
    <3> HIDE DEF expected
    <3> QED
      BY <1>7, <3>2
  <2>3. sz \in Nat
    BY <1>9
  <2> HIDE DEF sz
  <2>4. /\ rd' \in ReaderRecords /\ rd'.error = "none" /\ rd'.reply = "getData"
        /\ rd'.cur = c /\ rd'.curSize = sz /\ rd'.curStart = rd.curStart
        /\ rd'.padSz = rd.padSz /\ rd'.pending = rd.pending /\ rd'.pendingSz = rd.pendingSz
        /\ rd'.clearAt = rd.clearAt /\ rd'.clearLen = rd.clearLen
        /\ rd'.handled = rd.handled /\ rd'.opened = rd.opened /\ rd'.got = rd.got
    BY <1>1, <1>3, <2>2, <2>3 DEF ReaderRecords, Errors
  <2>5. Handlers(rd') /\ Pends(rd') /\ Clear(in', rd') /\ Taken(rd') = Taken(rd)
    BY <1>4, <2>4 DEF Handlers, Pends, Clear, Taken
  <2>6. Behind(in', wire', at + RecHdr)
    <3> DEFINE k == at + RecHdr
    <3>1. k \in Nat /\ Fed(g.wire, k) /\ k + 0 = k
      BY <1>5, <1>9 DEF Behind
    <3> HIDE DEF k
    <3>2. Fed(wire', k + Used(in'))
      BY <1>5, <1>11, <3>1
    <3>3. k <= Len(Stream)
      <4>1. Len(g.wire) \in Nat /\ Len(Stream) \in Nat
        BY <1>5, ReaderFacts
      <4> QED
        BY <3>1, <4>1 DEF Fed, Occurs
    <3>4. Occurs(Stream, <<>>, k)
      <4>1. Len(<<>>) = 0 /\ k + Len(<<>>) = k
        BY <3>1
      <4> QED
        BY <3>3, <4>1 DEF Occurs
    <3>5. Behind(in', wire', k)
      BY <1>11, <3>2, <3>4 DEF Behind
    <3> QED
      BY <3>5 DEF k
  <2>7. Fetches(in', rd', wire')
    BY <1>3, <1>4, <2>4, <2>5, <2>6 DEF Fetches, sz, at
  <2>8. One(in', rd') /\ Ends(rd')
    BY <1>11, <2>3, <2>4 DEF One, Ends
  <2>9. IsPart(rd'.got) /\ Len(rd'.got) <= Len(wr.handed) /\ rd'.cur <= Len(recs)
    BY <1>1, <1>8, <2>4 DEF ReaderInv, ReaderOk
  <2> QED
    BY <1>5, <1>11, <2>4, <2>5, <2>7, <2>8, <2>9
       DEF ReaderMoves, ReaderOk, Holds, Reading, Reads
<1> QED
  BY <1>12, <1>13

LEMMA GetHeaderKeeps ==
    ASSUME WriterInv, ReaderInv, GetHeader
    PROVE  ReaderMoves
<1>1. /\ Reading /\ rd.reply = "doProcessInit" /\ (rd.clearLen = 0 \/ Used(in) > 0)
      /\ RecHdr \in Nat /\ rd.clearLen \in Nat
  BY ReaderFacts DEF GetHeader, ReaderRecords
<1>2. rd.clearLen = 0
  BY <1>1, WhereItIs DEF Holds, Clear
<1>3. PICK g \in GetInputData(RecHdr) : (Fetched(g) /\ ParseHeader(g.in)) \/ NotFetched(g)
  BY DEF GetHeader
<1>4. CASE Fetched(g) /\ ParseHeader(g.in)
  BY <1>1, <1>2, <1>4, HeaderKeeps
<1>5. CASE NotFetched(g)
  BY <1>1, <1>2, <1>5, NotFetchedKeeps
<1> QED
  BY <1>3, <1>4, <1>5

\* The bytes behind a record's header are its payload.
LEMMA PayloadHere ==
    ASSUME WriterInv, ReaderInv, NEW i, InOk(i), NEW c \in 1 .. Len(recs),
           Used(i) = SizeOf(recs[c]), Occurs(Stream, Rest(i), Start(c) + RecHdr)
    PROVE  Ahead(i, SizeOf(recs[c])) = PayloadBytes(c)
<1> DEFINE sz == SizeOf(recs[c])
           p == PayloadBytes(c)
<1>1. /\ Rest(i) \in Seq(WireBytes) /\ Len(Rest(i)) = sz /\ Ahead(i, sz) = Rest(i)
  BY InRest
<1>2. /\ recs \in Seq(Records) /\ sz \in Nat /\ RecHdr \in Nat /\ Start(c) \in Nat /\ c \in Nat
  <2>1. c \in 1 .. Len(recs) + 1
    OBVIOUS
  <2> QED
    BY <2>1, ReaderFacts
<1>3. /\ p \in Seq(WireBytes) /\ Len(p) = sz
      /\ \A j \in 1 .. sz : p[j] = <<c, RecHdr + j>>
  <2>1. \A j \in 1 .. sz : <<c, RecHdr + j>> \in WireBytes
    BY <1>2 DEF WireBytes
  <2> QED
    BY <1>2, <2>1 DEF PayloadBytes
<1>4. ASSUME NEW j \in 1 .. sz PROVE Rest(i)[j] = p[j]
  <2>1. Rest(i)[j] = Stream[Start(c) + RecHdr + j]
    BY <1>1 DEF Occurs
  <2>2. RecHdr + j \in 1 .. RecHdr + SizeOf(recs[c])
        /\ Start(c) + RecHdr + j = Start(c) + (RecHdr + j)
    BY <1>2
  <2>3. Stream[Start(c) + (RecHdr + j)] = <<c, RecHdr + j>>
    BY <1>2, <2>2, StreamAt
  <2> QED
    BY <1>3, <2>1, <2>2, <2>3
<1> HIDE DEF sz, p
<1>5. Rest(i) = p
  BY <1>1, <1>3, <1>4, SeqEqual
<1> QED
  BY <1>1, <1>5 DEF sz, p

LEMMA RecordKeeps ==
    ASSUME WriterInv, ReaderInv, Reading, rd.reply = "getData",
           NEW g \in GetInputData(rd.curSize), Fetched(g), OpenRecord(g.in)
    PROVE  ReaderMoves
<1> DEFINE c == rd.cur
           i == g.in
           at == Start(c) + RecHdr
           sz == SizeOf(recs[c])
<1>1. /\ InOk(in) /\ wire \in Seq(WireBytes) /\ Stream \in Seq(WireBytes)
      /\ rd \in ReaderRecords /\ Used(in) \in Nat /\ RecHdr \in Nat \ {0} /\ PadSz \in Nat
      /\ Len(recs) \in Nat /\ MaxFragment \in Nat /\ DOMAIN recs = 1 .. Len(recs)
  BY ReaderFacts, RecordSizes
<1>2. Holds(in, rd, wire) /\ Fetches(in, rd, wire) /\ rd.clearLen = 0 /\ c \in 1 .. Len(recs)
  BY WhereItIs DEF Holds, Between, Processes
<1>3. /\ at \in Nat /\ sz \in Nat /\ Len(recs[c].body) \in Nat \ {0} /\ c \in Nat
      /\ Start(c) \in Nat /\ Start(c) + RecHdr + 0 = at
      /\ recs[c].enc \in BOOLEAN /\ Fits(recs[c], From(c)) /\ From(c) \in Nat
  <2>1. c \in 1 .. Len(recs) + 1
    BY <1>1, <1>2
  <2>2. recs[c] \in Records /\ Start(c) \in Nat /\ From(c) \in Nat
    BY <1>2, <2>1, ReaderFacts
  <2>3. sz \in Nat /\ Len(recs[c].body) \in Nat \ {0} /\ Fits(recs[c], From(c))
        /\ recs[c].enc \in BOOLEAN
    BY <1>2, <2>2, ReaderFacts DEF Records
  <2>4. at \in Nat /\ Start(c) + RecHdr + 0 = at
    <3> HIDE DEF c
    <3> QED
      BY <1>1, <2>2
  <2> HIDE DEF at, sz
  <2> QED
    BY <1>2, <2>2, <2>3, <2>4
<1>4. /\ Behind(in, wire, at) /\ Handlers(rd) /\ Pends(rd) /\ From(c) = Taken(rd)
      /\ rd.opened = c - 1 /\ rd.curSize = sz
  BY <1>2 DEF Holds, Fetches
<1> HIDE DEF at, sz
<1>5. /\ InOk(i) /\ g.wire \in Seq(WireBytes) /\ Behind(i, g.wire, at)
      /\ Used(i) = sz /\ wire' = g.wire /\ in' = i
  <2>1. Used(in) <= sz /\ g \in GetInputData(sz)
    BY <1>4 DEF ReaderInv, ReaderOk, One
  <2>2. /\ InOk(g.in) /\ g.wire \in Seq(WireBytes) /\ Behind(g.in, g.wire, at)
        /\ (g.error = "none" => Used(g.in) = sz)
    BY <1>1, <1>3, <1>4, <2>1, FetchResult
  <2> QED
    BY <2>2 DEF Fetched, OpenRecord
<1> DEFINE tooLong == recs[c].enc /\ Len(recs[c].body) > MaxFragment
           opens == /\ Ahead(i, rd.curSize) = PayloadBytes(c)
                    /\ recs[c].enc => c = rd.opened + 1
           pad == IF recs[c].enc THEN PadSz ELSE 0
           x == i.idx
<1>6. IF tooLong THEN Failed("BUFFER_ERROR")
      ELSE IF ~opens THEN Failed("DECRYPT_ERROR")
      ELSE rd' = [rd EXCEPT !.opened = @ + 1, !.padSz = pad, !.curStart = x,
                            !.reply = "runProcessingOneMessage", !.error = "none"]
  BY DEF OpenRecord
<1>7. opens
  <2>1. Occurs(Stream, Rest(i), Start(c) + RecHdr) /\ Used(i) = SizeOf(recs[c])
    BY <1>5 DEF Behind, at, sz
  <2>2. Ahead(i, SizeOf(recs[c])) = PayloadBytes(c)
    <3> HIDE DEF i, c
    <3> QED
      BY <1>2, <1>5, <2>1, PayloadHere
  <2> QED
    BY <1>3, <1>4, <2>2 DEF sz
<1>8. pad \in Nat /\ x \in Nat /\ x + sz = x + Used(i)
  BY <1>1, <1>3, <1>5 DEF InOk
<1> HIDE DEF opens, pad, x, i
<1>9. CASE tooLong
  <2>1. rd' = [rd EXCEPT !.error = "BUFFER_ERROR"]
    BY <1>6, <1>9 DEF Failed
  <2>2. /\ rd' \in ReaderRecords /\ rd'.error = "BUFFER_ERROR" /\ rd'.got = rd.got
        /\ rd'.cur = rd.cur /\ rd'.reply = "getData" /\ rd'.curSize = sz
    BY <1>1, <1>4, <2>1 DEF ReaderRecords, Errors
  <2>3. ~FragmentsFit
    BY <1>1, <1>2, <1>3, <1>9 DEF Fits, FragmentsFit
  <2>4. Ends(rd') /\ One(in', rd') /\ ~Reads(rd')
    BY <1>3, <1>5, <2>2, <2>3 DEF Ends, One, Reads
  <2> QED
    BY <1>5, <2>2, <2>4 DEF ReaderMoves, ReaderOk, ReaderInv, Reading, Reads
<1>10. CASE ~tooLong
  <2> DEFINE n == rd.opened + 1
  <2>1. n = c /\ n \in Nat
    BY <1>3, <1>4
  <2>2. rd' = [rd EXCEPT !.opened = n, !.padSz = pad, !.curStart = x,
                         !.reply = "runProcessingOneMessage", !.error = "none"]
    BY <1>6, <1>7, <1>10
  <2> HIDE DEF n, tooLong
  <2>4. /\ rd' \in ReaderRecords /\ rd'.error = "none" /\ rd'.reply = "runProcessingOneMessage"
        /\ rd'.cur = c /\ rd'.curSize = sz /\ rd'.curStart = x
        /\ rd'.padSz = pad /\ rd'.pending = rd.pending /\ rd'.pendingSz = rd.pendingSz
        /\ rd'.clearAt = rd.clearAt /\ rd'.clearLen = rd.clearLen
        /\ rd'.handled = rd.handled /\ rd'.opened = c /\ rd'.got = rd.got
    BY <1>1, <1>4, <1>8, <2>1, <2>2 DEF ReaderRecords, Errors
  <2>5. Handlers(rd') /\ Pends(rd') /\ Clear(in', rd') /\ Taken(rd') = Taken(rd)
    BY <1>2, <1>4, <2>4 DEF Handlers, Pends, Clear, Taken
  <2>6. Processes(in', rd', wire')
    <3>1. in'.idx - rd'.curStart = 0
      BY <1>5, <1>8, <2>4 DEF x
    <3>2. Behind(in', wire', Start(c) + RecHdr + 0)
      BY <1>3, <1>5
    <3>3. 0 \in 0 .. Len(recs[c].body) - 1 /\ c > 0 /\ From(c) + 0 = Taken(rd')
      BY <1>1, <1>2, <1>3, <1>4, <2>5
    <3> HIDE DEF c
    <3> QED
      BY <2>4, <3>1, <3>2, <3>3 DEF Processes, pad, sz
  <2>8. One(in', rd') /\ Ends(rd')
    BY <1>5, <1>8, <2>4 DEF One, Ends, x
  <2>9. IsPart(rd'.got) /\ Len(rd'.got) <= Len(wr.handed) /\ rd'.cur <= Len(recs)
    BY <1>1, <1>2, <2>4 DEF ReaderInv, ReaderOk
  <2> QED
    BY <1>5, <2>4, <2>5, <2>6, <2>8, <2>9
       DEF ReaderMoves, ReaderOk, Holds, Reading, Reads
<1> QED
  BY <1>9, <1>10

LEMMA GetDataKeeps ==
    ASSUME WriterInv, ReaderInv, GetData
    PROVE  ReaderMoves
<1>1. Reading /\ rd.reply = "getData" /\ rd.curSize \in Nat
  BY ReaderFacts DEF GetData, ReaderRecords
<1>2. rd.clearLen = 0
  BY <1>1, WhereItIs
<1>3. PICK g \in GetInputData(rd.curSize) :
          (Fetched(g) /\ OpenRecord(g.in)) \/ NotFetched(g)
  BY DEF GetData
<1>4. CASE Fetched(g) /\ OpenRecord(g.in)
  BY <1>1, <1>4, RecordKeeps
<1>5. CASE NotFetched(g)
  BY <1>1, <1>2, <1>5, NotFetchedKeeps
<1> QED
  BY <1>3, <1>4, <1>5

-----------------------------------------------------------------------------
(* The reader inside a record.                                             *)

Offset == in.idx - rd.curStart

\* A record's part of the script.
LEMMA PartAt ==
    ASSUME WriterInv, ReaderInv, NEW c \in 1 .. Len(recs), recs[c].type # "alert"
    PROVE  /\ From(c + 1) = From(c) + Len(recs[c].body) /\ From(c + 1) <= Len(wr.handed)
           /\ From(c) \in Nat
           /\ \A k \in 1 .. Len(recs[c].body) :
                  /\ recs[c].body[k] = Script[From(c) + k]
                  /\ \A b : b = <<c, RecHdr + k>> => Content(b) = Script[From(c) + k]
<1> DEFINE body == recs[c].body
<1>1. /\ recs \in Seq(Records) /\ Len(recs) \in Nat /\ Len(wr.handed) \in Nat
      /\ Recorded /\ c \in 1 .. Len(recs) + 1 /\ c + 1 \in 1 .. Len(recs) + 1
      /\ RecHdr \in Nat
  BY ReaderFacts DEF WriterInv
<1>2. PartOf(recs[c]) = body
  BY DEF PartOf
<1>3. /\ PartsOf(recs) \in Seq(Seq(Byte)) /\ Len(PartsOf(recs)) = Len(recs)
      /\ PartsOf(recs)[c] = body
  BY <1>1, <1>2, PartsTyped
<1>4. From(c + 1) = From(c) + Len(body) /\ From(c) \in Nat /\ From(c + 1) \in Nat
  BY <1>1, <1>2, ReaderFacts
<1>5. From(c + 1) <= Len(wr.handed)
  <2> DEFINE n == c + 1
             l == Len(recs) + 1
             ps == PartsOf(recs)
  <2>1. n \in 1 .. Len(ps) + 1 /\ l \in n .. Len(ps) + 1
    BY <1>1, <1>3
  <2> HIDE DEF n, l, ps
  <2>2. Before(ps, n) <= Before(ps, l)
    BY <1>3, <2>1, BeforeMonotone DEF ps
  <2>3. From(n) <= From(l)
    BY <2>2 DEF From, ps
  <2>4. From(l) = Len(wr.handed)
    BY ReaderFacts DEF l
  <2> QED
    BY <2>3, <2>4 DEF n
<1>6. ASSUME NEW k \in 1 .. Len(body)
      PROVE  /\ body[k] = Script[From(c) + k]
             /\ \A b : b = <<c, RecHdr + k>> => Content(b) = Script[From(c) + k]
  <2> DEFINE ps == PartsOf(recs)
  <2>1. c \in 1 .. Len(ps) /\ k \in 1 .. Len(ps[c]) /\ ps \in Seq(Seq(Byte)) /\ ps[c] = body
    BY <1>1, <1>3
  <2> HIDE DEF ps
  <2>2. /\ Before(ps, c) + k \in 1 .. Len(FlattenSeq(ps))
        /\ FlattenSeq(ps)[Before(ps, c) + k] = ps[c][k]
    BY <2>1, FlattenedAt
  <2>3. wr.handed = FlattenSeq(ps) /\ Before(ps, c) = From(c)
    BY <1>1 DEF Recorded, From, ps
  <2>4. From(c) + k \in 1 .. Len(wr.handed) /\ wr.handed[From(c) + k] = body[k]
    BY <2>1, <2>2, <2>3
  <2>5. body[k] = Script[From(c) + k]
    BY <2>4 DEF WriterInv, IsPart
  <2>6. ASSUME NEW b, b = <<c, RecHdr + k>> PROVE Content(b) = body[k]
    <3>1. b[1] = c /\ b[2] - RecHdr = k
      BY <1>1, <2>6
    <3>2. k \in DOMAIN body
      <4>1. recs[c] \in Records
        BY <1>1
      <4>2. body \in Seq(Byte)
        BY <4>1 DEF Records
      <4> QED
        BY <4>2
    <3> QED
      BY <3>1, <3>2 DEF Content
  <2> QED
    BY <2>5, <2>6
<1> QED
  BY <1>4, <1>5, <1>6

LEMMA InRecord ==
    ASSUME WriterInv, ReaderInv, Reading, rd.reply = "runProcessingOneMessage"
    PROVE  /\ rd.cur \in 1 .. Len(recs) /\ rd.opened = rd.cur /\ rd.clearLen = 0
           /\ rd.curSize = SizeOf(recs[rd.cur])
           /\ rd.padSz = IF recs[rd.cur].enc THEN PadSz ELSE 0
           /\ rd.padSz \in Nat /\ in.idx \in Nat /\ Offset \in Nat
           /\ in.idx = rd.curStart + Offset
           /\ InputLength \in Nat \ {0}
           /\ Offset + InputLength = Len(recs[rd.cur].body)
           /\ Used(in) = InputLength + rd.padSz
           /\ Len(in.buf) = in.idx + InputLength + rd.padSz
           /\ rd.curSize = Offset + InputLength + rd.padSz
           /\ Offset # 0 => recs[rd.cur].type = "handshake"
           /\ From(rd.cur) + Offset = Taken(rd)
           /\ Behind(in, wire, Start(rd.cur) + RecHdr + Offset)
           /\ Handlers(rd) /\ Pends(rd)
           /\ \A j \in 1 .. Used(in) :
                  in.buf[in.idx + j] = <<rd.cur, RecHdr + (Offset + j)>>
<1> DEFINE c == rd.cur
           n == Len(recs[c].body)
<1>1. /\ Holds(in, rd, wire) /\ Processes(in, rd, wire) /\ c \in 1 .. Len(recs)
      /\ rd.clearLen = 0
  BY WhereItIs DEF Holds, Between, Fetches
<1>2. /\ InOk(in) /\ PadSz \in Nat /\ SizeOf(recs[c]) = n + IF recs[c].enc THEN PadSz ELSE 0
      /\ n \in Nat /\ rd.curStart \in Nat /\ rd.padSz \in Nat /\ Start(c) \in Nat
      /\ RecHdr \in Nat /\ recs \in Seq(Records) /\ SizeOf(recs[c]) \in Nat
  <2>1. c \in 1 .. Len(recs) + 1
    BY <1>1, ReaderFacts
  <2> QED
    BY <1>1, <2>1, ReaderFacts DEF ReaderRecords
<1>3. /\ rd.padSz = IF recs[c].enc THEN PadSz ELSE 0
      /\ Offset \in 0 .. n - 1 /\ rd.curSize = SizeOf(recs[c])
      /\ Offset # 0 => recs[c].type = "handshake"
      /\ From(c) + Offset = Taken(rd)
      /\ Behind(in, wire, Start(c) + RecHdr + Offset)
  BY <1>1 DEF Processes, Offset
<1>4. in.idx \in Nat /\ Len(in.buf) \in Nat /\ Used(in) = Len(in.buf) - in.idx
      /\ in.idx = rd.curStart + Offset
  BY <1>2 DEF InOk, Used, Offset
<1>5. in.idx + Used(in) = rd.curStart + rd.curSize
  BY DEF ReaderInv, ReaderOk, One
<1>6. rd.curSize = n + rd.padSz
  BY <1>2, <1>3
<1> DEFINE l == n - Offset
<1>7. l \in Nat \ {0} /\ Offset + l = n /\ Offset \in Nat
  BY <1>2, <1>3
<1>8. InputLength = l /\ Used(in) = l + rd.padSz /\ Len(in.buf) = in.idx + l + rd.padSz
      /\ rd.curSize = Offset + l + rd.padSz /\ Offset + Used(in) = SizeOf(recs[c])
  <2> DEFINE o == Offset
             u == Used(in)
             p == rd.padSz
             x == in.idx
             s == rd.curStart
             b == Len(in.buf)
             z == rd.curSize
  <2>1. /\ o \in Nat /\ u = b - x /\ x = s + o /\ x + u = s + z /\ z = n + p /\ o + l = n
        /\ n \in Nat /\ l \in Nat /\ p \in Nat /\ x \in Nat /\ s \in Nat /\ b \in Nat
    BY <1>2, <1>4, <1>5, <1>6, <1>7
  <2> HIDE DEF o, n, l, u, p, x, s, b, z
  <2>2. u = l + p /\ u - p = l /\ b = x + l + p /\ z = o + l + p /\ o + u = z
    BY <2>1
  <2>3. z = SizeOf(recs[c])
    BY <1>3 DEF z
  <2> QED
    BY <2>2, <2>3 DEF InputLength, o, u, p, x, b, z
<1>9. ASSUME NEW j \in 1 .. Used(in)
      PROVE  in.buf[in.idx + j] = <<c, RecHdr + (Offset + j)>>
  <2> DEFINE k == RecHdr + (Offset + j)
             o == Offset
  <2>1. Rest(in)[j] = in.buf[in.idx + j] /\ Len(Rest(in)) = Used(in)
    BY <1>2, InRest
  <2>2. Rest(in)[j] = Stream[Start(c) + RecHdr + Offset + j]
    BY <1>3, <2>1 DEF Behind, Occurs
  <2>3. k \in 1 .. RecHdr + SizeOf(recs[c])
        /\ Start(c) + RecHdr + Offset + j = Start(c) + k
    <3> DEFINE sz == SizeOf(recs[c])
               u == Used(in)
               s == Start(c)
    <3>1. o \in Nat /\ j \in 1 .. u /\ u \in Nat /\ o + u = sz /\ sz \in Nat /\ s \in Nat
      <4>1. Used(in) \in Nat
        BY ReaderFacts
      <4> QED
        BY <1>2, <1>7, <1>8, <4>1
    <3> HIDE DEF sz, u, s, o
    <3>2. RecHdr + (o + j) \in 1 .. RecHdr + sz /\ s + RecHdr + o + j = s + (RecHdr + (o + j))
      BY <1>2, <3>1
    <3> QED
      BY <3>2 DEF sz, s, o
  <2> HIDE DEF k, c
  <2>4. Stream[Start(c) + k] = <<c, k>>
    BY <1>1, <1>2, <2>3, StreamAt
  <2> QED
    BY <2>1, <2>2, <2>3, <2>4 DEF k, c
<1>10. Handlers(rd) /\ Pends(rd) /\ rd.opened = c
  BY <1>1 DEF Holds, Processes
<1>11. InputLength \in Nat \ {0} /\ Offset + InputLength = n
  BY <1>7, <1>8
<1>12. /\ Used(in) = InputLength + rd.padSz /\ Len(in.buf) = in.idx + InputLength + rd.padSz
       /\ rd.curSize = Offset + InputLength + rd.padSz
  BY <1>8
<1> QED
  BY <1>1, <1>2, <1>3, <1>4, <1>7, <1>9, <1>10, <1>11, <1>12

\* A session that is still in the same record and has got no less.
Follows(r) ==
    /\ r \in ReaderRecords
    /\ r.reply = rd.reply /\ r.cur = rd.cur /\ r.opened = rd.opened
    /\ r.curSize = rd.curSize /\ r.curStart = rd.curStart /\ r.padSz = rd.padSz
    /\ r.error = rd.error
    /\ Handlers(r) /\ Pends(r) /\ IsPart(r.got)
    /\ Len(rd.got) <= Len(r.got) /\ Len(r.got) <= Len(wr.handed)

\* The reader has come to the end of the record.
LEMMA RecordDone ==
    ASSUME WriterInv, ReaderInv, Reading, rd.reply = "runProcessingOneMessage",
           wire' = wire, NEW r, Follows(r), recs[rd.cur].type # "alert",
           Taken(r) + r.clearLen = Taken(rd) + InputLength,
           r.clearLen > 0 => /\ r.clearLen = InputLength /\ r.clearAt = in.idx
                             /\ recs[rd.cur].type = "application_data",
           NEW i, InOk(i), i.buf = in.buf, Used(i) = 0,
           in' = Shrunk(i, r.clearLen), rd' = [r EXCEPT !.reply = "doProcessInit"]
    PROVE  ReaderMoves
<1> DEFINE c == rd.cur
<1>1. /\ c \in 1 .. Len(recs) /\ rd.opened = c /\ InputLength \in Nat \ {0}
      /\ Offset \in Nat /\ Offset + InputLength = Len(recs[c].body)
      /\ Used(in) = InputLength + rd.padSz /\ rd.padSz \in Nat
      /\ rd.curSize = Offset + InputLength + rd.padSz /\ rd.curSize = SizeOf(recs[c])
      /\ Offset # 0 => recs[c].type = "handshake"
      /\ From(c) + Offset = Taken(rd)
      /\ Behind(in, wire, Start(c) + RecHdr + Offset)
      /\ \A j \in 1 .. Used(in) : in.buf[in.idx + j] = <<c, RecHdr + (Offset + j)>>
      /\ Len(in.buf) = in.idx + InputLength + rd.padSz /\ in.idx \in Nat
  BY InRecord
<1>2. /\ r \in ReaderRecords /\ r.cur = c /\ r.opened = c /\ r.error = rd.error
      /\ Handlers(r) /\ Pends(r) /\ IsPart(r.got)
      /\ Len(rd.got) <= Len(r.got) /\ Len(r.got) <= Len(wr.handed)
      /\ r.clearLen \in Nat /\ Taken(r) \in Nat
  BY <1>1 DEF Follows, ReaderRecords, Taken
<1>3. /\ wire \in Seq(WireBytes) /\ Stream \in Seq(WireBytes) /\ RecHdr \in Nat \ {0}
      /\ Start(c) \in Nat /\ From(c) \in Nat /\ c \in Nat /\ Len(recs) \in Nat
      /\ Start(c + 1) = Start(c) + (RecHdr + SizeOf(recs[c])) /\ SizeOf(recs[c]) \in Nat
      /\ From(c + 1) = From(c) + Len(recs[c].body)
  <2>1. c \in 1 .. Len(recs) + 1
    BY <1>1, ReaderFacts
  <2>2. Start(c) \in Nat /\ From(c) \in Nat /\ c \in Nat
    <3>1. Start(c) \in Nat /\ From(c) \in Nat
      BY <2>1, ReaderFacts
    <3> QED
      BY <1>1, <3>1
  <2>3. Start(c + 1) = Start(c) + (RecHdr + SizeOf(recs[c])) /\ SizeOf(recs[c]) \in Nat
    BY <1>1, ReaderFacts
  <2>4. From(c + 1) = From(c) + Len(recs[c].body)
    BY <1>1, PartAt
  <2> QED
    BY <2>2, <2>3, <2>4, ReaderFacts
<1>4. /\ rd' \in ReaderRecords /\ rd'.reply = "doProcessInit" /\ rd'.cur = c /\ rd'.opened = c
      /\ rd'.error = rd.error /\ rd'.got = r.got /\ rd'.pending = r.pending
      /\ rd'.pendingSz = r.pendingSz /\ rd'.handled = r.handled
      /\ rd'.clearAt = r.clearAt /\ rd'.clearLen = r.clearLen
  BY <1>2 DEF ReaderRecords
<1>5. InOk(in') /\ Used(in') = 0 /\ (r.clearLen > 0 => in' = i)
  <2>1. CASE in' = i
    BY <2>1
  <2>2. CASE in' # i
    <3>1. r.clearLen = 0 /\ in' = [buf |-> Ahead(i, Used(i)), idx |-> 0, size |-> StaticLen]
      BY <1>2, <2>2 DEF Shrunk
    <3>2. Ahead(i, Used(i)) \in Seq(WireBytes) /\ Len(Ahead(i, Used(i))) = 0
      BY InRest
    <3> DEFINE b == Ahead(i, Used(i))
    <3>3. in' = [buf |-> b, idx |-> 0, size |-> StaticLen] /\ b \in Seq(WireBytes)
          /\ Len(b) = 0 /\ StaticLen \in Nat
      BY <3>1, <3>2, RecordSizes
    <3> HIDE DEF b
    <3>4. in'.buf = b /\ in'.idx = 0 /\ in'.size = StaticLen
          /\ in' \in [buf : Seq(WireBytes), idx : Nat, size : Nat]
      BY <3>3
    <3>5. InOk(in') /\ Used(in') = 0
      BY <3>3, <3>4 DEF InOk, Used
    <3> QED
      BY <3>1, <3>5
  <2> QED
    BY <2>1, <2>2
<1>6. Rest(in') = <<>>
  <2>1. Rest(in') \in Seq(WireBytes) /\ Len(Rest(in')) = 0
    BY <1>5, InRest
  <2> QED
    BY <2>1
<1>7. Behind(in', wire', Start(c + 1))
  <2> DEFINE k == Start(c + 1)
             at == Start(c) + RecHdr + Offset
  <2>1. k \in Nat /\ at + Used(in) = k
    <3> DEFINE s == Start(c)
               o == Offset
               l == InputLength
               z == SizeOf(recs[c])
    <3>1. /\ k = s + (RecHdr + z) /\ z = o + l + rd.padSz /\ Used(in) = l + rd.padSz
          /\ s \in Nat /\ o \in Nat /\ l \in Nat /\ z \in Nat /\ rd.padSz \in Nat /\ RecHdr \in Nat
      BY <1>1, <1>3
    <3> HIDE DEF s, o, l, z, k, c
    <3>2. k \in Nat /\ s + RecHdr + o + Used(in) = k
      BY <3>1
    <3> QED
      BY <3>2 DEF s, o, c
  <2>2. Fed(wire, k)
    BY <1>1, <2>1 DEF Behind
  <2> HIDE DEF k, at
  <2>3. k + 0 = k /\ k <= Len(Stream)
    <3>1. Len(wire) \in Nat /\ Len(Stream) \in Nat
      BY <1>3
    <3> QED
      BY <2>1, <2>2, <3>1 DEF Fed, Occurs
  <2>4. Occurs(Stream, <<>>, k)
    <3>1. Len(<<>>) = 0 /\ k + Len(<<>>) = k
      BY <2>1
    <3> QED
      BY <2>3, <3>1 DEF Occurs
  <2>5. Behind(in', wire', k)
    BY <1>5, <1>6, <2>2, <2>3, <2>4 DEF Behind
  <2> QED
    BY <2>5 DEF k
<1>8. From(c + 1) = Taken(rd') + rd'.clearLen
  <2>1. Taken(rd') = Taken(r)
    BY <1>4 DEF Taken
  <2>2. From(c + 1) = Taken(rd) + InputLength
    <3> DEFINE f == From(c)
               o == Offset
               l == InputLength
               n == Len(recs[c].body)
    <3>1. f \in Nat /\ o \in Nat /\ l \in Nat /\ o + l = n /\ f + o = Taken(rd)
          /\ From(c + 1) = f + n
      BY <1>1, <1>3
    <3> HIDE DEF f, o, l, n, c
    <3>2. From(c + 1) = Taken(rd) + l
      BY <3>1
    <3> QED
      BY <3>2 DEF l
  <2> QED
    BY <1>4, <2>1, <2>2
<1>9. Between(in', rd', wire')
  BY <1>4, <1>7, <1>8 DEF Between
<1>10. Clear(in', rd')
  <2>1. CASE ~(r.clearLen > 0)
    BY <1>4, <2>1 DEF Clear
  <2>2. CASE r.clearLen > 0
    <3>1. /\ r.clearLen = InputLength /\ r.clearAt = in.idx /\ in' = i /\ in'.buf = in.buf
          /\ recs[c].type = "application_data" /\ Offset = 0
      BY <1>1, <1>5, <2>2
    <3>2. InputLength = Len(recs[c].body)
      BY <1>1, <3>1
    <3> DEFINE l == InputLength
    <3>3. ASSUME NEW j \in 1 .. l
          PROVE  in'.buf[in.idx + j] = <<c, RecHdr + (l - l + j)>>
      <4>1. j \in 1 .. Used(in) /\ Offset + j = j /\ l - l + j = j
        <5>1. l \in Nat /\ Used(in) = l + rd.padSz /\ rd.padSz \in Nat
          BY <1>1
        <5> HIDE DEF l
        <5> QED
          BY <3>1, <5>1
      <4>2. in.buf[in.idx + j] = <<c, RecHdr + (Offset + j)>>
        BY <1>1, <4>1
      <4> QED
        BY <3>1, <4>1, <4>2
    <3>4. in.idx + l <= Len(in'.buf)
      BY <1>1, <3>1
    <3>5. l <= Len(recs[c].body)
      BY <1>1, <3>2
    <3> HIDE DEF l, c
    <3>6. rd'.clearLen = l /\ rd'.clearAt = in.idx /\ rd'.cur = c /\ Len(recs[c].body) = l
      BY <1>4, <3>1, <3>2 DEF l
    <3> QED
      BY <1>1, <1>4, <1>5, <3>1, <3>3, <3>4, <3>5, <3>6 DEF Clear
  <2> QED
    BY <2>1, <2>2
<1>11. Handlers(rd') /\ Pends(rd')
  BY <1>2, <1>4 DEF Handlers, Pends
<1>12. One(in', rd') /\ Ends(rd') /\ Reads(rd')
  <2>1. rd.error \in {"none", "WANT_READ"}
    BY DEF Reading
  <2> QED
    BY <1>3, <1>4, <1>5, <2>1 DEF One, Ends, Reads
<1>13. Holds(in', rd', wire')
  BY <1>9, <1>10, <1>11 DEF Holds
<1>14. /\ IsPart(rd'.got) /\ Len(rd'.got) <= Len(wr.handed) /\ Len(rd.got) <= Len(rd'.got)
       /\ rd'.cur <= Len(recs) /\ wire' \in Seq(WireBytes)
  <2>1. c <= Len(recs)
    BY <1>1, <1>3
  <2> QED
    BY <1>2, <1>3, <1>4, <2>1
<1>15. ReaderOk(in', rd', wire')
  BY <1>4, <1>5, <1>12, <1>13, <1>14 DEF ReaderOk
<1> QED
  BY <1>12, <1>14, <1>15 DEF ReaderMoves, Reading, Reads

\* The same buffer, n bytes further.
Moved(i, n) ==
    /\ i \in [buf : Seq(WireBytes), idx : Nat, size : Nat]
    /\ i.buf = in.buf /\ i.size = in.size /\ i.idx = in.idx + n

LEMMA BehindSkips ==
    ASSUME InOk(in), NEW at \in Nat, Behind(in, wire, at), NEW n \in 0 .. Used(in),
           NEW i, Moved(i, n), Stream \in Seq(WireBytes)
    PROVE  InOk(i) /\ Used(i) = Used(in) - n /\ Behind(i, wire, at + n)
<1> DEFINE b == in.buf
           x == in.idx
           u == Used(in)
<1>1. /\ b \in Seq(WireBytes) /\ x \in 0 .. Len(b) /\ Len(b) \in Nat /\ u = Len(b) - x
      /\ u \in Nat /\ in \in [buf : Seq(WireBytes), idx : Nat, size : Nat]
      /\ Len(b) <= in.size
  BY DEF InOk, Used
<1>2. /\ i \in [buf : Seq(WireBytes), idx : Nat, size : Nat]
      /\ i.buf = b /\ i.idx = x + n /\ i.size = in.size
  BY DEF Moved
<1> HIDE DEF b, x, u
<1>3. InOk(i) /\ Used(i) = u - n
  BY <1>1, <1>2 DEF InOk, Used, u
<1> DEFINE front == SubSeq(b, x + 1, x + n)
           back == SubSeq(b, x + n + 1, Len(b))
<1>4. n \in 0 .. Len(b) - x
  BY <1>1 DEF u
<1>5. SubSeq(b, x + 1, Len(b)) = front \o back
  BY <1>1, <1>4, RestSplit
<1>6. front \in Seq(WireBytes) /\ Len(front) = n
  <2>1. x + n \in x .. Len(b) /\ x + n - x = n
    BY <1>1, <1>4
  <2> QED
    BY <1>1, <2>1, SliceIs
<1>7. back \in Seq(WireBytes)
  <2>1. x + n \in 0 .. Len(b) /\ Len(b) \in x + n .. Len(b)
    BY <1>1, <1>4
  <2> QED
    BY <1>1, <2>1, SliceIs
<1>8. Rest(in) = SubSeq(b, x + 1, Len(b)) /\ Rest(i) = back
  BY <1>2 DEF Rest, b, x
<1> HIDE DEF front, back
<1>9. Occurs(Stream, front \o back, at)
  BY <1>5, <1>8 DEF Behind
<1>10. Occurs(Stream, back, at + n)
  BY <1>6, <1>7, <1>9, OccursConcat
<1>11. at + n + Used(i) = at + u
  BY <1>1, <1>3
<1>12. Fed(wire, at + n + Used(i))
  BY <1>11 DEF Behind, u
<1> QED
  BY <1>3, <1>8, <1>10, <1>12 DEF Behind, u

\* Another message follows in the record.
LEMMA RecordGoesOn ==
    ASSUME WriterInv, ReaderInv, Reading, rd.reply = "runProcessingOneMessage",
           wire' = wire, NEW r, Follows(r), recs[rd.cur].type = "handshake",
           NEW n \in 1 .. InputLength, n < InputLength,
           Taken(r) = Taken(rd) + n, r.clearLen = 0,
           StaticLen < InputLength - n + rd.padSz,
           NEW i, Moved(i, n), in' = Shrunk(i, 0), rd' = r
    PROVE  ReaderMoves
<1> DEFINE c == rd.cur
           at == Start(c) + RecHdr + Offset
           l == InputLength
<1>1. /\ c \in 1 .. Len(recs) /\ rd.opened = c /\ l \in Nat \ {0}
      /\ Offset \in Nat /\ Offset + l = Len(recs[c].body)
      /\ Used(in) = l + rd.padSz /\ rd.padSz \in Nat
      /\ rd.padSz = IF recs[c].enc THEN PadSz ELSE 0
      /\ rd.curSize = Offset + l + rd.padSz /\ rd.curSize = SizeOf(recs[c])
      /\ From(c) + Offset = Taken(rd) /\ Behind(in, wire, at)
      /\ in.idx = rd.curStart + Offset /\ in.idx \in Nat
  BY InRecord
<1>2. /\ r \in ReaderRecords /\ r.cur = c /\ r.opened = c /\ r.error = rd.error
      /\ r.reply = "runProcessingOneMessage" /\ r.curSize = rd.curSize
      /\ r.curStart = rd.curStart /\ r.padSz = rd.padSz
      /\ Handlers(r) /\ Pends(r) /\ IsPart(r.got)
      /\ Len(rd.got) <= Len(r.got) /\ Len(r.got) <= Len(wr.handed)
  BY <1>1 DEF Follows
<1>3. /\ wire \in Seq(WireBytes) /\ Stream \in Seq(WireBytes) /\ RecHdr \in Nat
      /\ InOk(in) /\ Start(c) \in Nat /\ From(c) \in Nat /\ Len(recs) \in Nat
      /\ rd.curStart \in Nat /\ StaticLen \in Nat
  <2>1. c \in 1 .. Len(recs) + 1
    BY <1>1, ReaderFacts
  <2> QED
    BY <2>1, ReaderFacts, RecordSizes DEF ReaderRecords
<1>4. at \in Nat /\ n \in 0 .. Used(in)
  <2> DEFINE o == Offset
             s == Start(c)
  <2>1. s \in Nat /\ o \in Nat /\ RecHdr \in Nat /\ Used(in) = l + rd.padSz /\ rd.padSz \in Nat
        /\ l \in Nat
    BY <1>1, <1>3
  <2>2. n \in 1 .. l
    OBVIOUS
  <2> HIDE DEF o, s, l, c
  <2>3. s + RecHdr + o \in Nat /\ n \in 0 .. Used(in)
    BY <2>1, <2>2
  <2> QED
    BY <2>3 DEF s, o, c
<1> HIDE DEF at
<1>5. InOk(i) /\ Used(i) = Used(in) - n /\ Behind(i, wire, at + n)
  BY <1>1, <1>3, <1>4, BehindSkips
<1>6. in' = i
  <2>1. Used(i) > StaticLen
    <3> DEFINE p == rd.padSz
               u == Used(in)
               v == Used(i)
    <3>1. /\ v = u - n /\ u = l + p /\ StaticLen < l - n + p /\ n \in Nat
          /\ l \in Nat /\ p \in Nat /\ u \in Nat /\ StaticLen \in Nat
      <4>1. v = u - n
        BY <1>5
      <4>2. u = l + p /\ l \in Nat /\ p \in Nat /\ StaticLen \in Nat
        BY <1>1, <1>3
      <4>3. n \in Nat /\ StaticLen < l - n + p
        <5>1. n \in 1 .. l /\ StaticLen < l - n + p
          OBVIOUS
        <5> HIDE DEF l, p
        <5> QED
          BY <4>2, <5>1
      <4> HIDE DEF l, p, u, v
      <4>4. u \in Nat
        BY <4>2
      <4> QED
        BY <4>1, <4>2, <4>3, <4>4
    <3> HIDE DEF p, u, v, l
    <3>2. v > StaticLen
      BY <3>1
    <3> QED
      BY <3>2 DEF v
  <2> QED
    BY <2>1 DEF Shrunk
<1>7. in'.idx - r.curStart = Offset + n /\ in'.idx = in.idx + n
  <2> DEFINE x == in.idx
             y == in'.idx
             s == rd.curStart
             o == Offset
  <2>1. y = x + n /\ x = s + o /\ r.curStart = s /\ s \in Nat /\ o \in Nat /\ n \in Nat
    BY <1>1, <1>2, <1>3, <1>6 DEF Moved
  <2> HIDE DEF x, y, s, o
  <2>2. y - r.curStart = o + n
    BY <2>1
  <2> QED
    BY <2>1, <2>2 DEF x, y, o
<1>8. Processes(in', rd', wire')
  <2> DEFINE o == Offset
             s == Start(c)
             d == in'.idx - r.curStart
  <2>1. d = o + n
    BY <1>7
  <2>2. d \in 0 .. Len(recs[c].body) - 1 /\ From(c) + d = Taken(r)
    <3> DEFINE k == Len(recs[c].body)
               f == From(c)
    <3>1. o \in Nat /\ l \in Nat /\ o + l = k /\ n \in Nat /\ n < l /\ f \in Nat
          /\ f + o = Taken(rd) /\ Taken(r) = Taken(rd) + n
      BY <1>1, <1>3
    <3> HIDE DEF o, l, d, k, f, c
    <3>2. d \in 0 .. k - 1 /\ f + d = Taken(r)
      BY <2>1, <3>1
    <3> QED
      BY <3>2 DEF k, f, c
  <2>3. Behind(in', wire', s + RecHdr + d)
    <3>1. s + RecHdr + d = at + n
      <4>1. s \in Nat /\ o \in Nat /\ RecHdr \in Nat /\ n \in Nat /\ at = s + RecHdr + o
        BY <1>1, <1>3 DEF at
      <4> HIDE DEF s, o, d
      <4> QED
        BY <2>1, <4>1
    <3>2. Behind(in', wire', at + n)
      BY <1>5, <1>6
    <3> QED
      BY <3>1, <3>2
  <2>4. c > 0
    BY <1>1
  <2> HIDE DEF d
  <2>5. /\ rd'.reply = "runProcessingOneMessage" /\ rd'.cur = c /\ rd'.opened = c
        /\ rd'.curSize = SizeOf(recs[c]) /\ rd'.padSz = IF recs[c].enc THEN PadSz ELSE 0
        /\ recs[c].type = "handshake" /\ Taken(rd') = Taken(r) /\ rd'.curStart = r.curStart
    BY <1>1, <1>2
  <2> HIDE DEF c
  <2> QED
    BY <2>2, <2>3, <2>4, <2>5 DEF Processes, d, s
<1>9. Clear(in', rd') /\ Handlers(rd') /\ Pends(rd')
  BY <1>2 DEF Clear
<1>10. One(in', rd')
  <2>1. in'.idx + Used(in') = in.idx + Used(in)
    <3> DEFINE x == in.idx
               y == in'.idx
               u == Used(in)
               v == Used(in')
    <3>1. y = x + n /\ v = u - n /\ x \in Nat /\ u \in Nat /\ n \in Nat
      BY <1>1, <1>3, <1>5, <1>6, <1>7, InRest
    <3> HIDE DEF x, y, u, v
    <3>2. y + v = x + u
      BY <3>1
    <3> QED
      BY <3>2 DEF x, y, u, v
  <2>2. in.idx + Used(in) = rd.curStart + rd.curSize
    BY DEF ReaderInv, ReaderOk, One
  <2> QED
    BY <1>2, <2>1, <2>2 DEF One
<1>11. Ends(rd') /\ Reads(rd')
  <2>1. rd.error \in {"none", "WANT_READ"}
    BY DEF Reading
  <2> QED
    BY <1>2, <2>1 DEF Ends, Reads
<1>12. Holds(in', rd', wire')
  BY <1>8, <1>9 DEF Holds
<1>13. /\ IsPart(rd'.got) /\ Len(rd'.got) <= Len(wr.handed) /\ Len(rd.got) <= Len(rd'.got)
       /\ rd'.cur <= Len(recs) /\ wire' \in Seq(WireBytes) /\ rd' \in ReaderRecords
       /\ InOk(in')
  <2>1. c <= Len(recs)
    BY <1>1, <1>3
  <2> QED
    BY <1>2, <1>3, <1>5, <1>6, <2>1
<1>14. ReaderOk(in', rd', wire')
  BY <1>10, <1>11, <1>12, <1>13 DEF ReaderOk
<1> QED
  BY <1>11, <1>13, <1>14 DEF ReaderMoves, Reading, Reads

LEMMA AfterMessageKeeps ==
    ASSUME WriterInv, ReaderInv, Reading, rd.reply = "runProcessingOneMessage",
           wire' = wire, NEW r, Follows(r), recs[rd.cur].type # "alert",
           NEW n \in 1 .. InputLength,
           Taken(r) + r.clearLen = Taken(rd) + n,
           r.clearLen > 0 => /\ r.clearLen = InputLength /\ r.clearAt = in.idx
                             /\ n = InputLength
                             /\ recs[rd.cur].type = "application_data",
           n < InputLength => /\ recs[rd.cur].type = "handshake"
                              /\ StaticLen < InputLength - n + rd.padSz,
           NEW i, Moved(i, n + rd.padSz), AfterMessage(i, r)
    PROVE  ReaderMoves
<1> DEFINE l == InputLength
           p == rd.padSz
           x == in.idx
<1>1. /\ l \in Nat \ {0} /\ p \in Nat /\ x \in Nat /\ Offset \in Nat /\ x = rd.curStart + Offset
      /\ rd.curSize = Offset + l + p /\ Len(in.buf) = x + l + p
      /\ InOk(in) /\ rd.curStart \in Nat
  BY InRecord, ReaderFacts DEF ReaderRecords
<1>2. r.padSz = p /\ r.curStart = rd.curStart /\ r.curSize = rd.curSize /\ r.clearLen \in Nat
      /\ r \in ReaderRecords /\ Taken(r) \in Nat
  BY DEF Follows, ReaderRecords, Taken
<1>3. /\ i \in [buf : Seq(WireBytes), idx : Nat, size : Nat]
      /\ i.buf = in.buf /\ i.size = in.size /\ i.idx = x + (n + p)
  BY DEF Moved
<1>4. CASE n = l
  <2>1. i.idx = Len(i.buf)
    <3> DEFINE y == i.idx
               e == Len(in.buf)
    <3>1. y = x + (n + p) /\ e = x + l + p
      BY <1>1, <1>3
    <3> HIDE DEF x, p, y, e, l
    <3>2. y = e
      BY <1>1, <1>4, <3>1
    <3> QED
      BY <1>3, <3>2 DEF y, e
  <2>2. InOk(i) /\ Used(i) = 0
    BY <1>1, <1>3, <2>1 DEF InOk, Used
  <2>3. in' = Shrunk(i, r.clearLen) /\ rd' = [r EXCEPT !.reply = "doProcessInit"]
    <3>1. i.idx >= Len(i.buf)
      BY <1>1, <1>3, <2>1
    <3> QED
      BY <3>1 DEF AfterMessage
  <2> QED
    BY <1>3, <1>4, <2>2, <2>3, RecordDone
<1>5. CASE n # l
  <2>1. n < l /\ r.clearLen = 0 /\ n \in Nat
    BY <1>1, <1>2, <1>5
  <2> DEFINE y == i.idx
             e == Len(i.buf)
             s == r.curStart
             z == y - p
  <2>2. /\ y = x + (n + p) /\ e = x + l + p /\ x = s + Offset
        /\ rd.curSize = Offset + l + p /\ s \in Nat /\ y \in Nat
    BY <1>1, <1>2, <1>3
  <2>3. y < e /\ y - s < r.curSize /\ z = x + n /\ z \in Nat
    <3> DEFINE o == Offset
               c == r.curSize
    <3>1. /\ y = x + (n + p) /\ e = x + l + p /\ x = s + o /\ c = o + l + p /\ z = y - p
          /\ o \in Nat /\ s \in Nat /\ x \in Nat /\ p \in Nat /\ l \in Nat /\ n \in Nat
          /\ n < l /\ y \in Nat
      BY <1>1, <1>2, <2>1, <2>2
    <3> HIDE DEF o, x, s, y, e, p, l, z, c
    <3>2. y < e /\ y - s < c /\ z = x + n /\ z \in Nat
      BY <3>1
    <3> QED
      BY <3>2 DEF c
  <2>4. ~(i.idx >= Len(i.buf)) /\ i.idx - r.curStart < r.curSize
    <3>1. e \in Nat
      BY <1>3
    <3> QED
      BY <2>2, <2>3, <3>1
  <2> DEFINE j == [i EXCEPT !.idx = z]
  <2>5. in' = Shrunk(j, 0) /\ rd' = r
    <3>1. in' = Shrunk([i EXCEPT !.idx = @ - r.padSz], r.clearLen) /\ rd' = r
      BY <2>4, Zenon DEF AfterMessage
    <3>2. [i EXCEPT !.idx = @ - r.padSz] = j
      BY <1>2
    <3> QED
      BY <2>1, <3>1, <3>2
  <2> HIDE DEF z
  <2>6. Moved(j, n)
    BY <1>3, <2>3 DEF Moved
  <2>7. Taken(r) = Taken(rd) + n
    <3>1. Taken(r) + 0 = Taken(r)
      BY <1>2
    <3> QED
      BY <2>1, <3>1
  <2> HIDE DEF j
  <2> QED
    BY <2>1, <2>5, <2>6, <2>7, RecordGoesOn
<1> QED
  BY <1>4, <1>5

-----------------------------------------------------------------------------
(* What the reader finds in a record is the script.                        *)

\* Bytes of the wire that stand for the script from t on.
Tells(b, t) ==
    /\ b \in Seq(WireBytes)
    /\ t + Len(b) <= Len(Script)
    /\ \A j \in 1 .. Len(b) : Content(b[j]) = Script[t + j]

LEMMA ContentsTell ==
    ASSUME session \in Sessions, NEW t \in Nat, NEW b, Tells(b, t)
    PROVE  /\ Contents(b) \in Seq(Byte) /\ Len(Contents(b)) = Len(b)
           /\ \A j \in 1 .. Len(b) : Contents(b)[j] = Script[t + j]
<1>1. Script \in Seq(Byte) /\ Len(Script) \in Nat
  BY ScriptTyped
<1>2. b \in Seq(WireBytes) /\ DOMAIN b = 1 .. Len(b) /\ Len(b) \in Nat
  BY DEF Tells
<1>3. ASSUME NEW j \in 1 .. Len(b)
      PROVE  Content(b[j]) \in Byte /\ Content(b[j]) = Script[t + j]
  <2>1. t + j \in 1 .. Len(Script)
    BY <1>1, <1>2 DEF Tells
  <2>2. Content(b[j]) = Script[t + j]
    BY DEF Tells
  <2> QED
    BY <1>1, <2>1, <2>2
<1> QED
  BY <1>2, <1>3 DEF Contents

LEMMA GotGrows ==
    ASSUME session \in Sessions, NEW g \in Seq(Byte), IsPart(g), NEW b, Tells(b, Len(g))
    PROVE  /\ g \o Contents(b) \in Seq(Byte) /\ IsPart(g \o Contents(b))
           /\ Len(g \o Contents(b)) = Len(g) + Len(b)
<1> DEFINE c == Contents(b)
           more == g \o c
<1>1. c \in Seq(Byte) /\ Len(c) = Len(b) /\ Len(b) \in Nat
      /\ \A j \in 1 .. Len(b) : c[j] = Script[Len(g) + j]
  <2>1. Len(g) \in Nat /\ Len(b) \in Nat
    BY DEF Tells
  <2> QED
    BY <2>1, ContentsTell
<1> HIDE DEF c
<1>2. /\ more \in Seq(Byte) /\ Len(more) = Len(g) + Len(c) /\ Len(g) \in Nat
      /\ \A j \in 1 .. Len(g) : more[j] = g[j]
      /\ \A j \in 1 .. Len(c) : more[Len(g) + j] = c[j]
  <2>1. c \in Seq(Byte) /\ g \in Seq(Byte)
    BY <1>1
  <2> QED
    BY <2>1, ConcatIs
<1> HIDE DEF more
<1>3. Len(more) <= Len(Script)
  BY <1>1, <1>2 DEF Tells
<1>4. ASSUME NEW j \in 1 .. Len(more) PROVE more[j] = Script[j]
  <2>1. CASE j \in 1 .. Len(g)
    BY <1>2, <2>1 DEF IsPart
  <2>2. CASE j \notin 1 .. Len(g)
    <3>1. j - Len(g) \in 1 .. Len(c) /\ Len(g) + (j - Len(g)) = j
      BY <1>1, <1>2, <2>2
    <3> QED
      BY <1>1, <1>2, <3>1
  <2> QED
    BY <2>1, <2>2
<1> QED
  BY <1>1, <1>2, <1>3, <1>4 DEF IsPart, more, c

LEMMA TellsConcat ==
    ASSUME NEW t \in Nat, NEW a, NEW b, Tells(a, t), Tells(b, t + Len(a))
    PROVE  Tells(a \o b, t)
<1> DEFINE c == a \o b
<1>1. a \in Seq(WireBytes) /\ b \in Seq(WireBytes)
  BY DEF Tells
<1>2. /\ c \in Seq(WireBytes) /\ Len(c) = Len(a) + Len(b)
      /\ Len(a) \in Nat /\ Len(b) \in Nat
      /\ \A j \in 1 .. Len(a) : c[j] = a[j]
      /\ \A j \in 1 .. Len(b) : c[Len(a) + j] = b[j]
  BY <1>1, ConcatIs
<1> HIDE DEF c
<1>3. ASSUME NEW j \in 1 .. Len(c) PROVE Content(c[j]) = Script[t + j]
  <2>1. CASE j \in 1 .. Len(a)
    BY <1>2, <2>1 DEF Tells
  <2>2. CASE j \notin 1 .. Len(a)
    <3> DEFINE k == j - Len(a)
    <3>1. k \in 1 .. Len(b) /\ Len(a) + k = j /\ t + Len(a) + k = t + j
      BY <1>2, <2>2
    <3> HIDE DEF k
    <3> QED
      BY <1>2, <3>1 DEF Tells
  <2> QED
    BY <2>1, <2>2
<1>4. t + Len(c) = t + Len(a) + Len(b)
  BY <1>2
<1> QED
  BY <1>2, <1>3, <1>4 DEF Tells, c

\* The next bytes of the record.
LEMMA AheadTells ==
    ASSUME WriterInv, ReaderInv, Reading, rd.reply = "runProcessingOneMessage",
           recs[rd.cur].type # "alert", NEW n \in 0 .. InputLength
    PROVE  /\ Tells(Ahead(in, n), Taken(rd)) /\ Len(Ahead(in, n)) = n
           /\ Taken(rd) + InputLength <= Len(wr.handed)
           /\ \A j \in 1 .. n : Ahead(in, n)[j][1] \in 1 .. Len(recs)
<1> DEFINE c == rd.cur
           l == InputLength
           o == Offset
           b == Ahead(in, n)
           t == Taken(rd)
<1>1. /\ c \in 1 .. Len(recs) /\ l \in Nat /\ o \in Nat /\ o + l = Len(recs[c].body)
      /\ From(c) + o = t /\ in.idx \in Nat
      /\ Used(in) = l + rd.padSz /\ rd.padSz \in Nat
      /\ Len(in.buf) = in.idx + l + rd.padSz
      /\ \A j \in 1 .. Used(in) : in.buf[in.idx + j] = <<c, RecHdr + (o + j)>>
  BY InRecord
<1>2. /\ From(c) \in Nat /\ From(c) + Len(recs[c].body) <= Len(wr.handed)
      /\ \A k \in 1 .. Len(recs[c].body) :
             \A x : x = <<c, RecHdr + k>> => Content(x) = Script[From(c) + k]
  BY <1>1, PartAt
<1>3. Len(wr.handed) <= Len(Script) /\ Len(wr.handed) \in Nat /\ Len(Script) \in Nat
  <2>1. session \in Sessions /\ Len(wr.handed) \in Nat
    BY ReaderFacts
  <2> QED
    BY <2>1, ScriptTyped DEF WriterInv, IsPart
<1>4. t + l <= Len(wr.handed) /\ t \in Nat
  <2> DEFINE f == From(c)
             e == Len(recs[c].body)
  <2>1. f \in Nat /\ f + e <= Len(wr.handed) /\ o + l = e /\ f + o = t /\ o \in Nat /\ l \in Nat
    BY <1>1, <1>2
  <2> HIDE DEF f, e, o, l, t, c
  <2> QED
    BY <1>3, <2>1
<1>5. /\ b \in Seq(WireBytes) /\ Len(b) = n
      /\ \A j \in 1 .. n : b[j] = in.buf[in.idx + j]
  <2> DEFINE x == in.idx
             y == in.idx + n
             s == in.buf
  <2>1. s \in Seq(WireBytes)
    BY ReaderFacts DEF InOk
  <2>2. x \in 0 .. Len(s) /\ y \in x .. Len(s) /\ y - x = n
    <3> DEFINE e == Len(s)
    <3>1. e = x + l + rd.padSz /\ x \in Nat /\ l \in Nat /\ rd.padSz \in Nat /\ n \in 0 .. l /\ y = x + n
      BY <1>1
    <3> HIDE DEF e, x, l, y
    <3>2. x \in 0 .. e /\ y \in x .. e /\ y - x = n
      BY <3>1
    <3> QED
      BY <3>2 DEF e
  <2> HIDE DEF x, y, s
  <2>3. /\ SubSeq(s, x + 1, y) \in Seq(WireBytes) /\ Len(SubSeq(s, x + 1, y)) = y - x
        /\ \A j \in 1 .. y - x : SubSeq(s, x + 1, y)[j] = s[x + j]
    BY <2>1, <2>2, SliceIs
  <2> QED
    BY <2>2, <2>3 DEF Ahead, x, y, s
<1> HIDE DEF b
<1>6. ASSUME NEW j \in 1 .. n
      PROVE  Content(b[j]) = Script[t + j] /\ b[j][1] \in 1 .. Len(recs)
  <2> DEFINE k == o + j
  <2>1. j \in 1 .. Used(in) /\ k \in 1 .. Len(recs[c].body) /\ From(c) + k = t + j
    <3> DEFINE f == From(c)
               e == Len(recs[c].body)
               u == Used(in)
    <3>1. /\ f \in Nat /\ o + l = e /\ f + o = t /\ o \in Nat /\ l \in Nat /\ k = o + j
          /\ u = l + rd.padSz /\ rd.padSz \in Nat /\ n \in 0 .. l
      BY <1>1, <1>2
    <3> HIDE DEF f, e, o, l, t, c, k, u
    <3>2. j \in 1 .. u /\ k \in 1 .. e /\ f + k = t + j
      BY <3>1
    <3> QED
      BY <3>2 DEF f, e, u
  <2>2. b[j] = <<c, RecHdr + k>>
    BY <1>1, <1>5, <2>1
  <2> HIDE DEF k, t
  <2>3. Content(b[j]) = Script[From(c) + k]
    BY <1>2, <2>1, <2>2
  <2> QED
    BY <1>1, <2>1, <2>2, <2>3
<1>7. t + n <= Len(Script)
  <2> HIDE DEF t, l
  <2>1. n \in 0 .. l /\ l \in Nat
    BY <1>1 DEF l
  <2> QED
    BY <1>3, <1>4, <2>1
<1> QED
  BY <1>4, <1>5, <1>6, <1>7 DEF Tells, b

\* In a handshake record a message of the handshake is still to come.
LEMMA InHandshake ==
    ASSUME WriterInv, ReaderInv, Reading, rd.reply = "runProcessingOneMessage",
           recs[rd.cur].type = "handshake"
    PROVE  /\ rd.handled + 1 \in 1 .. NumHs /\ rd.handled \in Nat
           /\ Len(rd.got) = Begin(rd.handled + 1)
           /\ Taken(rd) + InputLength <= Begin(NumHs + 1) /\ Begin(NumHs + 1) \in Nat
           /\ recs[rd.cur].body[Len(recs[rd.cur].body)] = Script[Taken(rd) + InputLength]
           /\ \/ session.peer = "other"
              \/ recs[rd.cur].body[Len(recs[rd.cur].body)].no >= HsHdr
           /\ ~recs[rd.cur].enc => Taken(rd) + InputLength <= MsgLen(1)
<1> DEFINE c == rd.cur
           l == InputLength
           e == Len(recs[c].body)
           f == From(c)
           t == Taken(rd)
<1>1. /\ c \in 1 .. Len(recs) /\ l \in Nat \ {0} /\ Offset \in Nat /\ Offset + l = e
      /\ f + Offset = t /\ Handlers(rd)
  BY InRecord
<1>2. /\ Fits(recs[c], f) /\ f \in Nat /\ e \in Nat \ {0} /\ t \in Nat /\ session \in Sessions
      /\ Len(rd.got) \in Nat /\ Len(rd.pending) \in Nat
  <2>1. c \in 1 .. Len(recs) + 1
    BY <1>1, ReaderFacts
  <2> QED
    BY <1>1, <2>1, ReaderFacts
<1>3. f + e = t + l
  <2> DEFINE o == Offset
  <2>1. f \in Nat /\ e \in Nat /\ o \in Nat /\ l \in Nat /\ o + l = e /\ f + o = t
    BY <1>1, <1>2
  <2> HIDE DEF f, e, o, l, t
  <2> QED
    BY <2>1
<1>4. recs[c].body[e] = Script[f + e]
  <2>1. e \in 1 .. e /\ recs[c].type # "alert"
    BY <1>2
  <2> QED
    BY <1>1, <2>1, PartAt
<1>5. /\ f + e <= Begin(NumHs + 1)
      /\ session.peer = "other" \/ recs[c].body[e].no >= HsHdr
      /\ ~recs[c].enc => f + e <= MsgLen(1)
  BY <1>2 DEF Fits
<1>6. NumHs + 1 \in 1 .. NumMsgs + 1 /\ NumHs \in Nat /\ Begin(NumHs + 1) \in Nat
  <2>1. NumHs + 1 \in 1 .. NumMsgs + 1 /\ NumHs \in Nat
    BY <1>2, SessionTyped
  <2> QED
    BY <1>2, <2>1, ScriptTyped
<1>7. t < Begin(NumHs + 1)
  <2> DEFINE b == Begin(NumHs + 1)
  <2>1. t + l <= b /\ t \in Nat /\ l \in Nat \ {0} /\ b \in Nat
    BY <1>1, <1>2, <1>3, <1>5, <1>6
  <2> HIDE DEF t, l, b
  <2>2. t < b
    BY <2>1
  <2> QED
    BY <2>2 DEF b
<1>8. rd.handled # NumHs
  <2>1. SUFFICES ASSUME rd.handled = NumHs PROVE FALSE
    OBVIOUS
  <2> DEFINE b == Begin(NumHs + 1)
             g == Len(rd.got)
             p == Len(rd.pending)
  <2>2. /\ g >= b /\ t = g + p /\ g \in Nat /\ p \in Nat /\ b \in Nat /\ t < b
    <3>1. ~(rd.handled < NumHs)
      BY <1>6, <2>1
    <3>2. g >= b
      BY <1>1, <3>1 DEF Handlers
    <3>3. t = g + p
      BY DEF Taken
    <3> QED
      BY <1>2, <1>6, <1>7, <3>2, <3>3
  <2> HIDE DEF b, g, p, t
  <2> QED
    BY <2>2
<1>9. rd.handled \in 0 .. NumHs
  BY <1>1 DEF Handlers
<1>10. Len(rd.got) = Begin(rd.handled + 1)
  BY <1>1, <1>6, <1>8, <1>9 DEF Handlers
<1>11. rd.handled + 1 \in 1 .. NumHs /\ rd.handled \in Nat
  BY <1>6, <1>8, <1>9
<1> QED
  BY <1>3, <1>4, <1>5, <1>6, <1>10, <1>11

\* If another message follows in the record, what is left is more than the
\* static buffer holds.
LEMMA MessageEnds ==
    ASSUME WriterInv, ReaderInv, Reading, rd.reply = "runProcessingOneMessage",
           recs[rd.cur].type = "handshake",
           NEW n \in 1 .. InputLength, n < InputLength,
           Taken(rd) + n = Begin(rd.handled + 1 + 1)
    PROVE  StaticLen < InputLength - n + rd.padSz
<1> DEFINE l == InputLength
           m == rd.handled + 1
           t == Taken(rd)
<1>1. /\ l \in Nat \ {0} /\ session \in Sessions /\ t \in Nat
      /\ m \in 1 .. NumHs /\ rd.cur \in 1 .. Len(recs)
      /\ rd.padSz = IF recs[rd.cur].enc THEN PadSz ELSE 0
      /\ t + l <= Begin(NumHs + 1) /\ (~recs[rd.cur].enc => t + l <= MsgLen(1))
      /\ Begin(NumHs + 1) \in Nat
  BY InRecord, InHandshake, ReaderFacts
<1>2. /\ m \in 1 .. NumMsgs /\ NumHs \in Nat /\ MsgLen(1) \in Nat
      /\ Begin(m + 1) >= MsgLen(1) /\ Begin(m + 1) \in Nat
  <2>1. m \in 1 .. NumMsgs /\ m + 1 \in 1 .. NumMsgs + 1 /\ 1 \in 1 .. NumMsgs /\ NumHs \in Nat
    BY <1>1, SessionTyped
  <2> HIDE DEF m
  <2> QED
    BY <1>1, <2>1, SessionTyped, BehindFirst, ScriptTyped
<1>3. t + n < t + l /\ t + n = Begin(m + 1)
  BY <1>1
<1> HIDE DEF m
<1>4. m + 1 # NumHs + 1
  <2>1. SUFFICES ASSUME m + 1 = NumHs + 1 PROVE FALSE
    OBVIOUS
  <2> HIDE DEF t, l
  <2> DEFINE b == Begin(NumHs + 1)
  <2>2. t + n < t + l /\ t + n = b /\ t + l <= b /\ b \in Nat /\ t \in Nat /\ l \in Nat /\ n \in Nat
    BY <1>1, <1>3, <2>1 DEF l
  <2> HIDE DEF b
  <2> QED
    BY <2>2
<1>5. m + 1 \in 1 .. NumHs
  BY <1>1, <1>2, <1>4
<1>7. recs[rd.cur].enc
  <2>1. SUFFICES ASSUME ~recs[rd.cur].enc PROVE FALSE
    OBVIOUS
  <2> DEFINE b == Begin(m + 1)
             x == MsgLen(1)
  <2>2. t + l <= x /\ t + n < t + l /\ t + n = b /\ b >= x /\ b \in Nat /\ x \in Nat
        /\ t \in Nat /\ l \in Nat /\ n \in Nat
    BY <1>1, <1>2, <1>3, <2>1
  <2> HIDE DEF b, x, t, l
  <2> QED
    BY <2>2
<1> QED
  <2>1. rd.padSz = PadSz /\ StaticLen <= PadSz /\ PadSz \in Nat /\ StaticLen \in Nat
    BY <1>1, <1>7, RecordSizes
  <2> DEFINE d == l - n
  <2>2. d \in Nat \ {0}
    BY <1>1
  <2> HIDE DEF d
  <2>3. StaticLen < d + rd.padSz
    BY <2>1, <2>2
  <2> QED
    BY <2>3 DEF d

LEMMA HeadOf ==
    ASSUME session \in Sessions, NEW m \in 1 .. NumHs
    PROVE  /\ SubSeq(MsgBytes(m), 1, HsHdr) \in Seq(Byte)
           /\ Len(SubSeq(MsgBytes(m), 1, HsHdr)) = HsHdr
           /\ \A j \in 1 .. HsHdr :
                  /\ j \in 1 .. MsgLen(m)
                  /\ SubSeq(MsgBytes(m), 1, HsHdr)[j] = MsgBytes(m)[j]
           /\ SubSeq(MsgBytes(m), 1, HsHdr)[1].msg = m
<1> DEFINE b == MsgBytes(m)
           h == SubSeq(b, 1, HsHdr)
<1>1. m \in 1 .. NumMsgs /\ HsHdr <= MsgLen(m) /\ MsgLen(m) \in Nat /\ HsHdr \in Nat \ {0}
  BY SessionTyped, RecordSizes
<1>2. /\ b \in Seq(Byte) /\ Len(b) = MsgLen(m)
      /\ \A i \in 1 .. MsgLen(m) :
             b[i] = [msg |-> m, no |-> i, cut |-> (m > NumHs \/ i = MsgLen(m))]
  BY <1>1, MessageTyped
<1> HIDE DEF b
<1>3. /\ h \in Seq(Byte) /\ Len(h) = HsHdr /\ \A j \in 1 .. HsHdr : h[j] = b[j]
  <2>1. 0 \in 0 .. Len(b) /\ HsHdr \in 0 .. Len(b) /\ 0 + 1 = 1 /\ HsHdr - 0 = HsHdr
        /\ \A j \in 1 .. HsHdr : 0 + j = j
    BY <1>1, <1>2
  <2>2. /\ SubSeq(b, 0 + 1, HsHdr) \in Seq(Byte) /\ Len(SubSeq(b, 0 + 1, HsHdr)) = HsHdr - 0
        /\ \A j \in 1 .. HsHdr - 0 : SubSeq(b, 0 + 1, HsHdr)[j] = b[0 + j]
    BY <1>2, <2>1, SliceIs
  <2> QED
    BY <2>1, <2>2
<1>4. \A j \in 1 .. HsHdr : j \in 1 .. MsgLen(m)
  BY <1>1
<1>5. h[1].msg = m
  <2>1. 1 \in 1 .. HsHdr /\ 1 \in 1 .. MsgLen(m)
    BY <1>1
  <2>2. h[1] = b[1] /\ b[1] = [msg |-> m, no |-> 1, cut |-> (m > NumHs \/ 1 = MsgLen(m))]
    BY <1>2, <1>3, <2>1
  <2> HIDE DEF h
  <2> QED
    BY <2>2
<1> QED
  BY <1>3, <1>4, <1>5 DEF b

\* GetHandshakeHeader finds the message that is due.
LEMMA MessageBegins ==
    ASSUME WriterInv, ReaderInv, Reading, rd.reply = "runProcessingOneMessage",
           recs[rd.cur].type = "handshake", rd.pendingSz = 0
    PROVE  /\ rd.pending = <<>> /\ Taken(rd) = Begin(rd.handled + 1)
           /\ InputLength >= HsHdr => MessageHere = rd.handled + 1
<1> DEFINE m == rd.handled + 1
           l == InputLength
           t == Taken(rd)
<1>1. /\ l \in Nat \ {0} /\ session \in Sessions /\ t \in Nat /\ HsHdr \in Nat
      /\ m \in 1 .. NumHs /\ Len(rd.got) = Begin(m) /\ Len(rd.got) \in Nat
      /\ Used(in) = l + rd.padSz /\ rd.padSz \in Nat
      /\ Handlers(rd) /\ recs[rd.cur].type # "alert"
  BY InRecord, InHandshake, ReaderFacts
<1>2. rd.pending = <<>>
  BY <1>1 DEF Handlers
<1>3. t = Begin(m)
  <2>1. Len(rd.pending) = 0
    BY <1>2
  <2> HIDE DEF m
  <2> QED
    BY <1>1, <2>1 DEF Taken
<1> HIDE DEF m, t
<1> SUFFICES ASSUME l >= HsHdr PROVE MessageHere = m
  BY <1>2, <1>3 DEF m, t
<1>4. HsHdr \in 0 .. l
  BY <1>1
<1> DEFINE b == Ahead(in, HsHdr)
           h == SubSeq(MsgBytes(m), 1, HsHdr)
<1>5. Tells(b, t) /\ Len(b) = HsHdr
  BY <1>1, <1>4, AheadTells DEF t
<1> HIDE DEF b
<1>6. /\ Contents(b) \in Seq(Byte) /\ Len(Contents(b)) = HsHdr
      /\ \A j \in 1 .. HsHdr : Contents(b)[j] = Script[t + j]
  BY <1>1, <1>5, ContentsTell
<1>7. /\ h \in Seq(Byte) /\ Len(h) = HsHdr /\ h[1].msg = m
      /\ \A j \in 1 .. HsHdr : j \in 1 .. MsgLen(m) /\ h[j] = MsgBytes(m)[j]
  BY <1>1, HeadOf
<1>8. Contents(b) = h
  <2>1. ASSUME NEW j \in 1 .. HsHdr PROVE Contents(b)[j] = h[j]
    <3>1. m \in 1 .. NumMsgs /\ j \in 1 .. MsgLen(m)
      BY <1>1, <1>7, SessionTyped
    <3>2. Script[Begin(m) + j] = MsgBytes(m)[j]
      BY <1>1, <3>1, ScriptHas
    <3> QED
      BY <1>3, <1>6, <1>7, <3>2
  <2> DEFINE c == Contents(b)
  <2>2. c \in Seq(Byte) /\ Len(c) = Len(h) /\ \A j \in 1 .. Len(c) : c[j] = h[j]
    BY <1>6, <1>7, <2>1
  <2> HIDE DEF c, h
  <2>3. c = h
    BY <1>7, <2>2, SeqEqual
  <2> QED
    BY <2>3 DEF c
<1>9. {x \in 1 .. NumHs : /\ Used(in) >= HsHdr
                          /\ Contents(b) = SubSeq(MsgBytes(x), 1, HsHdr)} = {m}
  <2>1. Used(in) >= HsHdr
    BY <1>1, <1>4
  <2>2. ASSUME NEW x \in 1 .. NumHs, h = SubSeq(MsgBytes(x), 1, HsHdr) PROVE x = m
    <3>1. SubSeq(MsgBytes(x), 1, HsHdr)[1].msg = x
      BY <1>1, HeadOf
    <3> QED
      BY <1>7, <2>2, <3>1
  <2> HIDE DEF h
  <2> QED
    BY <1>1, <1>8, <2>1, <2>2 DEF h
<1>10. MessageHere = m
  <2> DEFINE msgs == {x \in 1 .. NumHs : /\ Used(in) >= HsHdr
                          /\ Contents(b) = SubSeq(MsgBytes(x), 1, HsHdr)}
  <2>1. MessageHere = IF msgs = {} THEN 0 ELSE CHOOSE x \in msgs : TRUE
    BY DEF MessageHere, b
  <2>2. msgs = {m}
    BY <1>9
  <2> HIDE DEF msgs
  <2>3. (CHOOSE x \in {m} : TRUE) = m
    OBVIOUS
  <2> QED
    BY <2>1, <2>2, <2>3
<1> QED
  BY <1>10

\* Where a record ends inside a header, another implementation has built it,
\* and what stands behind it is no header.
LEMMA HeaderAway ==
    ASSUME WriterInv, ReaderInv, Reading, rd.reply = "runProcessingOneMessage",
           recs[rd.cur].type = "handshake", rd.pendingSz = 0, InputLength < HsHdr
    PROVE  SplitAt(rd) /\ MessageHere = 0
<1> DEFINE c == rd.cur
           m == rd.handled + 1
           l == InputLength
           t == Taken(rd)
           e == Len(recs[c].body)
<1>1. /\ l \in Nat \ {0} /\ session \in Sessions /\ HsHdr \in Nat \ {0} /\ RecHdr \in Nat
      /\ m \in 1 .. NumHs /\ t = Begin(m) /\ c \in 1 .. Len(recs) /\ recs[c] \in Records
      /\ Offset \in Nat /\ Offset + l = e /\ InOk(in) /\ Used(in) \in Nat
      /\ \A j \in 1 .. Used(in) : in.buf[in.idx + j] = <<c, RecHdr + (Offset + j)>>
  BY InRecord, InHandshake, ReaderFacts, MessageBegins
<1> HIDE DEF m, l, e
<1>2. m \in 1 .. NumMsgs /\ HsHdr <= MsgLen(m) /\ MsgLen(m) \in Nat
  <2>1. m \in 1 .. NumHs /\ session \in Sessions /\ HsHdr \in Nat
    BY <1>1
  <2>2. MsgLen(m) = HsHdr + session.hs[m].size /\ session.hs[m].size \in Nat
    BY <2>1, SessionTyped
  <2>3. m \in 1 .. NumMsgs
    BY <2>1, SessionTyped
  <2> QED
    BY <2>1, <2>2, <2>3
<1>3. SplitAt(rd)
  <2>1. l \in 1 .. MsgLen(m) /\ l < HsHdr
    BY <1>1, <1>2 DEF l
  <2>2. Script[Begin(m) + l] = MsgBytes(m)[l]
    BY <1>1, <1>2, <2>1, ScriptHas
  <2>3. MsgBytes(m)[l] = [msg |-> m, no |-> l, cut |-> (m > NumHs \/ l = MsgLen(m))]
    BY <1>1, <1>2, <2>1, MessageTyped
  <2>4. recs[c].body[e] = Script[t + l]
    BY InHandshake DEF l, e
  <2>5. recs[c].body[e].no = l
    BY <1>1, <2>2, <2>3, <2>4
  <2>6. session.peer = "other" \/ recs[c].body[e].no >= HsHdr
    BY InHandshake DEF e
  <2>7. session.peer = "other"
    BY <1>1, <2>1, <2>5, <2>6
  <2> QED
    BY <1>1, <2>1, <2>5, <2>7 DEF SplitAt, e
<1> DEFINE b == Ahead(in, HsHdr)
           msgs == {x \in 1 .. NumHs : /\ Used(in) >= HsHdr
                                       /\ Contents(b) = SubSeq(MsgBytes(x), 1, HsHdr)}
<1>4. ASSUME NEW x \in 1 .. NumHs, Used(in) >= HsHdr,
             Contents(b) = SubSeq(MsgBytes(x), 1, HsHdr)
      PROVE  FALSE
  <2> DEFINE i == in.idx
             s == in.buf
  <2>1. s \in Seq(WireBytes) /\ i \in 0 .. Len(s) /\ i + HsHdr \in i .. Len(s)
        /\ (i + HsHdr) - i = HsHdr
    <3>1. s \in Seq(WireBytes) /\ i \in Nat /\ i <= Len(s) /\ Used(in) = Len(s) - i
      BY <1>1 DEF InOk, Used
    <3> QED
      BY <1>1, <1>4, <3>1
  <2>2. b = SubSeq(s, i + 1, i + HsHdr)
    BY DEF Ahead
  <2> HIDE DEF b, i, s
  <2>3. /\ b \in Seq(WireBytes) /\ Len(b) = HsHdr
        /\ \A j \in 1 .. HsHdr : b[j] = s[i + j]
    BY <2>1, <2>2, SliceIs
  <2>4. HsHdr \in 1 .. HsHdr /\ HsHdr \in 1 .. Used(in) /\ HsHdr \in 1 .. Len(b)
    BY <1>1, <1>4, <2>3
  <2>5. b[HsHdr] = <<c, RecHdr + (Offset + HsHdr)>>
    BY <1>1, <2>3, <2>4 DEF i, s
  <2>6. Content(b[HsHdr]) = Filler
    <3>1. b[HsHdr][1] = c /\ b[HsHdr][2] = RecHdr + (Offset + HsHdr)
      BY <2>5
    <3>2. recs[c].body \in Seq(Byte) /\ Len(recs[c].body) = e /\ e \in Nat
      BY <1>1 DEF Records, e
    <3> DEFINE o == Offset
    <3>3. o \in Nat /\ o + l = e /\ l < HsHdr
      BY <1>1 DEF l
    <3> HIDE DEF o
    <3>4. (RecHdr + (o + HsHdr)) - RecHdr = o + HsHdr /\ o + HsHdr > e
      BY <1>1, <3>2, <3>3
    <3>5. b[HsHdr][2] - RecHdr \notin DOMAIN recs[c].body
      BY <1>1, <3>1, <3>2, <3>4 DEF o
    <3> QED
      BY <3>1, <3>5 DEF Content
  <2>7. Contents(b)[HsHdr] = Filler
    <3>1. DOMAIN b = 1 .. Len(b)
      BY <2>3
    <3> QED
      BY <2>4, <2>6, <3>1 DEF Contents
  <2>8. /\ HsHdr \in 1 .. MsgLen(x)
        /\ SubSeq(MsgBytes(x), 1, HsHdr)[HsHdr] = MsgBytes(x)[HsHdr]
    BY <1>1, <2>4, HeadOf
  <2>9. MsgBytes(x)[HsHdr].no = HsHdr
    <3>1. x \in 1 .. NumMsgs
      BY <1>1, SessionTyped
    <3>2. MsgBytes(x)[HsHdr] =
              [msg |-> x, no |-> HsHdr, cut |-> (x > NumHs \/ HsHdr = MsgLen(x))]
      BY <1>1, <2>8, <3>1, MessageTyped
    <3> QED
      BY <3>2
  <2>10. MsgBytes(x)[HsHdr] = Filler
    BY <1>4, <2>7, <2>8
  <2> QED
    BY <1>1, <2>9, <2>10 DEF Filler
<1>5. MessageHere = 0
  <2>1. msgs = {}
    BY <1>4
  <2>2. MessageHere = IF msgs = {} THEN 0 ELSE CHOOSE x \in msgs : TRUE
    BY DEF MessageHere
  <2> HIDE DEF msgs
  <2> QED
    BY <2>1, <2>2
<1> QED
  BY <1>3, <1>5

LEMMA MessageDone ==
    ASSUME WriterInv, ReaderInv, Reading, rd.reply = "runProcessingOneMessage",
           recs[rd.cur].type = "handshake",
           NEW q, q = [rd EXCEPT !.pending = <<>>, !.pendingSz = 0],
           NEW b, Tells(b, Len(rd.got)), Len(b) = MsgLen(rd.handled + 1),
           Len(rd.got) + Len(b) <= Len(wr.handed)
    PROVE  /\ Follows(Handled(q, b)) /\ Taken(Handled(q, b)) = Begin(rd.handled + 1 + 1)
           /\ Handled(q, b).clearLen = 0
<1> DEFINE m == rd.handled + 1
           more == rd.got \o Contents(b)
           r == Handled(q, b)
<1>1. /\ session \in Sessions /\ rd \in ReaderRecords /\ m \in 1 .. NumHs /\ m \in Nat
      /\ Len(rd.got) = Begin(m) /\ rd.got \in Seq(Byte) /\ IsPart(rd.got) /\ rd.clearLen = 0
      /\ Len(rd.got) \in Nat
  <2>1. m \in 1 .. NumHs /\ m \in Nat /\ Len(rd.got) = Begin(m)
    BY InHandshake
  <2>2. session \in Sessions /\ rd \in ReaderRecords /\ Len(rd.got) \in Nat
    BY ReaderFacts
  <2>3. IsPart(rd.got)
    BY DEF ReaderInv, ReaderOk
  <2>4. rd.clearLen = 0
    BY InRecord
  <2>5. rd.got \in Seq(Byte)
    BY <2>2 DEF ReaderRecords
  <2> HIDE DEF m
  <2> QED
    BY <2>1, <2>2, <2>3, <2>4, <2>5
<1>2. more \in Seq(Byte) /\ IsPart(more) /\ Len(more) = Len(rd.got) + Len(b)
  BY <1>1, GotGrows
<1>3. <<>> \in Seq(WireBytes)
  OBVIOUS
<1> DEFINE h == q.handled + 1
           g == q.got \o Contents(b)
<1>4. /\ q \in ReaderRecords /\ q.handled = rd.handled /\ q.got = rd.got
      /\ q.pending = <<>> /\ q.pendingSz = 0
      /\ q.reply = rd.reply /\ q.cur = rd.cur /\ q.opened = rd.opened
      /\ q.curSize = rd.curSize /\ q.curStart = rd.curStart /\ q.padSz = rd.padSz
      /\ q.error = rd.error /\ q.clearLen = rd.clearLen
  BY <1>1, <1>3 DEF ReaderRecords
<1>5. r = [q EXCEPT !.handled = h, !.got = g]
  BY DEF Handled
<1>6. h = m /\ g = more
  BY <1>4
<1> HIDE DEF m, more, h, g, r
<1>7. /\ r \in ReaderRecords /\ r.handled = m /\ r.got = more
      /\ r.pending = <<>> /\ r.pendingSz = 0
      /\ r.reply = rd.reply /\ r.cur = rd.cur /\ r.opened = rd.opened
      /\ r.curSize = rd.curSize /\ r.curStart = rd.curStart /\ r.padSz = rd.padSz
      /\ r.error = rd.error /\ r.clearLen = rd.clearLen
  BY <1>1, <1>2, <1>4, <1>5, <1>6 DEF ReaderRecords
<1>8. /\ Len(more) = Begin(m + 1) /\ Begin(m + 1) \in Nat /\ MsgLen(m) \in Nat
      /\ NumHs \in Nat
  <2>1. m \in 1 .. NumMsgs /\ m + 1 \in 1 .. NumMsgs + 1 /\ NumHs \in Nat
    BY <1>1, SessionTyped
  <2>2. Begin(m + 1) = Begin(m) + MsgLen(m) /\ Begin(m + 1) \in Nat /\ MsgLen(m) \in Nat
    BY <1>1, <2>1, ScriptTyped, SessionTyped
  <2>3. Len(b) = MsgLen(m)
    BY DEF m
  <2> QED
    BY <1>1, <1>2, <2>1, <2>2, <2>3
<1>9. Handlers(r)
  <2>1. m \in 0 .. NumHs
    BY <1>1, <1>8
  <2>2. CASE m < NumHs
    BY <1>1, <1>7, <1>8, <2>1, <2>2 DEF Handlers
  <2>3. CASE ~(m < NumHs)
    <3>1. m = NumHs
      BY <1>8, <2>1, <2>3
    <3>2. Len(more) >= Begin(NumHs + 1)
      BY <1>8, <3>1
    <3> QED
      BY <1>7, <1>8, <2>1, <2>3, <3>2 DEF Handlers
  <2> QED
    BY <2>2, <2>3
<1>10. Pends(r)
  <2>1. Len(<<>>) = 0
    OBVIOUS
  <2> QED
    BY <1>7, <2>1 DEF Pends
<1>11. Taken(r) = Begin(m + 1)
  <2>1. Len(r.pending) = 0
    BY <1>7
  <2>2. Taken(r) = Len(more) + 0
    BY <1>7, <2>1 DEF Taken
  <2> QED
    BY <1>8, <2>2
<1>12. Len(rd.got) <= Len(more) /\ Len(more) <= Len(wr.handed)
  <2>1. Len(b) \in Nat
    BY DEF Tells
  <2> QED
    BY <1>1, <1>2, <2>1
<1>13. Follows(r)
  BY <1>2, <1>7, <1>9, <1>10, <1>12 DEF Follows
<1> QED
  BY <1>1, <1>7, <1>11, <1>13 DEF m, r

LEMMA MessageWaits ==
    ASSUME WriterInv, ReaderInv, Reading, rd.reply = "runProcessingOneMessage",
           recs[rd.cur].type = "handshake",
           NEW b, Tells(b, Len(rd.got)), Len(b) \in 1 .. MsgLen(rd.handled + 1) - 1,
           \A j \in 1 .. Len(b) : b[j][1] \in 1 .. Len(recs),
           NEW r, r = [rd EXCEPT !.pending = b, !.pendingSz = MsgLen(rd.handled + 1)]
    PROVE  Follows(r) /\ Taken(r) = Len(rd.got) + Len(b) /\ r.clearLen = 0
<1> DEFINE m == rd.handled + 1
           z == MsgLen(m)
<1>1. /\ session \in Sessions /\ rd \in ReaderRecords /\ m \in 1 .. NumHs /\ m \in Nat
      /\ Len(rd.got) = Begin(m) /\ IsPart(rd.got) /\ rd.clearLen = 0
      /\ Len(rd.got) \in Nat /\ Len(rd.got) <= Len(wr.handed) /\ rd.handled \in Nat
  <2>1. m \in 1 .. NumHs /\ m \in Nat /\ Len(rd.got) = Begin(m) /\ rd.handled \in Nat
    BY InHandshake
  <2>2. session \in Sessions /\ rd \in ReaderRecords /\ Len(rd.got) \in Nat
    BY ReaderFacts
  <2>3. IsPart(rd.got) /\ Len(rd.got) <= Len(wr.handed)
    BY DEF ReaderInv, ReaderOk
  <2>4. rd.clearLen = 0
    BY InRecord
  <2> HIDE DEF m
  <2> QED
    BY <2>1, <2>2, <2>3, <2>4
<1>2. z \in Nat \ {0} /\ NumHs \in Nat
  <2>1. m \in 1 .. NumMsgs /\ NumHs \in Nat
    BY <1>1, SessionTyped
  <2> HIDE DEF m
  <2> QED
    BY <1>1, <2>1, SessionTyped
<1>3. b \in Seq(WireBytes)
  BY DEF Tells
<1> HIDE DEF z
<1>4. /\ r \in ReaderRecords /\ r.handled = rd.handled /\ r.got = rd.got
      /\ r.pending = b /\ r.pendingSz = z
      /\ r.reply = rd.reply /\ r.cur = rd.cur /\ r.opened = rd.opened
      /\ r.curSize = rd.curSize /\ r.curStart = rd.curStart /\ r.padSz = rd.padSz
      /\ r.error = rd.error /\ r.clearLen = rd.clearLen
  <2>1. r = [rd EXCEPT !.pending = b, !.pendingSz = z]
    BY DEF z
  <2> QED
    BY <1>1, <1>2, <1>3, <2>1 DEF ReaderRecords
<1>5. Handlers(r)
  <2>1. r.handled \in 0 .. NumHs /\ r.handled < NumHs
    BY <1>1, <1>2, <1>4
  <2>2. Len(r.got) = Begin(r.handled + 1) /\ r.clearLen = 0
    BY <1>1, <1>4
  <2>3. r.pendingSz # 0 /\ r.pendingSz = MsgLen(r.handled + 1)
        /\ Len(r.pending) \in 1 .. r.pendingSz - 1
    BY <1>2, <1>4 DEF z
  <2> QED
    BY <2>1, <2>2, <2>3 DEF Handlers
<1>6. Pends(r)
  BY <1>4 DEF Pends, Tells
<1> QED
  BY <1>1, <1>4, <1>5, <1>6 DEF Follows, Taken

-----------------------------------------------------------------------------
(* The messages and the data in a record.                                  *)

LEMMA MovesOn ==
    ASSUME InOk(in), NEW n \in Nat, NEW p \in Nat
    PROVE  Moved([in EXCEPT !.idx = @ + n + p], n + p)
<1> DEFINE y == in.idx + n + p
           i == [in EXCEPT !.idx = y]
<1>1. /\ in \in [buf : Seq(WireBytes), idx : Nat, size : Nat] /\ y \in Nat
      /\ y = in.idx + (n + p)
  BY DEF InOk
<1>2. [in EXCEPT !.idx = @ + n + p] = i
  OBVIOUS
<1> HIDE DEF y
<1>3. i \in [buf : Seq(WireBytes), idx : Nat, size : Nat]
      /\ i.buf = in.buf /\ i.size = in.size /\ i.idx = y
  BY <1>1
<1>4. Moved(i, n + p)
  BY <1>1, <1>3 DEF Moved
<1> QED
  BY <1>2, <1>4

LEMMA DoMessageKeeps ==
    ASSUME WriterInv, ReaderInv, DoMessage
    PROVE  ReaderMoves
<1> DEFINE m == rd.handled + 1
           l == InputLength
           z == MsgLen(m)
           p == rd.padSz
<1>1. /\ Reading /\ rd.reply = "runProcessingOneMessage" /\ recs[rd.cur].type = "handshake"
      /\ rd.pendingSz = 0 /\ wire' = wire
      /\ recs[rd.cur].type # "alert"
  BY DEF DoMessage, Processing, streamVars
<1> DEFINE header == l >= HsHdr
<1>2. /\ header => MessageHere = m
      /\ rd.pending = <<>> /\ Taken(rd) = Begin(m)
      /\ l \in Nat \ {0} /\ p \in Nat /\ m \in 1 .. NumHs /\ m \in Nat
      /\ Len(rd.got) = Begin(m) /\ InOk(in) /\ rd \in ReaderRecords
      /\ session \in Sessions /\ m # 0
  <2>1. (header => MessageHere = m) /\ rd.pending = <<>> /\ Taken(rd) = Begin(m)
    BY <1>1, MessageBegins
  <2>2. m \in 1 .. NumHs /\ m \in Nat /\ m # 0 /\ Len(rd.got) = Begin(m)
    BY <1>1, InHandshake
  <2>3. l \in Nat \ {0} /\ p \in Nat
    BY <1>1, InRecord
  <2>4. InOk(in) /\ rd \in ReaderRecords /\ session \in Sessions
    BY ReaderFacts
  <2> HIDE DEF m, l, p
  <2> QED
    BY <2>1, <2>2, <2>3, <2>4
<1>3. /\ z \in Nat \ {0} /\ Begin(m) \in Nat /\ Begin(m + 1) = Begin(m) + z
  <2>1. m \in 1 .. NumMsgs
    BY <1>2, SessionTyped
  <2> HIDE DEF m
  <2> QED
    BY <1>2, <2>1, SessionTyped, BehindFirst
<1>4. header =>
          IF l >= z
          THEN AfterMessage([in EXCEPT !.idx = @ + z + p], Handled(rd, Ahead(in, z)))
          ELSE AfterMessage([in EXCEPT !.idx = @ + l + p],
                   [rd EXCEPT !.pending = Ahead(in, l), !.pendingSz = z])
  BY <1>2 DEF DoMessage
<1>5. Taken(rd) + l <= Len(wr.handed) /\ Len(wr.handed) \in Nat
  <2>1. 0 \in 0 .. InputLength
    BY <1>2
  <2> QED
    BY <1>1, <2>1, AheadTells, ReaderFacts
<1> HIDE DEF m, z, p
<1>6. CASE header /\ l >= z
  <2> DEFINE b == Ahead(in, z)
             r == Handled(rd, b)
             i == [in EXCEPT !.idx = @ + z + p]
  <2>1. z \in 0 .. InputLength /\ z \in 1 .. InputLength
    BY <1>2, <1>3, <1>6
  <2>2. Tells(b, Taken(rd)) /\ Len(b) = z
    BY <1>1, <2>1, AheadTells
  <2>3. Tells(b, Len(rd.got)) /\ Len(b) = MsgLen(rd.handled + 1)
        /\ Len(rd.got) + Len(b) <= Len(wr.handed)
    <3>1. Len(rd.got) = Taken(rd)
      BY <1>2
    <3>2. Taken(rd) + z <= Len(wr.handed)
      BY <1>2, <1>3, <1>5, <1>6
    <3> QED
      BY <2>2, <3>1, <3>2 DEF z, m
  <2>4. rd = [rd EXCEPT !.pending = <<>>, !.pendingSz = 0]
    BY <1>1, <1>2 DEF ReaderRecords
  <2> HIDE DEF b
  <2>5. Follows(r) /\ Taken(r) = Begin(rd.handled + 1 + 1) /\ r.clearLen = 0
    BY <1>1, <2>3, <2>4, MessageDone
  <2>6. AfterMessage(i, r)
    BY <1>4, <1>6 DEF b
  <2>7. Moved(i, z + p)
    BY <1>2, <1>3, MovesOn
  <2> HIDE DEF r, i
  <2>8. Taken(r) + r.clearLen = Taken(rd) + z /\ Taken(rd) + z = Begin(rd.handled + 1 + 1)
    BY <1>2, <1>3, <2>5 DEF m
  <2>9. z < InputLength => StaticLen < InputLength - z + rd.padSz
    BY <1>1, <2>1, <2>8, MessageEnds
  <2> QED
    BY <1>1, <2>1, <2>5, <2>6, <2>7, <2>8, <2>9, AfterMessageKeeps DEF p
<1>7. CASE header /\ ~(l >= z)
  <2> DEFINE b == Ahead(in, l)
             r == [rd EXCEPT !.pending = b, !.pendingSz = z]
             i == [in EXCEPT !.idx = @ + l + p]
  <2>1. l \in 0 .. InputLength /\ l \in 1 .. InputLength /\ l \in 1 .. z - 1
    BY <1>2, <1>3, <1>7
  <2>2. /\ Tells(b, Taken(rd)) /\ Len(b) = l
        /\ \A j \in 1 .. l : b[j][1] \in 1 .. Len(recs)
    BY <1>1, <2>1, AheadTells
  <2>3. /\ Tells(b, Len(rd.got)) /\ Len(b) \in 1 .. MsgLen(rd.handled + 1) - 1
        /\ \A j \in 1 .. Len(b) : b[j][1] \in 1 .. Len(recs)
    BY <1>2, <2>1, <2>2 DEF z, m
  <2>4. r = [rd EXCEPT !.pending = b, !.pendingSz = MsgLen(rd.handled + 1)]
    BY DEF z, m
  <2>6. AfterMessage(i, r)
    BY <1>4, <1>7
  <2>7. Moved(i, l + p)
    BY <1>2, MovesOn
  <2> HIDE DEF b, r, i
  <2>5. Follows(r) /\ Taken(r) = Len(rd.got) + Len(b) /\ r.clearLen = 0
    BY <1>1, <2>3, <2>4, MessageWaits
  <2>8. Taken(r) + r.clearLen = Taken(rd) + l
    BY <1>2, <1>3, <2>2, <2>5
  <2>9. ~(l < InputLength)
    BY <1>2
  <2> QED
    BY <1>1, <2>1, <2>5, <2>6, <2>7, <2>8, <2>9, AfterMessageKeeps DEF p
<1>8. CASE ~header
  <2>1. SplitAt(rd) /\ MessageHere = 0
    <3>1. l < HsHdr
      BY <1>2, <1>8, RecordSizes
    <3> QED
      BY <1>1, <3>1, HeaderAway
  <2>2. rd' = [rd EXCEPT !.error = HeaderError] /\ in' = in
    BY <2>1 DEF DoMessage, Failed
  <2>3. HeaderError \in {"PARSE_ERROR", "INCOMPLETE_DATA"}
    BY DEF HeaderError
  <2>4. /\ rd' \in ReaderRecords /\ rd'.error \in {"PARSE_ERROR", "INCOMPLETE_DATA"}
        /\ rd'.got = rd.got /\ rd'.cur = rd.cur /\ rd'.reply = rd.reply
        /\ rd'.curSize = rd.curSize /\ rd'.curStart = rd.curStart
    BY <1>2, <2>2, <2>3 DEF ReaderRecords, Errors
  <2>5. SplitAt(rd')
    BY <2>1, <2>4 DEF SplitAt
  <2>6. Ends(rd') /\ ~Reads(rd')
    BY <2>4, <2>5 DEF Ends, Reads
  <2>7. One(in', rd')
    BY <2>2, <2>4 DEF ReaderInv, ReaderOk, One
  <2>8. InOk(in') /\ wire' \in Seq(WireBytes) /\ rd'.cur <= Len(recs)
        /\ IsPart(rd'.got) /\ Len(rd'.got) <= Len(wr.handed)
    BY <1>1, <1>2, <2>2, <2>4, ReaderFacts DEF ReaderInv, ReaderOk
  <2>9. Reads(rd)
    BY <1>1 DEF Reading, Reads
  <2> QED
    BY <2>4, <2>6, <2>7, <2>8, <2>9 DEF ReaderMoves, ReaderOk
<1> QED
  BY <1>6, <1>7, <1>8

LEMMA DoNextFragmentKeeps ==
    ASSUME WriterInv, ReaderInv, DoNextFragment
    PROVE  ReaderMoves
<1> DEFINE m == rd.handled + 1
           l == InputLength
           z == MsgLen(m)
           p == rd.padSz
           k == Len(rd.pending)
           n == Lesser(l, rd.pendingSz - k)
           b == Ahead(in, n)
           msg == rd.pending \o b
           i == [in EXCEPT !.idx = @ + n + p]
           none == [rd EXCEPT !.pending = <<>>, !.pendingSz = 0]
<1>1. /\ Reading /\ rd.reply = "runProcessingOneMessage" /\ recs[rd.cur].type = "handshake"
      /\ rd.pendingSz > 0 /\ wire' = wire
      /\ recs[rd.cur].type # "alert"
  BY DEF DoNextFragment, Processing, streamVars
<1>2. AfterMessage(i, IF Len(msg) = rd.pendingSz THEN Handled(none, msg)
                      ELSE [rd EXCEPT !.pending = msg])
  BY DEF DoNextFragment
<1>3. /\ l \in Nat \ {0} /\ p \in Nat /\ m \in 1 .. NumHs /\ m \in Nat
      /\ Len(rd.got) = Begin(m) /\ InOk(in) /\ rd \in ReaderRecords
      /\ session \in Sessions /\ Handlers(rd) /\ Pends(rd)
      /\ Len(rd.got) \in Nat /\ k \in Nat /\ rd.pending \in Seq(WireBytes)
      /\ Taken(rd) = Len(rd.got) + k /\ Taken(rd) \in Nat
  <2>1. l \in Nat \ {0} /\ p \in Nat /\ Handlers(rd) /\ Pends(rd)
    BY <1>1, InRecord
  <2>2. m \in 1 .. NumHs /\ m \in Nat /\ m # 0 /\ Len(rd.got) = Begin(m)
    BY <1>1, InHandshake
  <2>3. /\ InOk(in) /\ rd \in ReaderRecords /\ session \in Sessions /\ Len(rd.got) \in Nat
        /\ k \in Nat /\ rd.pending \in Seq(WireBytes) /\ Taken(rd) \in Nat
    BY ReaderFacts DEF ReaderRecords
  <2>4. Taken(rd) = Len(rd.got) + k
    BY DEF Taken
  <2> HIDE DEF m, l, p, k
  <2> QED
    BY <2>1, <2>2, <2>3, <2>4
<1>4. rd.pendingSz = z /\ k \in 1 .. z - 1
  <2>1. rd.pendingSz # 0
    BY <1>1
  <2> QED
    BY <1>3, <2>1 DEF Handlers
<1>5. z \in Nat \ {0} /\ Begin(m) \in Nat /\ Begin(m + 1) = Begin(m) + z
  <2>1. m \in 1 .. NumMsgs
    BY <1>3, SessionTyped
  <2> HIDE DEF m
  <2> QED
    BY <1>3, <2>1, SessionTyped, BehindFirst
<1>6. n \in 1 .. l /\ n \in 0 .. l /\ n \in Nat /\ k + n <= z /\ (k + n # z => n = l)
  <2>1. n = IF l < z - k THEN l ELSE z - k
    BY <1>4 DEF Lesser
  <2> HIDE DEF n, l, z, k
  <2> QED
    BY <1>3, <1>4, <1>5, <2>1
<1>7. /\ Tells(b, Taken(rd)) /\ Len(b) = n /\ Taken(rd) + l <= Len(wr.handed)
      /\ \A j \in 1 .. n : b[j][1] \in 1 .. Len(recs)
  <2> HIDE DEF n
  <2> QED
    BY <1>1, <1>6, AheadTells
<1> HIDE DEF b, n
<1>8. Tells(rd.pending, Len(rd.got))
  <2>1. Len(rd.got) + Len(rd.pending) <= Len(Script)
    <3>1. Taken(rd) <= Len(Script)
      <4>1. Len(b) \in Nat /\ Len(Script) \in Nat
        BY <1>3, <1>6, <1>7, ScriptTyped
      <4> QED
        BY <1>3, <1>7, <4>1 DEF Tells
    <3> QED
      BY <1>3, <3>1
  <2> QED
    BY <1>3, <2>1 DEF Tells, Pends
<1>9. /\ Tells(msg, Len(rd.got)) /\ Len(msg) = k + n
      /\ \A j \in 1 .. Len(msg) : msg[j][1] \in 1 .. Len(recs)
  <2> DEFINE q == rd.pending
             g == Len(rd.got)
  <2>1. q \in Seq(WireBytes) /\ b \in Seq(WireBytes) /\ Len(q) = k /\ g + Len(q) = Taken(rd)
        /\ g \in Nat
    BY <1>3, <1>7 DEF Tells
  <2>2. \A j \in 1 .. k : q[j][1] \in 1 .. Len(recs)
    BY <1>3 DEF Pends
  <2>3. Tells(q, g) /\ Tells(b, g + Len(q))
    BY <1>7, <1>8, <2>1
  <2> HIDE DEF q, g, k
  <2>4. Tells(q \o b, g)
    BY <2>1, <2>3, TellsConcat
  <2>5. /\ Len(q \o b) = k + n /\ k \in Nat
        /\ \A j \in 1 .. k : (q \o b)[j] = q[j]
        /\ \A j \in 1 .. n : (q \o b)[k + j] = b[j]
    <3>1. /\ Len(q \o b) = Len(q) + Len(b) /\ Len(q) \in Nat
          /\ \A j \in 1 .. Len(q) : (q \o b)[j] = q[j]
          /\ \A j \in 1 .. Len(b) : (q \o b)[Len(q) + j] = b[j]
      <4>1. q \in Seq(WireBytes) /\ b \in Seq(WireBytes)
        BY <2>1
      <4> QED
        BY <4>1, ConcatIs
    <3>2. Len(q) = k /\ Len(b) = n
      BY <1>7, <2>1
    <3> HIDE DEF n
    <3> QED
      BY <3>1, <3>2
  <2>6. ASSUME NEW j \in 1 .. k + n PROVE (q \o b)[j][1] \in 1 .. Len(recs)
    <3>1. CASE j \in 1 .. k
      BY <2>2, <2>5, <3>1
    <3>2. CASE j \notin 1 .. k
      <4> DEFINE h == j - k
      <4>1. h \in 1 .. n /\ k + h = j
        BY <1>6, <2>5, <3>2
      <4> HIDE DEF h
      <4>2. (q \o b)[j] = b[h]
        BY <2>5, <4>1
      <4> QED
        BY <1>7, <4>1, <4>2
    <3> QED
      BY <3>1, <3>2
  <2>7. \A j \in 1 .. Len(q \o b) : (q \o b)[j][1] \in 1 .. Len(recs)
    BY <2>5, <2>6
  <2> QED
    BY <2>4, <2>5, <2>7 DEF q, g
<1>10. Moved(i, n + p)
  BY <1>3, <1>6, MovesOn
<1> HIDE DEF msg, i, k
<1>11. CASE Len(msg) = rd.pendingSz
  <2> DEFINE r == Handled(none, msg)
  <2>1. AfterMessage(i, r)
    BY <1>2, <1>11
  <2>2. Len(rd.got) + Len(msg) <= Len(wr.handed)
    <3>1. Len(wr.handed) \in Nat
      BY ReaderFacts
    <3> DEFINE g == Len(rd.got)
               h == Len(wr.handed)
               t == Taken(rd)
    <3>2. t = g + k /\ t + l <= h /\ n \in 1 .. l /\ l \in Nat /\ g \in Nat /\ k \in Nat /\ h \in Nat
          /\ Len(msg) = k + n /\ t \in Nat
      BY <1>3, <1>6, <1>7, <1>9, <3>1
    <3> HIDE DEF g, h, t, l
    <3>3. g + (k + n) <= h
      BY <3>2
    <3> QED
      BY <3>2, <3>3 DEF g, h
  <2>3. Len(msg) = MsgLen(rd.handled + 1)
    BY <1>4, <1>11
  <2>4. Follows(r) /\ Taken(r) = Begin(rd.handled + 1 + 1) /\ r.clearLen = 0
    BY <1>1, <1>9, <2>2, <2>3, MessageDone
  <2> HIDE DEF r
  <2>5. Taken(r) + r.clearLen = Taken(rd) + n /\ Taken(rd) + n = Begin(rd.handled + 1 + 1)
    <3> DEFINE a == Begin(m)
               e == Begin(m + 1)
    <3>1. /\ e = a + z /\ Taken(rd) = a + k /\ k + n = z /\ a \in Nat /\ z \in Nat
          /\ k \in Nat /\ n \in Nat /\ Taken(r) = e /\ r.clearLen = 0
      BY <1>3, <1>4, <1>5, <1>6, <1>9, <1>11, <2>4
    <3> HIDE DEF a, e, z
    <3>2. Taken(r) + r.clearLen = Taken(rd) + n /\ Taken(rd) + n = e
      BY <3>1
    <3> QED
      BY <3>2 DEF e
  <2>6. n < InputLength => StaticLen < InputLength - n + rd.padSz
    BY <1>1, <1>6, <2>5, MessageEnds
  <2> QED
    BY <1>1, <1>6, <1>10, <2>1, <2>4, <2>5, <2>6, AfterMessageKeeps
<1>12. CASE Len(msg) # rd.pendingSz
  <2> DEFINE r == [rd EXCEPT !.pending = msg]
  <2>1. AfterMessage(i, r)
    BY <1>2, <1>12
  <2>2. r = [rd EXCEPT !.pending = msg, !.pendingSz = MsgLen(rd.handled + 1)]
    BY <1>3, <1>4 DEF ReaderRecords
  <2>3. Len(msg) \in 1 .. MsgLen(rd.handled + 1) - 1 /\ n = l
    <3>1. Len(msg) \in 1 .. z - 1 /\ n = l
      <4> HIDE DEF z, l
      <4> QED
        BY <1>3, <1>4, <1>5, <1>6, <1>9, <1>12
    <3> QED
      BY <3>1
  <2> HIDE DEF r
  <2>4. Follows(r) /\ Taken(r) = Len(rd.got) + Len(msg) /\ r.clearLen = 0
    BY <1>1, <1>9, <2>2, <2>3, MessageWaits
  <2>5. Taken(r) + r.clearLen = Taken(rd) + n
    BY <1>3, <1>6, <1>9, <2>4
  <2>6. ~(n < InputLength)
    BY <1>3, <2>3
  <2> QED
    BY <1>1, <1>6, <1>10, <2>1, <2>4, <2>5, <2>6, AfterMessageKeeps
<1> QED
  BY <1>11, <1>12

-----------------------------------------------------------------------------
(* Application data and the close_notify.                                  *)

\* Data comes when the handshake is done.
LEMMA DataInTime ==
    ASSUME WriterInv, ReaderInv, Reading, rd.reply = "runProcessingOneMessage",
           recs[rd.cur].type = "application_data"
    PROVE  /\ rd.handled = NumHs /\ rd.pendingSz = 0 /\ rd.pending = <<>>
           /\ Offset = 0 /\ rd.curSize - rd.padSz = InputLength
           /\ Len(rd.got) >= Begin(NumHs + 1)
<1> DEFINE c == rd.cur
<1>1. /\ c \in 1 .. Len(recs) /\ Offset = 0 /\ rd.padSz \in Nat /\ InputLength \in Nat
      /\ rd.curSize = Offset + InputLength + rd.padSz
      /\ From(c) + Offset = Taken(rd) /\ Handlers(rd)
  BY InRecord
<1>2. From(c) \in Nat /\ Fits(recs[c], From(c)) /\ session \in Sessions
      /\ Len(rd.got) \in Nat /\ Taken(rd) \in Nat
  BY <1>1, ReaderFacts
<1>3. Taken(rd) >= Begin(NumHs + 1)
  <2>1. From(c) >= Begin(NumHs + 1)
    BY <1>2 DEF Fits
  <2> QED
    BY <1>1, <1>2, <2>1
<1>4. ASSUME rd.handled # NumHs PROVE FALSE
  <2> DEFINE m == rd.handled + 1
  <2>1. m \in 1 .. NumHs /\ m \in 1 .. NumMsgs /\ m + 1 \in 1 .. NumHs + 1
        /\ NumHs + 1 \in m + 1 .. NumMsgs + 1 /\ m + 1 \in 1 .. NumMsgs + 1
    <3>1. NumHs \in Nat /\ NumMsgs \in Nat /\ NumHs <= NumMsgs
      BY <1>2, SessionTyped
    <3>2. rd.handled \in 0 .. NumHs /\ rd.handled # NumHs
      BY <1>1, <1>4 DEF Handlers
    <3> QED
      BY <3>1, <3>2
  <2>2. Len(rd.got) = Begin(m)
    BY <1>1, <1>2, <1>4, <2>1, SessionTyped DEF Handlers
  <2>3. Len(rd.pending) < MsgLen(m) /\ Len(rd.pending) \in Nat
    <3>1. MsgLen(m) \in Nat \ {0}
      BY <1>2, <2>1, SessionTyped
    <3>2. CASE rd.pendingSz = 0
      BY <1>1, <3>1, <3>2 DEF Handlers
    <3>3. CASE rd.pendingSz # 0
      BY <1>1, <3>1, <3>3 DEF Handlers
    <3> QED
      BY <3>2, <3>3
  <2> HIDE DEF m
  <2>4. Begin(m + 1) = Begin(m) + MsgLen(m) /\ Begin(m) \in Nat /\ MsgLen(m) \in Nat
    <3>1. Begin(m + 1) = Begin(m) + MsgLen(m) /\ Begin(m) \in Nat
      <4>1. m \in 1 .. NumMsgs + 1
        BY <1>2, <2>1, SessionTyped
      <4> QED
        BY <1>2, <2>1, <4>1, ScriptTyped
    <3> QED
      BY <1>2, <2>1, <3>1, SessionTyped
  <2>5. Begin(m + 1) <= Begin(NumHs + 1) /\ Begin(NumHs + 1) \in Nat
    <3>1. Begin(m + 1) <= Begin(NumHs + 1)
      BY <1>2, <2>1, BeginMonotone
    <3>2. NumHs + 1 \in 1 .. NumMsgs + 1
      BY <1>2, SessionTyped
    <3> QED
      BY <1>2, <3>1, <3>2, ScriptTyped
  <2>6. Taken(rd) = Len(rd.got) + Len(rd.pending)
    BY DEF Taken
  <2> DEFINE b == Begin(m)
             e == Begin(m + 1)
             h == Begin(NumHs + 1)
             z == MsgLen(m)
             t == Taken(rd)
             k == Len(rd.pending)
  <2>7. /\ t >= h /\ t = b + k /\ k < z /\ e = b + z /\ e <= h
        /\ t \in Nat /\ h \in Nat /\ b \in Nat /\ k \in Nat /\ z \in Nat
    BY <1>2, <1>3, <2>2, <2>3, <2>4, <2>5, <2>6
  <2> HIDE DEF b, e, h, z, t, k
  <2> QED
    BY <2>7
<1>5. rd.handled = NumHs /\ rd.pendingSz = 0 /\ rd.pending = <<>>
      /\ Len(rd.got) >= Begin(NumHs + 1)
  <2>1. rd.handled = NumHs /\ ~(rd.handled < NumHs)
    BY <1>2, <1>4, SessionTyped
  <2> QED
    BY <1>1, <2>1 DEF Handlers
<1>6. rd.curSize - rd.padSz = InputLength
  BY <1>1
<1> QED
  BY <1>1, <1>5, <1>6

LEMMA DoApplicationDataKeeps ==
    ASSUME WriterInv, ReaderInv, DoApplicationData
    PROVE  ReaderMoves
<1> DEFINE l == InputLength
           p == rd.padSz
           r == [rd EXCEPT !.clearAt = in.idx, !.clearLen = l]
           i == [in EXCEPT !.idx = @ + l + p]
<1>1. /\ Reading /\ rd.reply = "runProcessingOneMessage" /\ wire' = wire
      /\ recs[rd.cur].type = "application_data" /\ recs[rd.cur].type # "alert"
  BY DEF DoApplicationData, Processing, streamVars
<1>2. /\ rd.handled = NumHs /\ rd.pendingSz = 0 /\ rd.pending = <<>>
      /\ rd.curSize - p = l
      /\ Len(rd.got) >= Begin(NumHs + 1)
  BY <1>1, DataInTime
<1>3. AfterMessage(i, r)
  BY <1>2 DEF DoApplicationData, HandShakeDone
<1>4. /\ l \in Nat \ {0} /\ p \in Nat /\ Handlers(rd) /\ Pends(rd) /\ rd.clearLen = 0
      /\ in.idx \in Nat /\ rd \in ReaderRecords /\ InOk(in) /\ session \in Sessions
      /\ IsPart(rd.got) /\ Len(rd.got) <= Len(wr.handed) /\ Len(rd.got) \in Nat
      /\ Taken(rd) \in Nat
  <2>1. IsPart(rd.got) /\ Len(rd.got) <= Len(wr.handed)
    BY DEF ReaderInv, ReaderOk
  <2> QED
    BY <1>1, <2>1, InRecord, ReaderFacts
<1> HIDE DEF l, p
<1>5. /\ r \in ReaderRecords /\ r.reply = rd.reply /\ r.cur = rd.cur /\ r.opened = rd.opened
      /\ r.curSize = rd.curSize /\ r.curStart = rd.curStart /\ r.padSz = rd.padSz
      /\ r.error = rd.error /\ r.got = rd.got /\ r.pending = rd.pending
      /\ r.handled = rd.handled /\ r.pendingSz = rd.pendingSz
      /\ r.clearLen = l /\ r.clearAt = in.idx
  BY <1>4 DEF ReaderRecords
<1> HIDE DEF r
<1>6. Handlers(r)
  <2>1. ~(r.handled < NumHs) /\ NumHs \in Nat
    BY <1>2, <1>4, <1>5, SessionTyped
  <2> QED
    BY <1>2, <1>4, <1>5, <2>1 DEF Handlers
<1>7. Follows(r)
  BY <1>4, <1>5, <1>6 DEF Follows, Pends
<1>8. Moved(i, l + p)
  BY <1>4, MovesOn DEF l, p
<1>9. Taken(r) + r.clearLen = Taken(rd) + l
  BY <1>5 DEF Taken
<1>10. l = InputLength /\ p = rd.padSz
  BY DEF l, p
<1> HIDE DEF i
<1>11. l \in 1 .. InputLength /\ ~(l < InputLength)
  BY <1>4, <1>10
<1> QED
  BY <1>1, <1>3, <1>5, <1>7, <1>8, <1>9, <1>10, <1>11, AfterMessageKeeps

\* If the handlers have seen all there is, an unfinished message is left.
LEMMA NothingElse ==
    ASSUME WriterInv, ReaderInv, Handlers(rd), Taken(rd) = Len(wr.handed),
           NEW p \in Len(rd.got) + 1 .. Len(wr.handed)
    PROVE  ~wr.handed[p].cut
<1>1. /\ session \in Sessions /\ Len(rd.got) \in Nat /\ Len(rd.pending) \in Nat
      /\ Taken(rd) = Len(rd.got) + Len(rd.pending) /\ Len(wr.handed) \in Nat
      /\ IsPart(wr.handed)
  BY ReaderFacts DEF Taken, WriterInv
<1> DEFINE m == rd.handled + 1
           j == p - Len(rd.got)
           k == Len(rd.pending)
<1>2. j \in 1 .. k /\ k \in Nat /\ p = Len(rd.got) + j /\ p \in 1 .. Len(wr.handed)
  <2> DEFINE g == Len(rd.got)
             t == Taken(rd)
             h == Len(wr.handed)
  <2>1. p \in g + 1 .. h /\ t = h /\ t = g + k /\ g \in Nat /\ k \in Nat /\ h \in Nat
    BY <1>1
  <2> HIDE DEF g, t, h, k
  <2>2. p - g \in 1 .. k /\ p = g + (p - g) /\ p \in 1 .. h /\ k \in Nat
    BY <2>1
  <2> QED
    BY <2>2 DEF g, h
<1>3. rd.pendingSz # 0
  <2>1. rd.pending # <<>>
    BY <1>2
  <2> QED
    BY <2>1 DEF Handlers
<1>4. rd.handled < NumHs /\ rd.handled \in Nat /\ Len(rd.got) = Begin(m)
      /\ k \in 1 .. MsgLen(m) - 1
  BY <1>3 DEF Handlers
<1>5. m \in 1 .. NumHs /\ m \in 1 .. NumMsgs
  BY <1>1, <1>4, SessionTyped
<1> HIDE DEF m, j, k
<1>6. j \in 1 .. MsgLen(m) /\ j # MsgLen(m) /\ ~(m > NumHs)
  BY <1>1, <1>2, <1>4, <1>5, SessionTyped
<1>7. Script[p] = MsgBytes(m)[j]
  <2>1. Script[Begin(m) + j] = MsgBytes(m)[j]
    BY <1>1, <1>5, <1>6, ScriptHas
  <2> QED
    BY <1>2, <1>4, <2>1
<1>8. MsgBytes(m)[j].cut = (m > NumHs \/ j = MsgLen(m))
  <2>1. MsgBytes(m)[j] = [msg |-> m, no |-> j, cut |-> (m > NumHs \/ j = MsgLen(m))]
    BY <1>1, <1>5, <1>6, MessageTyped
  <2> QED
    BY <2>1
<1>9. wr.handed[p] = Script[p]
  BY <1>1, <1>2 DEF IsPart
<1> QED
  BY <1>6, <1>7, <1>8, <1>9

LEMMA DoAlertKeeps ==
    ASSUME WriterInv, ReaderInv, DoAlert
    PROVE  ReaderMoves
<1> DEFINE c == rd.cur
<1>1. /\ Reading /\ rd.reply = "runProcessingOneMessage" /\ recs[c].type = "alert"
      /\ wire' = wire /\ in' = [in EXCEPT !.idx = Len(in.buf)]
      /\ rd' = [rd EXCEPT !.reply = "doProcessInit", !.error = "ZERO_RETURN"]
  BY DEF DoAlert, Processing, streamVars
<1>2. /\ c \in 1 .. Len(recs) /\ Offset = 0 /\ From(c) + Offset = Taken(rd) /\ Handlers(rd)
  BY <1>1, InRecord
<1>3. c = Len(recs) /\ wr.phase # "sending"
  BY <1>1, <1>2 DEF WriterInv, AlertLast
<1>4. /\ InOk(in) /\ rd \in ReaderRecords /\ wire \in Seq(WireBytes) /\ c <= Len(recs)
      /\ IsPart(rd.got) /\ Len(rd.got) <= Len(wr.handed) /\ RecHdr \in Nat \ {0}
      /\ From(c) \in Nat /\ From(c + 1) = From(c) + Len(PartOf(recs[c]))
      /\ From(Len(recs) + 1) = Len(wr.handed)
  <2>1. IsPart(rd.got) /\ Len(rd.got) <= Len(wr.handed) /\ rd.cur <= Len(recs)
    BY DEF ReaderInv, ReaderOk
  <2>2. c \in 1 .. Len(recs) + 1
    BY <1>2, ReaderFacts
  <2> QED
    BY <1>2, <2>1, <2>2, ReaderFacts
<1>5. Taken(rd) = Len(wr.handed)
  <2>1. Len(PartOf(recs[c])) = 0
    BY <1>1 DEF PartOf
  <2> QED
    BY <1>2, <1>3, <1>4, <2>1
<1>6. \A p \in Len(rd.got) + 1 .. Len(wr.handed) : ~wr.handed[p].cut
  BY <1>2, <1>5, NothingElse
<1>7. /\ rd' \in ReaderRecords /\ rd'.cur = rd.cur /\ rd'.got = rd.got
      /\ rd'.reply = "doProcessInit" /\ rd'.error = "ZERO_RETURN"
  BY <1>1, <1>4 DEF ReaderRecords, Errors
<1>8. InOk(in') /\ Used(in') = 0
  BY <1>1, <1>4 DEF InOk, Used
<1>9. One(in', rd')
  BY <1>4, <1>7, <1>8 DEF One
<1>10. Ends(rd')
  BY <1>3, <1>6, <1>7 DEF Ends
<1>11. ReaderOk(in', rd', wire')
  BY <1>4, <1>7, <1>8, <1>9, <1>10 DEF ReaderOk, Reads
<1>12. Reads(rd)
  BY <1>1 DEF Reading, Reads
<1> QED
  BY <1>1, <1>4, <1>7, <1>11, <1>12 DEF ReaderMoves

-----------------------------------------------------------------------------
(* wolfSSL_read.                                                           *)

\* What has been decrypted and not read is the script's next bytes.
LEMMA ClearTells ==
    ASSUME WriterInv, ReaderInv, Handlers(rd), Clear(in, rd), rd.clearLen > 0,
           From(rd.cur + 1) = Taken(rd) + rd.clearLen, NEW n \in 0 .. rd.clearLen
    PROVE  LET bytes == SubSeq(in.buf, rd.clearAt + 1, rd.clearAt + n)
           IN  /\ Tells(bytes, Len(rd.got)) /\ Len(bytes) = n
               /\ Len(rd.got) + n <= Len(wr.handed)
<1> DEFINE c == rd.cur
           body == recs[c].body
           q == rd.clearLen
           x == rd.clearAt
           g == Len(rd.got)
           e == Len(body)
           bytes == SubSeq(in.buf, x + 1, x + n)
<1>1. /\ c \in 1 .. Len(recs) /\ recs[c].type # "alert" /\ q <= e
      /\ x + q <= Len(in.buf)
      /\ \A j \in 1 .. q : in.buf[x + j] = <<c, RecHdr + (e - q + j)>>
  BY DEF Clear
<1>2. /\ InOk(in) /\ rd \in ReaderRecords /\ session \in Sessions /\ g \in Nat
      /\ Len(wr.handed) \in Nat /\ e \in Nat /\ q \in Nat /\ x \in Nat
      /\ in.buf \in Seq(WireBytes) /\ Len(in.buf) \in Nat
      /\ n \in Nat /\ n <= q
  <2>1. InOk(in) /\ rd \in ReaderRecords /\ session \in Sessions /\ g \in Nat
        /\ Len(wr.handed) \in Nat /\ e \in Nat
    BY <1>1, ReaderFacts
  <2>2. q \in Nat /\ x \in Nat
    BY <2>1 DEF ReaderRecords
  <2> QED
    BY <2>1, <2>2 DEF InOk
<1>3. Taken(rd) = g
  <2>1. rd.pending = <<>>
    BY <1>2, SessionTyped DEF Handlers
  <2> QED
    BY <1>2, <2>1 DEF Taken
<1>4. /\ From(c + 1) = From(c) + e /\ From(c + 1) <= Len(wr.handed) /\ From(c) \in Nat
      /\ \A k \in 1 .. e : \A b : b = <<c, RecHdr + k>> => Content(b) = Script[From(c) + k]
  BY <1>1, PartAt
<1> DEFINE f == From(c)
           h == Len(wr.handed)
<1>5. f + e = g + q /\ g + q <= h /\ f \in Nat
  BY <1>3, <1>4
<1>6. /\ bytes \in Seq(WireBytes) /\ Len(bytes) = n
      /\ \A j \in 1 .. n : bytes[j] = in.buf[x + j]
  <2> DEFINE s == in.buf
             y == x + n
  <2>1. x \in 0 .. Len(s) /\ y \in x .. Len(s) /\ y - x = n /\ s \in Seq(WireBytes)
    <3> HIDE DEF x, s, q
    <3> QED
      BY <1>1, <1>2 DEF s
  <2> HIDE DEF s, y, x
  <2>2. /\ SubSeq(s, x + 1, y) \in Seq(WireBytes) /\ Len(SubSeq(s, x + 1, y)) = y - x
        /\ \A j \in 1 .. y - x : SubSeq(s, x + 1, y)[j] = s[x + j]
    BY <2>1, SliceIs
  <2>3. SubSeq(s, x + 1, y) = bytes
    BY DEF s, y
  <2> HIDE DEF bytes
  <2> QED
    BY <2>1, <2>2, <2>3 DEF s
<1> HIDE DEF bytes, f, g, h, e, q, x
<1>7. ASSUME NEW j \in 1 .. n PROVE Content(bytes[j]) = Script[g + j]
  <2> DEFINE k == e - q + j
  <2>1. k \in 1 .. e /\ f + k = g + j /\ j \in 1 .. q
    BY <1>1, <1>2, <1>5
  <2>2. bytes[j] = <<c, RecHdr + k>>
    BY <1>1, <1>6, <2>1
  <2> HIDE DEF k
  <2>3. Content(bytes[j]) = Script[f + k]
    BY <1>4, <2>1, <2>2 DEF e, f
  <2> QED
    BY <2>1, <2>3
<1>8. g + n <= h /\ g + n <= Len(Script)
  <2>1. g + n <= h
    BY <1>2, <1>5 DEF q, h
  <2>2. h <= Len(Script) /\ Len(Script) \in Nat
    BY <1>2, ScriptTyped DEF WriterInv, IsPart, h
  <2> QED
    BY <1>2, <2>1, <2>2 DEF h
<1>9. Tells(bytes, g)
  BY <1>6, <1>7, <1>8 DEF Tells
<1> QED
  BY <1>6, <1>8, <1>9 DEF g, h, bytes, x

\* An empty buffer is shrunk to an empty one.
LEMMA ShrunkEmpty ==
    ASSUME NEW i, InOk(i), Used(i) = 0, NEW q \in Nat
    PROVE  LET s == Shrunk(i, q)
           IN  InOk(s) /\ Used(s) = 0 /\ Rest(s) = <<>> /\ (q > 0 => s = i)
<1> DEFINE s == Shrunk(i, q)
           b == Ahead(i, Used(i))
<1>1. b \in Seq(WireBytes) /\ Len(b) = 0 /\ StaticLen \in Nat
  <2>1. b = Rest(i) /\ Rest(i) \in Seq(WireBytes) /\ Len(Rest(i)) = Used(i)
    BY InRest
  <2> HIDE DEF b
  <2> QED
    BY <2>1, RecordSizes
<1>2. s = i \/ (q = 0 /\ s = [buf |-> b, idx |-> 0, size |-> StaticLen])
  BY DEF Shrunk
<1> HIDE DEF b, s
<1>3. InOk(s) /\ Used(s) = 0
  <2>1. CASE s = i
    BY <2>1
  <2>2. CASE s = [buf |-> b, idx |-> 0, size |-> StaticLen]
    <3>1. s.buf = b /\ s.idx = 0 /\ s.size = StaticLen
          /\ s \in [buf : Seq(WireBytes), idx : Nat, size : Nat]
      BY <1>1, <2>2
    <3> QED
      BY <1>1, <3>1 DEF InOk, Used
  <2> QED
    BY <1>2, <2>1, <2>2
<1>4. Rest(s) = <<>>
  <2>1. Rest(s) \in Seq(WireBytes) /\ Len(Rest(s)) = 0
    BY <1>3, InRest
  <2> QED
    BY <2>1
<1>5. q > 0 => s = i
  BY <1>2
<1> QED
  BY <1>3, <1>4, <1>5 DEF s

LEMMA ReceiveDataKeeps ==
    ASSUME WriterInv, ReaderInv, ReceiveData
    PROVE  ReaderMoves
<1>1. PICK sz \in ReadSizes :
          LET n == Lesser(sz, rd.clearLen)
              bytes == SubSeq(in.buf, rd.clearAt + 1, rd.clearAt + n)
          IN  /\ rd' = [Copied(rd, n) EXCEPT !.got = @ \o Contents(bytes)]
              /\ in' = Shrunk(in, rd.clearLen - n)
  BY DEF ReceiveData
<1> DEFINE c == rd.cur
           q == rd.clearLen
           x == rd.clearAt
           g == Len(rd.got)
           n == Lesser(sz, q)
           bytes == SubSeq(in.buf, x + 1, x + n)
           more == rd.got \o Contents(bytes)
           e == Len(recs[c].body)
           k == Start(c + 1)
<1>2. Reading /\ rd.reply = "doProcessInit" /\ q > 0 /\ wire' = wire
  BY DEF ReceiveData, streamVars
<1>3. /\ Handlers(rd) /\ Clear(in, rd) /\ Between(in, rd, wire) /\ Reads(rd)
      /\ Behind(in, wire, k) /\ k \in Nat
  <2>1. Holds(in, rd, wire) /\ Between(in, rd, wire)
    BY <1>2, WhereItIs DEF Holds, Fetches, Processes
  <2>2. At(in, rd) = k
    BY <1>2 DEF At
  <2>3. Behind(in, wire, At(in, rd)) /\ At(in, rd) \in Nat
    BY <1>2, WhereItIs
  <2>4. Reads(rd)
    BY <1>2 DEF Reading, Reads
  <2> HIDE DEF k
  <2> QED
    BY <2>1, <2>2, <2>3, <2>4 DEF Holds
<1>4. /\ InOk(in) /\ rd \in ReaderRecords /\ session \in Sessions /\ g \in Nat
      /\ q \in Nat /\ x \in Nat /\ wire \in Seq(WireBytes) /\ Len(wr.handed) \in Nat
      /\ rd.got \in Seq(Byte) /\ IsPart(rd.got) /\ rd.error \in Errors
      /\ RecHdr \in Nat \ {0} /\ rd.cur <= Len(recs)
  <2>1. /\ InOk(in) /\ rd \in ReaderRecords /\ session \in Sessions /\ g \in Nat
        /\ wire \in Seq(WireBytes) /\ Len(wr.handed) \in Nat /\ RecHdr \in Nat \ {0}
    BY ReaderFacts
  <2>2. q \in Nat /\ x \in Nat /\ rd.got \in Seq(Byte) /\ rd.error \in Errors
    BY <2>1 DEF ReaderRecords
  <2>3. IsPart(rd.got) /\ rd.cur <= Len(recs)
    BY DEF ReaderInv, ReaderOk
  <2> QED
    BY <2>1, <2>2, <2>3
<1>5. /\ c \in 1 .. Len(recs) /\ recs[c].type = "application_data" /\ q <= e
      /\ x + q <= Len(in.buf) /\ Used(in) = 0
      /\ \A j \in 1 .. q : in.buf[x + j] = <<c, RecHdr + (e - q + j)>>
  BY <1>2, <1>3 DEF Clear
<1>6. e \in Nat
  BY <1>5, ReaderFacts
<1>7. /\ rd.handled = NumHs /\ g >= Begin(NumHs + 1) /\ rd.pendingSz = 0
      /\ rd.pending = <<>> /\ NumHs \in Nat
  BY <1>2, <1>3, <1>4, SessionTyped DEF Handlers
<1>8. n \in 0 .. q /\ n \in Nat /\ q - n \in Nat
  <2>1. sz \in Nat
    BY SessionsAssumption
  <2> QED
    BY <1>4, <2>1 DEF Lesser
<1>9. Taken(rd) = g /\ From(c + 1) = g + q
  <2>1. Taken(rd) = g
    BY <1>4, <1>7 DEF Taken
  <2> QED
    BY <1>3, <2>1 DEF Between
<1>10. Tells(bytes, g) /\ Len(bytes) = n /\ g + n <= Len(wr.handed)
  <2> HIDE DEF n
  <2>1. From(rd.cur + 1) = Taken(rd) + rd.clearLen
    BY <1>3 DEF Between
  <2> QED
    BY <1>2, <1>3, <1>8, <2>1, ClearTells
<1> HIDE DEF bytes, n
<1>11. more \in Seq(Byte) /\ IsPart(more) /\ Len(more) = g + n
  BY <1>4, <1>10, GotGrows
<1> HIDE DEF more
<1> DEFINE y == x + n
           z == q - n
<1>12. /\ rd' = [rd EXCEPT !.clearAt = y, !.clearLen = z, !.got = more]
       /\ in' = Shrunk(in, z)
  BY <1>1 DEF Copied, n, bytes, more
<1>13. y \in Nat /\ z \in Nat /\ z <= q /\ y + z = x + q /\ n + z = q /\ e - z = e - q + n
  <2> HIDE DEF x, q, e
  <2> QED
    BY <1>4, <1>6, <1>8
<1> HIDE DEF y, z
<1>14. /\ rd' \in ReaderRecords /\ rd'.reply = rd.reply /\ rd'.cur = c
       /\ rd'.opened = rd.opened /\ rd'.error = rd.error /\ rd'.got = more
       /\ rd'.pending = <<>> /\ rd'.pendingSz = 0 /\ rd'.handled = NumHs
       /\ rd'.clearAt = y /\ rd'.clearLen = z
  BY <1>4, <1>7, <1>11, <1>12, <1>13 DEF ReaderRecords
<1>15. InOk(in') /\ Used(in') = 0 /\ Rest(in') = <<>> /\ (z > 0 => in' = in)
  BY <1>4, <1>5, <1>12, <1>13, ShrunkEmpty
<1>16. Behind(in', wire', k)
  <2> HIDE DEF k
  <2>1. Rest(in) = <<>>
    <3>1. Rest(in) \in Seq(WireBytes) /\ Len(Rest(in)) = 0
      BY <1>4, <1>5, InRest
    <3> QED
      BY <3>1
  <2> QED
    BY <1>2, <1>3, <1>5, <1>15, <2>1 DEF Behind
<1>17. Between(in', rd', wire')
  <2>1. Taken(rd') = g + n
    BY <1>4, <1>8, <1>11, <1>14 DEF Taken
  <2>2. From(c + 1) = Taken(rd') + z
    <3> HIDE DEF g, q, c
    <3> QED
      BY <1>4, <1>8, <1>9, <1>13, <2>1
  <2> QED
    BY <1>2, <1>3, <1>14, <1>16, <2>2 DEF Between
<1>18. Clear(in', rd')
  <2>1. CASE ~(z > 0)
    BY <1>14, <2>1 DEF Clear
  <2>2. CASE z > 0
    <3>1. in' = in
      BY <1>15, <2>2
    <3>2. ASSUME NEW j \in 1 .. z
          PROVE  in'.buf[y + j] = <<c, RecHdr + (e - z + j)>>
      <4> DEFINE h == n + j
      <4>1. h \in 1 .. q /\ x + h = y + j /\ e - q + h = e - z + j
        <5> HIDE DEF x, q, e
        <5> QED
          BY <1>4, <1>6, <1>8, <1>13 DEF y
      <4> HIDE DEF h, c, q, x, e
      <4>2. in.buf[x + h] = <<c, RecHdr + (e - q + h)>>
        BY <1>5, <4>1
      <4> QED
        BY <3>1, <4>1, <4>2
    <3>3. y + z <= Len(in'.buf) /\ z <= e
      <4> HIDE DEF x, q, e
      <4> QED
        BY <1>4, <1>5, <1>6, <1>13, <3>1
    <3>4. rd'.clearAt = y /\ rd'.clearLen = z /\ rd'.cur = c
      BY <1>14
    <3> HIDE DEF c
    <3> QED
      BY <1>2, <1>5, <1>14, <1>15, <3>2, <3>3, <3>4 DEF Clear
  <2> QED
    BY <2>1, <2>2
<1>19. Handlers(rd') /\ Pends(rd')
  <2>1. Len(rd'.got) >= Begin(NumHs + 1)
    <3>1. NumHs + 1 \in 1 .. NumMsgs + 1
      BY <1>4, SessionTyped
    <3>2. Begin(NumHs + 1) \in Nat
      BY <1>4, <3>1, ScriptTyped
    <3> QED
      BY <1>4, <1>7, <1>8, <1>11, <1>14, <3>2
  <2>2. ~(rd'.handled < NumHs) /\ rd'.handled \in 0 .. NumHs
    BY <1>7, <1>14
  <2>3. Len(rd'.pending) = 0
    BY <1>14
  <2> QED
    BY <1>14, <2>1, <2>2, <2>3 DEF Handlers, Pends
<1>20. One(in', rd') /\ Ends(rd') /\ Reads(rd')
  BY <1>2, <1>3, <1>4, <1>14, <1>15 DEF One, Ends, Reads
<1>21. Holds(in', rd', wire')
  BY <1>17, <1>18, <1>19 DEF Holds
<1>22. IsPart(rd'.got) /\ Len(rd'.got) <= Len(wr.handed) /\ Len(rd.got) <= Len(rd'.got)
  BY <1>4, <1>8, <1>10, <1>11, <1>14
<1>23. ReaderOk(in', rd', wire')
  BY <1>4, <1>14, <1>15, <1>20, <1>21, <1>22 DEF ReaderOk
<1> QED
  BY <1>2, <1>3, <1>4, <1>20, <1>22, <1>23 DEF ReaderMoves

-----------------------------------------------------------------------------
(* The theorems.                                                           *)

LEMMA ReaderStepKeeps ==
    ASSUME WriterInv, ReaderInv, ReaderStep
    PROVE  ReaderMoves /\ WriterInv' /\ ReaderInv'
<1>1. ReaderMoves
  <2>1. Reader
    BY DEF ReaderStep
  <2>2. CASE GetHeader
    BY <2>2, GetHeaderKeeps
  <2>3. CASE GetData
    BY <2>3, GetDataKeeps
  <2>4. CASE DoMessage
    BY <2>4, DoMessageKeeps
  <2>5. CASE DoNextFragment
    BY <2>5, DoNextFragmentKeeps
  <2>6. CASE DoApplicationData
    BY <2>6, DoApplicationDataKeeps
  <2>7. CASE DoAlert
    BY <2>7, DoAlertKeeps
  <2>8. CASE ReceiveData
    BY <2>8, ReceiveDataKeeps
  <2> QED
    BY <2>1, <2>2, <2>3, <2>4, <2>5, <2>6, <2>7, <2>8 DEF Reader
<1>2. UNCHANGED <<session, recs, link>>
  BY DEF ReaderStep, Reader, GetHeader, GetData, DoMessage, DoNextFragment,
         DoApplicationData, DoAlert, ReceiveData, Processing, streamVars
<1>3. UNCHANGED <<session, recs, link, out, wr>> /\ UNCHANGED writerVars
  BY <1>2 DEF ReaderStep, writerVars
<1>4. ReaderInv'
  BY <1>1, <1>3, ReaderFrame DEF ReaderMoves
<1>5. wire' \in Seq(WireBytes)
  BY <1>1 DEF ReaderMoves
<1>6. WriterInv'
  BY <1>3, <1>5, WriterKept
<1> QED
  BY <1>1, <1>4, <1>6

LEMMA StepKeeps ==
    ASSUME WriterInv, ReaderInv, [Next]_vars
    PROVE  WriterInv' /\ ReaderInv'
<1>1. CASE WriterStep \/ (GiveUp /\ UNCHANGED readerVars)
  <2>1. (Writer \/ GiveUp) /\ UNCHANGED readerVars
    BY <1>1 DEF WriterStep
  <2> QED
    BY <2>1, WriterStepKeeps, WriterStepReader
<1>2. CASE ReaderStep
  BY <1>2, ReaderStepKeeps
<1>3. CASE Cut /\ UNCHANGED <<writerVars, readerVars>>
  BY <1>3, CutKeeps
<1>4. CASE UNCHANGED vars
  <2>1. UNCHANGED <<session, recs, link, out, wr>> /\ UNCHANGED writerVars
        /\ in' = in /\ rd' = rd /\ wire' = wire
    BY <1>4 DEF vars, streamVars, writerVars, readerVars
  <2>2. wire' \in Seq(WireBytes)
    BY <2>1, ReaderFacts
  <2>3. WriterInv'
    BY <2>1, <2>2, WriterKept
  <2>4. ReaderInv'
    BY <2>1, ReaderFrame DEF ReaderInv
  <2> QED
    BY <2>3, <2>4
<1> QED
  BY <1>1, <1>2, <1>3, <1>4 DEF Next

\* The invariant of both record layers: the indices of the sender say what it
\* has handed over, the records carry that and nothing else, the network and
\* both buffers hold the records' bytes in order, and the receiver's indices
\* say which of them it has processed.
THEOREM RecordInvariant == Spec => [](WriterInv /\ ReaderInv)
<1>1. Init => WriterInv /\ ReaderInv
  BY InitHolds
<1>2. WriterInv /\ ReaderInv /\ [Next]_vars => (WriterInv /\ ReaderInv)'
  BY StepKeeps
<1> QED
  BY <1>1, <1>2, PTL DEF Spec

LEMMA PrefixIs ==
    ASSUME NEW S, NEW s \in Seq(S), NEW t \in Seq(S), Len(s) <= Len(t),
           \A j \in 1 .. Len(s) : s[j] = t[j]
    PROVE  IsPrefix(s, t)
<1> DEFINE n == Len(s)
           a == SubSeq(s, 1, n)
           b == SubSeq(t, 1, n)
<1>1. /\ n \in Nat /\ Len(t) \in Nat /\ 0 \in 0 .. Len(s) /\ 0 \in 0 .. Len(t)
      /\ n \in 0 .. Len(s) /\ n \in 0 .. Len(t) /\ 0 + 1 = 1 /\ n - 0 = n
      /\ \A j \in 1 .. n : 0 + j = j
  OBVIOUS
<1>2. a \in Seq(S) /\ Len(a) = n /\ \A j \in 1 .. n : a[j] = s[j]
  <2>1. /\ SubSeq(s, 0 + 1, n) \in Seq(S) /\ Len(SubSeq(s, 0 + 1, n)) = n - 0
        /\ \A j \in 1 .. n - 0 : SubSeq(s, 0 + 1, n)[j] = s[0 + j]
    BY <1>1, SliceIs
  <2> QED
    BY <1>1, <2>1
<1>3. b \in Seq(S) /\ Len(b) = n /\ \A j \in 1 .. n : b[j] = t[j]
  <2>1. /\ SubSeq(t, 0 + 1, n) \in Seq(S) /\ Len(SubSeq(t, 0 + 1, n)) = n - 0
        /\ \A j \in 1 .. n - 0 : SubSeq(t, 0 + 1, n)[j] = t[0 + j]
    <3> HIDE DEF n
    <3> QED
      BY <1>1, SliceIs
  <2> QED
    BY <1>1, <2>1
<1>4. a = b
  <2> HIDE DEF a, b
  <2> QED
    BY <1>2, <1>3
<1> QED
  BY <1>4 DEF IsPrefix

\* However often its calls are blocked and made again, wolfSSL's sender (the
\* connect and accept switch, SendTls13Certificate, SendData) hands over the
\* messages of its session in order, each byte once.
THEOREM HandsInOrder == Spec => []SentInOrder
<1>1. ASSUME WriterInv
      PROVE  SentInOrder
  <2>1. /\ wr.handed \in Seq(Byte) /\ session \in Sessions /\ Len(wr.handed) <= Len(Script)
        /\ \A j \in 1 .. Len(wr.handed) : wr.handed[j] = Script[j]
    BY <1>1 DEF WriterInv, WriterTyped, WriterRecords, IsPart
  <2>2. Script \in Seq(Byte)
    BY <2>1, ScriptTyped
  <2> QED
    BY <2>1, <2>2, PrefixIs DEF SentInOrder
<1> QED
  BY <1>1, RecordInvariant, PTL

\* The input buffer holds nothing behind the record that is being read, so
\* that the keys may change after any handshake message and the end of the
\* buffer may stand for the end of the record in DoTls13HandShakeMsg.
THEOREM NothingBehindRecord == Spec => []OneRecord
<1>1. ASSUME ReaderInv
      PROVE  OneRecord
  BY <1>1 DEF ReaderInv, ReaderOk, One, OneRecord
<1> QED
  BY <1>1, RecordInvariant, PTL

\* The types of the variables, and the indices of the buffers within them.
THEOREM TypeCorrect == Spec => []TypeOK
<1>1. ASSUME WriterInv, ReaderInv
      PROVE  TypeOK
  <2>1. /\ session \in Sessions /\ wire \in Seq(Nat \X Nat)
        /\ link \in {"up", "stopped", "cut"} /\ wr.error \in Errors
        /\ wr.handed \in Seq(Byte)
    BY <1>1 DEF WriterInv, WriterTyped, WriterRecords, WireBytes, Errors
  <2>2. out.buf \in Seq(Nat \X Nat) /\ out.idx \in 0 .. Len(out.buf)
    BY <1>1 DEF WriterInv, WriterTyped, OutOk, WireBytes
  <2>3. /\ in.buf \in Seq(Nat \X Nat) /\ in.idx \in 0 .. Len(in.buf) /\ Len(in.buf) <= in.size
    BY <1>1 DEF ReaderInv, ReaderOk, InOk, WireBytes
  <2>4. rd.error \in Errors /\ rd.got \in Seq(Byte)
    BY <1>1 DEF ReaderInv, ReaderOk, ReaderRecords
  <2>5. recs \in Seq(Records)
    BY <1>1 DEF WriterInv, WriterTyped
  <2> QED
    BY <2>1, <2>2, <2>3, <2>4, <2>5 DEF TypeOK, Records
<1> QED
  BY <1>1, RecordInvariant, PTL

\* As long as no record of the handshake is longer than MAX_RECORD_SIZE, every
\* record opens and data comes in time, however the sender's calls were blocked
\* and whatever the network cut off.  Every message parses, too, except an
\* alert in the clear and a message another implementation splits inside its
\* header: what wolfSSL sends to wolfSSL is refused for that alert only.
THEOREM RecordsThatFitOpen == Spec => [](FragmentsFit => RecordsOpen)
<1>1. ASSUME WriterInv, ReaderInv, FragmentsFit
      PROVE  RecordsOpen
  <2>1. SplitAt(rd) => HeaderSplit
    <3>1. DOMAIN recs = 1 .. Len(recs)
      BY <1>1 DEF WriterInv, WriterTyped
    <3> QED
      BY <3>1 DEF SplitAt, HeaderSplit, Last
  <2> QED
    BY <1>1, <2>1 DEF ReaderInv, ReaderOk, Ends, RecordsOpen
<1>2. WriterInv /\ ReaderInv => (FragmentsFit => RecordsOpen)
  BY <1>1
<1> QED
  BY <1>2, RecordInvariant, PTL

\* Between two boards of this repository every message's header is there when
\* GetHandshakeHeader looks for it: no record of its writer ends inside one.
THEOREM BoardsReadHeaders ==
    ASSUME \A s \in Sessions : s.peer = "wolfSSL"
    PROVE  Spec => []HeadersAreThere
<1>1. ASSUME WriterInv, ReaderInv
      PROVE  HeadersAreThere
  <2>1. session \in Sessions
    BY <1>1 DEF WriterInv, WriterTyped
  <2>2. session.peer # "other"
    BY <2>1
  <2> QED
    BY <1>1, <2>2 DEF ReaderInv, ReaderOk, Ends, SplitAt, HeadersAreThere
<1>2. WriterInv /\ ReaderInv => HeadersAreThere
  BY <1>1
<1> QED
  BY <1>2, RecordInvariant, PTL

\* The handlers are left with whole messages.
LEMMA LeftWhole ==
    ASSUME session \in Sessions, NEW r \in ReaderRecords, Handlers(r), IsPart(r.got)
    PROVE  Channel!Whole(r.got)
<1> DEFINE g == r.got
           p == Len(g)
<1>1. SUFFICES ASSUME p # 0 PROVE g[p].cut
  <2>1. g \in Seq(Byte)
    BY DEF ReaderRecords
  <2> QED
    BY <2>1 DEF Channel!Whole
<1>2. p \in 1 .. Len(Script) /\ g[p] = Script[p] /\ p \in Nat
  <2>1. g \in Seq(Byte) /\ p \in Nat /\ Len(Script) \in Nat
    BY ScriptTyped DEF ReaderRecords
  <2> QED
    BY <1>1, <2>1 DEF IsPart
<1> DEFINE m == Script[p].msg
           i == Script[p].no
<1>3. /\ m \in 1 .. NumMsgs /\ i \in 1 .. MsgLen(m) /\ p = Begin(m) + i
      /\ Script[p].cut = (m > NumHs \/ i = MsgLen(m))
  BY <1>2, ScriptAt
<1>4. /\ NumHs \in Nat \ {0} /\ NumMsgs \in Nat /\ NumHs <= NumMsgs
      /\ r.handled \in 0 .. NumHs
  BY SessionTyped DEF Handlers
<1> HIDE DEF p, m, i
<1>5. Begin(m + 1) = Begin(m) + MsgLen(m) /\ Begin(m) \in Nat /\ MsgLen(m) \in Nat
  <2>1. m \in 1 .. NumMsgs + 1
    BY <1>3, <1>4
  <2> QED
    BY <1>3, <2>1, ScriptTyped, SessionTyped
<1>6. PICK h \in 1 .. NumHs + 1 : p >= Begin(h) /\ (h # NumHs + 1 => p = Begin(h))
  <2>1. CASE r.handled < NumHs
    <3>1. p = Begin(r.handled + 1) /\ r.handled + 1 \in 1 .. NumHs + 1
      BY <1>4, <2>1 DEF Handlers, p
    <3> QED
      BY <1>2, <3>1
  <2>2. CASE ~(r.handled < NumHs)
    <3>1. p >= Begin(NumHs + 1) /\ NumHs + 1 \in 1 .. NumHs + 1
      BY <1>4, <2>2 DEF Handlers, p
    <3> QED
      BY <3>1
  <2> QED
    BY <2>1, <2>2
<1>7. Begin(h) \in Nat /\ h \in 1 .. NumMsgs + 1
  <2>1. h \in 1 .. NumMsgs + 1
    BY <1>4
  <2> QED
    BY <2>1, ScriptTyped
<1>8. CASE m >= h
  <2>1. CASE h = NumHs + 1
    <3>1. m > NumHs
      BY <1>3, <1>4, <1>8, <2>1
    <3>2. Script[p].cut
      BY <1>3, <3>1
    <3> QED
      BY <1>2, <3>2
  <2>2. CASE h # NumHs + 1
    <3>1. Begin(h) <= Begin(m)
      <4>1. m \in h .. NumMsgs + 1
        BY <1>3, <1>4, <1>7, <1>8
      <4> QED
        BY <1>7, <4>1, BeginMonotone
    <3>2. p = Begin(h)
      BY <1>6, <2>2
    <3> QED
      BY <1>3, <1>5, <1>7, <3>1, <3>2
  <2> QED
    BY <2>1, <2>2
<1>9. CASE ~(m >= h)
  <2>1. Begin(m + 1) <= Begin(h)
    <3>1. m + 1 \in 1 .. NumMsgs + 1 /\ h \in m + 1 .. NumMsgs + 1
      BY <1>3, <1>4, <1>7, <1>9
    <3> QED
      BY <3>1, BeginMonotone
  <2>2. i = MsgLen(m)
    BY <1>3, <1>5, <1>6, <1>7, <2>1
  <2> QED
    BY <1>2, <1>3, <2>2
<1> QED
  BY <1>3, <1>7, <1>8, <1>9

\* A writer's step hands over more, or nothing.
LEMMA WriterHandsOver ==
    ASSUME WriterInv, ReaderInv, Writer \/ GiveUp, UNCHANGED readerVars
    PROVE  [Channel!Next]_(Channel!vars)
<1>1. rd' = rd /\ WriterInv' /\ WriterTurn
  BY WriterStepKeeps DEF readerVars
<1>2. wr.handed \in Seq(Byte) /\ wr'.handed \in Seq(Byte)
  BY <1>1 DEF WriterInv, WriterTyped, WriterRecords
<1>3. CASE wr'.handed = wr.handed
  BY <1>1, <1>3 DEF Channel!vars
<1>4. CASE wr'.handed # wr.handed
  <2>1. wr.phase = "sending"
    BY <1>1, <1>4 DEF WriterTurn
  <2>2. rd.error # "ZERO_RETURN"
    BY <2>1 DEF ReaderInv, ReaderOk, Ends
  <2>3. PICK rec \in Records : wr'.handed = wr.handed \o PartOf(rec)
    BY <1>1, <1>4 DEF WriterTurn
  <2> DEFINE s == wr.handed
             t == wr'.handed
             part == PartOf(rec)
  <2>4. part \in Seq(Byte)
    BY DEF PartOf, Records
  <2>5. IsPrefix(s, t)
    <3>1. /\ t = s \o part /\ s \in Seq(Byte) /\ t \in Seq(Byte)
      BY <1>2, <2>3
    <3> HIDE DEF s, t, part
    <3>2. /\ Len(t) = Len(s) + Len(part) /\ Len(s) \in Nat /\ Len(part) \in Nat
          /\ \A j \in 1 .. Len(s) : t[j] = s[j]
      BY <2>4, <3>1, ConcatIs
    <3>3. Len(s) <= Len(t) /\ \A j \in 1 .. Len(s) : s[j] = t[j]
      BY <3>2
    <3> QED
      BY <3>1, <3>3, PrefixIs
  <2>6. Channel!IsStrictPrefix(s, t)
    BY <1>4, <2>5 DEF IsPrefix, Channel!IsStrictPrefix, Channel!IsPrefix
  <2>7. \A i \in DOMAIN t : t[i] \in Byte
    BY <1>2
  <2>8. Channel!HandOver
    BY <1>1, <2>2, <2>6, <2>7 DEF Channel!HandOver
  <2> QED
    BY <2>8 DEF Channel!Next
<1> QED
  BY <1>3, <1>4

\* A reader's step delivers whole messages of what has been handed over, or
\* tells that there is no more.
LEMMA ReaderDelivers ==
    ASSUME WriterInv, ReaderInv, ReaderStep
    PROVE  [Channel!Next]_(Channel!vars)
<1>1. ReaderMoves /\ wr' = wr
  BY ReaderStepKeeps DEF ReaderStep, writerVars
<1>2. /\ ReaderOk(in', rd', wire') /\ rd.error # "ZERO_RETURN"
      /\ session \in Sessions /\ rd.got \in Seq(Byte) /\ rd' \in ReaderRecords
  <2>1. rd \in ReaderRecords /\ session \in Sessions
    BY ReaderFacts
  <2> QED
    BY <1>1, <2>1 DEF ReaderMoves, ReaderOk, Reads, ReaderRecords
<1>3. rd'.got \in Seq(Byte)
  BY <1>2 DEF ReaderRecords
<1>4. CASE rd'.got = rd.got /\ rd'.error # "ZERO_RETURN"
  BY <1>1, <1>2, <1>4 DEF Channel!vars
<1>5. CASE rd'.got = rd.got /\ rd'.error = "ZERO_RETURN"
  <2>1. \A p \in Len(rd'.got) + 1 .. Len(wr.handed) : ~wr.handed[p].cut
    BY <1>2, <1>5 DEF ReaderOk, Ends
  <2>2. Channel!Unfinished
    BY <1>5, <2>1 DEF Channel!Unfinished
  <2>3. Channel!EndOfData
    BY <1>1, <1>2, <1>5, <2>2 DEF Channel!EndOfData
  <2> QED
    BY <2>3 DEF Channel!Next
<1>6. CASE rd'.got # rd.got
  <2>1. Reads(rd') /\ Len(rd.got) <= Len(rd'.got)
    BY <1>1, <1>6 DEF ReaderMoves
  <2>2. /\ IsPart(rd.got) /\ IsPart(rd'.got) /\ IsPart(wr.handed)
        /\ Len(rd'.got) <= Len(wr.handed) /\ Handlers(rd') /\ rd'.error # "ZERO_RETURN"
        /\ wr.handed \in Seq(Byte)
    BY <1>2, <2>1 DEF ReaderOk, ReaderInv, WriterInv, WriterTyped, WriterRecords, Reads, Holds
  <2>3. Channel!Whole(rd'.got)
    BY <1>2, <2>2, LeftWhole
  <2> DEFINE s == rd.got
             t == rd'.got
             h == wr.handed
  <2>4. /\ s \in Seq(Byte) /\ t \in Seq(Byte) /\ h \in Seq(Byte)
        /\ Len(s) <= Len(t) /\ Len(t) <= Len(h)
        /\ \A j \in 1 .. Len(s) : s[j] = Script[j]
        /\ \A j \in 1 .. Len(t) : t[j] = Script[j]
        /\ \A j \in 1 .. Len(h) : h[j] = Script[j]
    BY <1>2, <1>3, <2>1, <2>2 DEF IsPart
  <2> HIDE DEF s, t, h
  <2>5. /\ \A j \in 1 .. Len(s) : s[j] = t[j]
        /\ \A j \in 1 .. Len(t) : t[j] = h[j]
    <3>1. Len(s) \in Nat /\ Len(t) \in Nat /\ Len(h) \in Nat
      BY <2>4
    <3> QED
      BY <2>4, <3>1
  <2>6. IsPrefix(s, t)
    BY <2>4, <2>5, PrefixIs
  <2>7. IsPrefix(t, h)
    BY <2>4, <2>5, PrefixIs
  <2>8. Channel!IsStrictPrefix(rd.got, rd'.got) /\ Channel!IsPrefix(rd'.got, wr.handed)
    BY <1>6, <2>6, <2>7
       DEF IsPrefix, Channel!IsStrictPrefix, Channel!IsPrefix, s, t, h
  <2>9. Channel!Deliver
    BY <1>1, <1>2, <2>2, <2>3, <2>8 DEF Channel!Deliver
  <2> QED
    BY <2>9 DEF Channel!Next
<1> QED
  BY <1>4, <1>5, <1>6

\* The record layer is a byte channel: whatever blocks, comes in pieces or is
\* cut off, the receiver gets what was handed over, in order and once, a
\* handshake message only as a whole, and a close_notify means that there is
\* no more.
THEOREM RecordLayerIsChannel == Spec => IsChannel
<1>1. Init => Channel!Init
  BY DEF Init, WriterInit, ReaderInit, Channel!Init
<1>2. WriterInv /\ ReaderInv /\ [Next]_vars => [Channel!Next]_(Channel!vars)
  <2> SUFFICES ASSUME WriterInv, ReaderInv, [Next]_vars
               PROVE  [Channel!Next]_(Channel!vars)
    OBVIOUS
  <2>1. CASE WriterStep \/ (GiveUp /\ UNCHANGED readerVars)
    <3>1. (Writer \/ GiveUp) /\ UNCHANGED readerVars
      BY <2>1 DEF WriterStep
    <3> QED
      BY <3>1, WriterHandsOver
  <2>2. CASE ReaderStep
    BY <2>2, ReaderDelivers
  <2>3. CASE (Cut /\ UNCHANGED <<writerVars, readerVars>>) \/ UNCHANGED vars
    BY <2>3 DEF vars, writerVars, readerVars, Channel!vars
  <2> QED
    BY <2>1, <2>2, <2>3 DEF Next
<1> QED
  BY <1>1, <1>2, RecordInvariant, PTL DEF Spec, IsChannel, Channel!Spec

===============================================================================
