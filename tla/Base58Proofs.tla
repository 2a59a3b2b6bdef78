----------------------------- MODULE Base58Proofs -----------------------------
(***************************************************************************)
(* Theorems about base58, for input of any bytes: the text of 34 bytes     *)
(* fits the buffers it is given, and is read back as the bytes it was made *)
(* of.                                                                     *)
(***************************************************************************)
EXTENDS Base58, WellFoundedInduction, SequenceTheorems, TLAPS

-----------------------------------------------------------------------------
(* Induction, and the recursive functions of the model.                    *)

\* Induction over the natural numbers, for a set of them.
LEMMA NatSet ==
    ASSUME NEW S \in SUBSET Nat, 0 \in S, \A n \in S : n + 1 \in S
    PROVE  S = Nat
<1>1. SUFFICES ASSUME Nat \ S # {}
               PROVE  FALSE
  OBVIOUS
<1>2. PICK n \in Nat \ S : \A k \in Nat \ S : <<k, n>> \notin OpToRel(<, Nat)
  BY <1>1, NatLessThanWellFounded, WFMin
<1>3. \A k \in Nat \ S : ~(k < n)
  BY <1>2 DEF OpToRel
<1>4. n - 1 \in Nat /\ n - 1 < n /\ (n - 1) + 1 = n
  OBVIOUS
<1> QED
  BY <1>3, <1>4

\* A loop of n rounds, each of which makes a state of the one before.
Rounds(S) == [Nat -> [S -> S]]

Runs(S, a, G, n, f) ==
    /\ f \in [0 .. n -> S] /\ f[0] = a
    /\ \A i \in 1 .. n : f[i] = G[i][f[i - 1]]

LEMMA LoopRuns ==
    ASSUME NEW S, NEW a \in S, NEW G \in Rounds(S), NEW n \in Nat
    PROVE  \E f : Runs(S, a, G, n, f)
<1> USE DEF Rounds, Runs
<1> DEFINE N == {m \in Nat : \E f : Runs(S, a, G, m, f)}
<1>1. 0 \in N
  <2>1. Runs(S, a, G, 0, [i \in 0 .. 0 |-> a])
    OBVIOUS
  <2> QED
    BY <2>1
<1>2. ASSUME NEW m \in N
      PROVE  m + 1 \in N
  <2>1. PICK g : Runs(S, a, G, m, g)
    OBVIOUS
  <2>2. m \in Nat /\ g[m] \in S
    BY <2>1
  <2> DEFINE last == G[m + 1][g[m]]
             f == [i \in 0 .. m + 1 |-> IF i <= m THEN g[i] ELSE last]
  <2>3. last \in S
    BY <2>2
  <2>4. f[m + 1] = G[m + 1][g[m]]
    BY <2>2
  <2> HIDE DEF last
  <2>5. f \in [0 .. m + 1 -> S]
    BY <2>1, <2>2, <2>3
  <2>6. \A i \in 0 .. m : f[i] = g[i]
    BY <2>2
  <2> HIDE DEF f
  <2>7. f[0] = a
    BY <2>1, <2>2, <2>6
  <2>8. ASSUME NEW i \in 1 .. m + 1
        PROVE  f[i] = G[i][f[i - 1]]
    <3>1. i - 1 \in 0 .. m /\ f[i - 1] = g[i - 1]
      BY <2>2, <2>6
    <3>2. CASE i = m + 1
      BY <2>2, <2>4, <3>1, <3>2
    <3>3. CASE i \in 1 .. m
      BY <2>1, <2>2, <2>6, <3>1, <3>3
    <3> QED
      BY <2>2, <3>2, <3>3
  <2>9. Runs(S, a, G, m + 1, f)
    BY <2>5, <2>7, <2>8
  <2> HIDE DEF Runs
  <2> QED
    BY <2>2, <2>9
<1>3. N = Nat
  <2> HIDE DEF N
  <2>1. N \in SUBSET Nat
    BY DEF N
  <2> QED
    BY <1>1, <1>2, <2>1, NatSet
<1> QED
  BY <1>3

-----------------------------------------------------------------------------
(* Numbers and their digits, the lowest first.                             *)

Bases == {58, 256}

Digits(base) == 0 .. base - 1

\* The digits of a number, none of them in excess.
Numerals(base) ==
    {digits \in Seq(Digits(base)) : digits # <<>> => digits[Len(digits)] # 0}

\* left[i] is what is left of a number when its first i digits are taken off.
Leaves(digits, base, left) ==
    /\ left \in [Nat -> Nat]
    /\ \A i \in Nat : i >= Len(digits) => left[i] = 0
    /\ \A i \in 1 .. Len(digits) : left[i - 1] = digits[i] + base * left[i]

StandsFor(digits, base, number) ==
    \E left : Leaves(digits, base, left) /\ left[0] = number

LEMMA NumeralTyped ==
    ASSUME NEW base \in Bases, NEW digits \in Numerals(base)
    PROVE  /\ base \in Nat \ {0, 1} /\ Len(digits) \in Nat
           /\ digits \in Seq(Nat)
           /\ \A i \in 1 .. Len(digits) :
                  digits[i] \in 0 .. base - 1 /\ digits[i] \in Nat
           /\ Len(digits) # 0 => digits[Len(digits)] # 0
<1> DEFINE D == Digits(base)
<1>1. base \in Nat \ {0, 1}
  BY DEF Bases
<1>2. \A d \in D : d \in Nat
  BY <1>1 DEF Digits
<1>3. digits \in Seq(D) /\ (digits # <<>> => digits[Len(digits)] # 0)
  BY DEF Numerals
<1> HIDE DEF D
<1>4. \A i \in 1 .. Len(digits) : digits[i] \in D
  BY <1>3
<1>5. digits \in Seq(Nat)
  BY <1>2, <1>3
<1> QED
  BY <1>1, <1>2, <1>3, <1>4, <1>5 DEF D, Digits

LEMMA LeftDivides ==
    ASSUME NEW base \in Bases, NEW digits \in Numerals(base), NEW left,
           Leaves(digits, base, left)
    PROVE  \A i \in Nat : left[i + 1] = left[i] \div base
<1> TAKE i \in Nat
<1>1. left[i] \in Nat /\ left[i + 1] \in Nat
  BY DEF Leaves
<1>2. base \in Nat /\ base > 0
  BY DEF Bases
<1>3. Len(digits) \in Nat
  BY DEF Numerals
<1>4. CASE i + 1 <= Len(digits)
  <2>1. left[i] = digits[i + 1] + base * left[i + 1]
    <3>1. i + 1 \in 1 .. Len(digits) /\ (i + 1) - 1 = i
      BY <1>3, <1>4
    <3> QED
      BY <3>1 DEF Leaves
  <2>2. digits[i + 1] \in 0 .. base - 1
    <3>1. i + 1 \in 1 .. Len(digits)
      BY <1>3, <1>4
    <3> QED
      BY <3>1, NumeralTyped
  <2> DEFINE d == digits[i + 1]
             l == left[i]
             m == left[i + 1]
  <2>3. l \in Nat /\ m \in Nat /\ d \in 0 .. base - 1 /\ l = d + base * m
    BY <1>1, <2>1, <2>2
  <2> HIDE DEF d, l, m
  <2>4. m = l \div base
    <3>1. CASE base = 58
      BY <2>3, <3>1
    <3>2. CASE base = 256
      BY <2>3, <3>2
    <3> QED
      BY <3>1, <3>2 DEF Bases
  <2> QED
    BY <2>4 DEF l, m
<1>5. CASE i + 1 > Len(digits)
  <2>1. left[i] = 0 /\ left[i + 1] = 0
    BY <1>3, <1>5 DEF Leaves
  <2>2. 0 \div base = 0
    BY DEF Bases
  <2> QED
    BY <2>1, <2>2
<1> QED
  BY <1>3, <1>4, <1>5

\* As long as there are digits something is left.
LEMMA LeftPositive ==
    ASSUME NEW base \in Bases, NEW digits \in Numerals(base), NEW left,
           Leaves(digits, base, left)
    PROVE  \A i \in Nat : left[i] = 0 <=> i >= Len(digits)
<1> DEFINE n == Len(digits)
           N == {k \in Nat : k < n => left[n - 1 - k] # 0}
<1>1. n \in Nat
  BY DEF Numerals
<1>2. 0 \in N
  <2>1. SUFFICES ASSUME 0 < n
                 PROVE  left[n - 1] # 0
    BY <1>1
  <2>2. left[n - 1] = digits[n] + base * left[n] /\ left[n] = 0
    BY <1>1, <2>1 DEF Leaves
  <2>3. digits[n] # 0 /\ digits[n] \in 0 .. base - 1
    <3>1. n \in 1 .. n /\ n # 0
      BY <1>1, <2>1
    <3> QED
      BY <3>1, NumeralTyped
  <2>4. digits[n] + base * 0 # 0
    BY <2>3 DEF Bases
  <2> QED
    BY <2>2, <2>4
<1>3. ASSUME NEW k \in N
      PROVE  k + 1 \in N
  <2>1. SUFFICES ASSUME k + 1 < n
                 PROVE  left[n - 1 - (k + 1)] # 0
    OBVIOUS
  <2> DEFINE i == n - 1 - k
  <2>2. k \in Nat /\ i \in 1 .. n /\ n - 1 - (k + 1) = i - 1 /\ i \in Nat
    BY <1>1, <2>1
  <2>3. left[i] # 0 /\ left[i] \in Nat
    <3>1. k < n
      BY <1>1, <2>1, <2>2
    <3> QED
      BY <2>2, <3>1 DEF Leaves
  <2> HIDE DEF i
  <2>4. left[i - 1] = digits[i] + base * left[i] /\ digits[i] \in Nat
    <3>2. digits[i] \in Nat
      BY <2>2, NumeralTyped
    <3> QED
      BY <2>2, <3>2 DEF Leaves
  <2> DEFINE d == digits[i]
             l == left[i]
  <2>5. d \in Nat /\ l \in Nat /\ l # 0 /\ left[i - 1] = d + base * l
    BY <2>3, <2>4
  <2> HIDE DEF d, l
  <2>6. d + base * l # 0
    <3>1. CASE base = 58
      BY <2>5, <3>1
    <3>2. CASE base = 256
      BY <2>5, <3>2
    <3> QED
      BY <3>1, <3>2 DEF Bases
  <2> QED
    BY <2>2, <2>5, <2>6
<1>4. N = Nat
  <2> HIDE DEF N
  <2>1. N \in SUBSET Nat
    BY DEF N
  <2> QED
    BY <1>2, <1>3, <2>1, NatSet
<1> TAKE i \in Nat
<1>5. CASE i >= n
  BY <1>5 DEF Leaves
<1>6. CASE i < n
  <2> DEFINE k == n - 1 - i
  <2>1. k \in Nat /\ k < n /\ n - 1 - k = i
    BY <1>1, <1>6
  <2>2. k \in N
    BY <1>4, <2>1
  <2> HIDE DEF k
  <2>3. left[i] # 0
    BY <2>1, <2>2
  <2> QED
    BY <1>1, <1>6, <2>3
<1> QED
  BY <1>1, <1>5, <1>6

\* A numeral stands for one number only.
LEMMA NumberUnique ==
    ASSUME NEW base \in Bases, NEW digits \in Numerals(base),
           NEW a, StandsFor(digits, base, a), NEW b, StandsFor(digits, base, b)
    PROVE  a = b
<1>1. PICK l : Leaves(digits, base, l) /\ l[0] = a
  BY DEF StandsFor
<1>2. PICK m : Leaves(digits, base, m) /\ m[0] = b
  BY DEF StandsFor
<1> DEFINE n == Len(digits)
           N == {k \in Nat : k <= n => l[n - k] = m[n - k]}
<1>3. n \in Nat
  BY DEF Numerals
<1>4. 0 \in N
  <2>1. n - 0 = n /\ n >= n
    BY <1>3
  <2>2. l[n] = 0 /\ m[n] = 0
    BY <1>1, <1>2, <1>3, <2>1 DEF Leaves
  <2> QED
    BY <2>1, <2>2
<1>5. ASSUME NEW k \in N
      PROVE  k + 1 \in N
  <2>1. SUFFICES ASSUME k + 1 <= n
                 PROVE  l[n - (k + 1)] = m[n - (k + 1)]
    OBVIOUS
  <2> DEFINE i == n - k
  <2>2. i \in 1 .. n /\ n - (k + 1) = i - 1 /\ k <= n
    BY <1>3, <2>1
  <2>3. l[i] = m[i]
    BY <2>2
  <2> HIDE DEF i
  <2>4. /\ l[i - 1] = digits[i] + base * l[i]
        /\ m[i - 1] = digits[i] + base * m[i]
    BY <1>1, <1>2, <2>2 DEF Leaves
  <2> QED
    BY <2>2, <2>3, <2>4
<1>6. N = Nat
  <2> HIDE DEF N
  <2>1. N \in SUBSET Nat
    BY DEF N
  <2> QED
    BY <1>4, <1>5, <2>1, NatSet
<1>7. l[0] = m[0]
  <2>1. n \in N /\ n <= n /\ n - n = 0
    BY <1>3, <1>6
  <2> QED
    BY <2>1
<1> QED
  BY <1>1, <1>2, <1>7

\* A number has one numeral in each base.
LEMMA NumeralUnique ==
    ASSUME NEW base \in Bases, NEW a \in Numerals(base), NEW b \in Numerals(base),
           NEW number, StandsFor(a, base, number), StandsFor(b, base, number)
    PROVE  a = b
<1>1. PICK l : Leaves(a, base, l) /\ l[0] = number
  BY DEF StandsFor
<1>2. PICK m : Leaves(b, base, m) /\ m[0] = number
  BY DEF StandsFor
<1> DEFINE N == {i \in Nat : l[i] = m[i]}
<1>3. 0 \in N
  BY <1>1, <1>2
<1>4. ASSUME NEW i \in N
      PROVE  i + 1 \in N
  <2>1. l[i + 1] = l[i] \div base
    BY <1>1, LeftDivides
  <2>2. m[i + 1] = m[i] \div base
    BY <1>2, LeftDivides
  <2> QED
    BY <2>1, <2>2
<1>5. N = Nat
  <2> HIDE DEF N
  <2>1. N \in SUBSET Nat
    BY DEF N
  <2> QED
    BY <1>3, <1>4, <2>1, NatSet
<1>6. \A i \in Nat : l[i] = m[i]
  BY <1>5
<1>7. /\ a \in Seq(Digits(base)) /\ b \in Seq(Digits(base))
      /\ Len(a) \in Nat /\ Len(b) \in Nat
  BY DEF Numerals
<1>8. Len(a) = Len(b)
  <2>1. \A i \in Nat : l[i] = 0 <=> i >= Len(a)
    BY <1>1, LeftPositive
  <2>2. \A i \in Nat : m[i] = 0 <=> i >= Len(b)
    BY <1>2, LeftPositive
  <2>3. Len(a) >= Len(b) /\ Len(b) >= Len(a)
    BY <1>6, <1>7, <2>1, <2>2
  <2> QED
    BY <1>7, <2>3
<1>9. ASSUME NEW i \in 1 .. Len(a)
      PROVE  a[i] = b[i]
  <2>1. l[i - 1] = a[i] + base * l[i]
    BY <1>1 DEF Leaves
  <2>2. m[i - 1] = b[i] + base * m[i]
    BY <1>2, <1>8 DEF Leaves
  <2>3. l[i - 1] = m[i - 1] /\ l[i] = m[i] /\ l[i] \in Nat
    <3>1. i \in Nat /\ i - 1 \in Nat
      BY <1>7
    <3> QED
      BY <1>1, <1>6, <3>1 DEF Leaves
  <2>4. a[i] \in Nat /\ b[i] \in Nat
    BY <1>8, NumeralTyped
  <2> DEFINE x == a[i]
             y == b[i]
             z == base * l[i]
  <2>5. x \in Nat /\ y \in Nat /\ z \in Nat /\ x + z = y + z
    BY <2>1, <2>2, <2>3, <2>4 DEF Bases
  <2> HIDE DEF x, y, z
  <2>6. x = y
    BY <2>5
  <2> QED
    BY <2>6 DEF x, y
<1> QED
  BY <1>7, <1>8, <1>9

-----------------------------------------------------------------------------
(* The loops of the conversions.                                           *)

\* digits # 0 is put below a number that has a numeral.
LEMMA NumeralShifted ==
    ASSUME NEW base \in Bases, NEW number \in Nat \ {0},
           NEW digits \in Numerals(base),
           StandsFor(digits, base, number \div base)
    PROVE  /\ <<number % base>> \o digits \in Numerals(base)
           /\ StandsFor(<<number % base>> \o digits, base, number)
<1> DEFINE d == number % base
           q == number \div base
           n == Len(digits)
           shifted == <<d>> \o digits
<1>1. q \in Nat /\ d \in 0 .. base - 1 /\ number = d + base * q /\ d \in Nat
  <2>1. CASE base = 58
    BY <2>1
  <2>2. CASE base = 256
    BY <2>2
  <2> QED
    BY <2>1, <2>2 DEF Bases
<1>2. /\ digits \in Seq(Digits(base)) /\ n \in Nat /\ digits \in Seq(Nat)
      /\ n # 0 => digits[n] # 0
  BY NumeralTyped DEF Numerals
<1>3. PICK left : Leaves(digits, base, left) /\ left[0] = q
  BY DEF StandsFor
<1> HIDE DEF d, q
<1>4. shifted \in Seq(Digits(base))
  <2> DEFINE D == Digits(base)
  <2>1. d \in D /\ digits \in Seq(D)
    BY <1>1, <1>2 DEF Digits
  <2> HIDE DEF D
  <2>2. shifted \in Seq(D)
    BY <2>1
  <2> QED
    BY <2>2 DEF D
<1>5. /\ Len(shifted) = n + 1 /\ shifted[1] = d
      /\ \A i \in 2 .. n + 1 : shifted[i] = digits[i - 1]
  BY <1>1, <1>2
<1> HIDE DEF shifted
<1>6. shifted[n + 1] # 0
  <2>1. CASE n = 0
    <3>1. q = 0
      BY <1>3, <2>1 DEF Leaves
    <3>2. base * 0 = 0
      BY DEF Bases
    <3> QED
      BY <1>1, <1>5, <2>1, <3>1, <3>2
  <2>2. CASE n # 0
    <3>1. n + 1 \in 2 .. n + 1 /\ n + 1 - 1 = n
      BY <1>2, <2>2
    <3> QED
      BY <1>2, <1>5, <2>2, <3>1
  <2> QED
    BY <2>1, <2>2
<1>7. shifted \in Numerals(base)
  BY <1>4, <1>5, <1>6 DEF Numerals
<1> DEFINE more == [i \in Nat |-> IF i = 0 THEN number ELSE left[i - 1]]
<1>8. left \in [Nat -> Nat]
  BY <1>3 DEF Leaves
<1>9. more \in [Nat -> Nat]
  <2>1. \A i \in Nat \ {0} : left[i - 1] \in Nat
    BY <1>8
  <2> QED
    BY <2>1
<1>10. more[0] = number /\ \A i \in Nat \ {0} : more[i] = left[i - 1]
  OBVIOUS
<1> HIDE DEF more
<1>11. ASSUME NEW i \in Nat, i >= Len(shifted)
       PROVE  more[i] = 0
  <2>1. i # 0 /\ i - 1 \in Nat /\ i - 1 >= n
    BY <1>2, <1>5, <1>11
  <2> QED
    BY <1>3, <1>10, <2>1 DEF Leaves
<1>12. ASSUME NEW i \in 1 .. Len(shifted)
       PROVE  more[i - 1] = shifted[i] + base * more[i]
  <2>1. i \in Nat \ {0} /\ more[i] = left[i - 1]
    BY <1>2, <1>5, <1>10
  <2>2. CASE i = 1
    BY <1>1, <1>3, <1>5, <1>10, <2>1, <2>2
  <2>3. CASE i # 1
    <3>1. i - 1 \in Nat \ {0} /\ i - 1 \in 1 .. n /\ i \in 2 .. n + 1
      BY <1>2, <1>5, <2>3
    <3>2. more[i - 1] = left[(i - 1) - 1]
      BY <1>10, <3>1
    <3>3. left[(i - 1) - 1] = digits[i - 1] + base * left[i - 1]
      BY <1>3, <3>1 DEF Leaves
    <3> QED
      BY <1>5, <2>1, <3>1, <3>2, <3>3
  <2> QED
    BY <2>2, <2>3
<1>13. StandsFor(shifted, base, number)
  <2>1. Leaves(shifted, base, more)
    BY <1>9, <1>11, <1>12 DEF Leaves
  <2> QED
    BY <1>10, <2>1 DEF StandsFor
<1> QED
  BY <1>7, <1>13 DEF shifted, d

LEMMA NoDigits ==
    ASSUME NEW base \in Bases
    PROVE  <<>> \in Numerals(base) /\ StandsFor(<<>>, base, 0)
<1>1. <<>> \in Numerals(base)
  BY DEF Numerals
<1>2. Leaves(<<>>, base, [i \in Nat |-> 0])
  BY DEF Leaves
<1> QED
  BY <1>1, <1>2 DEF StandsFor

\* The loop that is left when the pass is over spells the carry.
LEMMA SpilledStands ==
    ASSUME NEW base \in Bases, NEW carry \in Nat
    PROVE  /\ Spilled(carry, base) \in Numerals(base)
           /\ StandsFor(Spilled(carry, base), base, carry)
<1> DEFINE Spells(n, f) ==
               f = [rest \in 0 .. n |->
                       IF rest = 0 THEN <<>>
                       ELSE <<rest % base>> \o f[rest \div base]]
           Good(n, f) == \A rest \in 0 .. n :
               /\ f[rest] \in Numerals(base)
               /\ StandsFor(f[rest], base, rest)
           N == {n \in Nat : \E f : Spells(n, f)}
<1>1. 0 \in N
  <2> DEFINE f == [rest \in 0 .. 0 |-> <<>>]
  <2>1. Spells(0, f)
    OBVIOUS
  <2> QED
    BY <2>1
<1>2. ASSUME NEW n \in N
      PROVE  n + 1 \in N
  <2>1. PICK g : Spells(n, g)
    OBVIOUS
  <2> DEFINE m == n + 1
             q == m \div base
             last == <<m % base>> \o g[q]
             f == [rest \in 0 .. m |-> IF rest = m THEN last ELSE g[rest]]
  <2>2. n \in Nat /\ m \in Nat \ {0}
    OBVIOUS
  <2>3. \A r \in 0 .. m : r # 0 => r \div base \in 0 .. n /\ r \div base # m
    <3>1. CASE base = 58
      BY <2>2, <3>1
    <3>2. CASE base = 256
      BY <2>2, <3>2
    <3> QED
      BY <3>1, <3>2 DEF Bases
  <2>4. q \in 0 .. n
    BY <2>2, <2>3
  <2> HIDE DEF m, q
  <2>5. f[m] = last /\ \A rest \in 0 .. n : f[rest] = g[rest]
    BY <2>2 DEF m
  <2>6. f = [rest \in 0 .. m |-> f[rest]]
    OBVIOUS
  <2>7. last = <<m % base>> \o g[q]
    OBVIOUS
  <2> HIDE DEF last, f
  <2>8. ASSUME NEW rest \in 0 .. m
         PROVE  f[rest] = IF rest = 0 THEN <<>>
                          ELSE <<rest % base>> \o f[rest \div base]
    <3>1. CASE rest = m
      <4>1. f[q] = g[q] /\ rest # 0 /\ rest \div base = q
        BY <2>2, <2>4, <2>5, <3>1 DEF q
      <4> QED
        BY <2>5, <2>7, <3>1, <4>1
    <3>2. CASE rest \in 0 .. n
      <4>1. g[rest] = IF rest = 0 THEN <<>>
                      ELSE <<rest % base>> \o g[rest \div base]
        BY <2>1, <3>2
      <4>2. rest # 0 => f[rest \div base] = g[rest \div base]
        BY <2>3, <2>5
      <4> QED
        BY <2>5, <3>2, <4>1, <4>2
    <3> QED
      BY <2>2, <3>1, <3>2 DEF m
  <2>9. Spells(m, f)
    BY <2>6, <2>8
  <2> QED
    BY <2>2, <2>9 DEF m
<1>3. N = Nat
  <2> HIDE DEF N
  <2>1. N \in SUBSET Nat
    BY DEF N
  <2> QED
    BY <1>1, <1>2, <2>1, NatSet
<1> DEFINE digits == CHOOSE f : Spells(carry, f)
<1>4. \E f : Spells(carry, f)
  BY <1>3
<1>5. Spells(carry, digits)
  BY <1>4
<1>6. Spilled(carry, base) = digits[carry]
  BY DEF Spilled
<1> HIDE DEF digits
<1> DEFINE M == {n \in Nat : n <= carry => Good(n, digits)}
<1>7. 0 \in M
  <2>1. digits[0] = <<>>
    BY <1>5
  <2> QED
    BY <2>1, NoDigits
<1>8. ASSUME NEW n \in M
      PROVE  n + 1 \in M
  <2> DEFINE m == n + 1
             q == m \div base
  <2>1. SUFFICES ASSUME m <= carry
                 PROVE  Good(m, digits)
    OBVIOUS
  <2>2. n \in Nat /\ m \in Nat \ {0} /\ m \in 0 .. carry /\ Good(n, digits)
    BY <2>1
  <2>3. q \in 0 .. n
    <3>1. CASE base = 58
      BY <2>2, <3>1
    <3>2. CASE base = 256
      BY <2>2, <3>2
    <3> QED
      BY <3>1, <3>2 DEF Bases
  <2>4. digits[q] \in Numerals(base) /\ StandsFor(digits[q], base, q)
    BY <2>2, <2>3
  <2>5. \A rest \in 0 .. m : rest = m \/ rest \in 0 .. n
    BY <2>2
  <2> HIDE DEF m
  <2>6. digits[m] = <<m % base>> \o digits[q]
    BY <1>5, <2>2
  <2>7. digits[m] \in Numerals(base) /\ StandsFor(digits[m], base, m)
    BY <2>2, <2>4, <2>6, NumeralShifted
  <2> QED
    BY <2>2, <2>5, <2>7
<1>9. M = Nat
  <2> HIDE DEF M
  <2>1. M \in SUBSET Nat
    BY DEF M
  <2> QED
    BY <1>7, <1>8, <2>1, NatSet
<1>10. Good(carry, digits)
  <2>1. carry \in M
    BY <1>9
  <2> QED
    BY <2>1
<1> QED
  BY <1>6, <1>10

\* What the pass carries out of each place.
LEMMA CarriesAre ==
    ASSUME NEW base \in Bases, NEW temp \in Seq(Nat), NEW factor \in Bases,
           NEW digit \in Nat, NEW carry, carry = Carries(temp, factor, digit, base)
    PROVE  /\ carry \in [0 .. Len(temp) -> Nat] /\ carry[0] = digit
           /\ \A i \in 1 .. Len(temp) :
                  carry[i] = (carry[i - 1] + factor * temp[i]) \div base
<1> DEFINE n == Len(temp)
           Sum(i, c) == c + factor * (IF i \in 1 .. n THEN temp[i] ELSE 0)
           G == [i \in Nat |-> [c \in Nat |-> Sum(i, c) \div base]]
           Carried(c) == c = [i \in 0 .. n |->
                                 IF i = 0 THEN digit
                                 ELSE (c[i - 1] + factor * temp[i]) \div base]
<1>1. n \in Nat /\ \A i \in 1 .. n : temp[i] \in Nat
  OBVIOUS
<1>2. \A i, c \in Nat : Sum(i, c) \in Nat
  <2> TAKE i, c \in Nat
  <2>1. (IF i \in 1 .. n THEN temp[i] ELSE 0) \in Nat
    BY <1>1
  <2> QED
    BY <2>1 DEF Bases
<1>3. \A s \in Nat : s \div base \in Nat
  BY DEF Bases
<1>4. G \in [Nat -> [Nat -> Nat]]
  <2> HIDE DEF Sum
  <2>1. \A i, c \in Nat : Sum(i, c) \div base \in Nat
    BY <1>2, <1>3
  <2> QED
    BY <2>1
<1>5. \A i \in 1 .. n : \A c \in Nat :
          G[i][c] = (c + factor * temp[i]) \div base
  BY <1>1
<1> HIDE DEF G, n
<1>6. PICK f \in [0 .. n -> Nat] :
          f[0] = digit /\ \A i \in 1 .. n : f[i] = G[i][f[i - 1]]
  <2>1. G \in Rounds(Nat)
    BY <1>4 DEF Rounds
  <2>2. \E f : Runs(Nat, digit, G, n, f)
    BY <1>1, <2>1, LoopRuns
  <2> QED
    BY <2>2 DEF Runs
<1>7. Carried(f)
  <2>1. ASSUME NEW i \in 1 .. n
        PROVE  f[i] = (f[i - 1] + factor * temp[i]) \div base
    <3>1. f[i - 1] \in Nat
      BY <1>1, <1>6
    <3> QED
      BY <1>5, <1>6, <3>1
  <2>2. \A i \in 0 .. n : i = 0 \/ i \in 1 .. n
    BY <1>1
  <2>3. f = [i \in 0 .. n |-> f[i]]
    BY <1>6
  <2> QED
    BY <1>6, <2>1, <2>2, <2>3
<1>8. carry = CHOOSE c : Carried(c)
  BY DEF Carries, n
<1>9. Carried(carry)
  <2> HIDE DEF Carried
  <2> QED
    BY <1>7, <1>8
<1>10. carry[0] = digit
  BY <1>1, <1>9
<1>11. ASSUME NEW i \in 1 .. n
       PROVE  carry[i] = (carry[i - 1] + factor * temp[i]) \div base
  BY <1>1, <1>9
<1> DEFINE N == {i \in Nat : i <= n => carry[i] \in Nat}
<1>12. 0 \in N
  BY <1>10
<1>13. ASSUME NEW i \in N
       PROVE  i + 1 \in N
  <2>1. SUFFICES ASSUME i + 1 <= n
                 PROVE  carry[i + 1] \in Nat
    OBVIOUS
  <2>2. i + 1 \in 1 .. n /\ carry[i] \in Nat /\ (i + 1) - 1 = i
    BY <1>1, <2>1
  <2>3. temp[i + 1] \in Nat
    BY <1>1, <2>2
  <2>4. carry[i] + factor * temp[i + 1] \in Nat
    BY <2>2, <2>3 DEF Bases
  <2> QED
    BY <1>3, <1>11, <2>2, <2>4
<1>14. N = Nat
  <2> HIDE DEF N
  <2>1. N \in SUBSET Nat
    BY DEF N
  <2> QED
    BY <1>12, <1>13, <2>1, NatSet
<1>15. carry \in [0 .. n -> Nat]
  <2>1. ASSUME NEW i \in 0 .. n
        PROVE  carry[i] \in Nat
    <3>1. i \in Nat /\ i <= n
      BY <1>1
    <3>2. i \in N
      BY <1>14, <3>1
    <3> QED
      BY <3>1, <3>2
  <2> DEFINE Place(i) == IF i = 0 THEN digit
                         ELSE (carry[i - 1] + factor * temp[i]) \div base
  <2>2. carry = [i \in 0 .. n |-> Place(i)]
    BY <1>9
  <2> HIDE DEF Place
  <2>3. carry = [i \in 0 .. n |-> carry[i]]
    BY <2>2
  <2> QED
    BY <2>1, <2>3
<1> QED
  BY <1>10, <1>11, <1>15 DEF n

\* One round of a conversion, whatever its carries.
LEMMA MultiplyAddStands ==
    ASSUME NEW base \in Bases, NEW temp \in Numerals(base), NEW factor \in Bases,
           NEW digit \in Nat, NEW number \in Nat, StandsFor(temp, base, number)
    PROVE  /\ MultiplyAdd(temp, factor, digit, base) \in Numerals(base)
           /\ StandsFor(MultiplyAdd(temp, factor, digit, base), base,
                        factor * number + digit)
<1> DEFINE n     == Len(temp)
           carry == Carries(temp, factor, digit, base)
           pass  == [i \in 1 .. n |-> (carry[i - 1] + factor * temp[i]) % base]
           rest  == Spilled(carry[n], base)
           k     == Len(rest)
           result == pass \o rest
<1>1. MultiplyAdd(temp, factor, digit, base) = result
  BY DEF MultiplyAdd
<1>2. /\ n \in Nat /\ temp \in Seq(Nat) /\ base \in Nat \ {0, 1}
      /\ \A i \in 1 .. n : temp[i] \in Nat
      /\ n # 0 => temp[n] # 0
  BY NumeralTyped
<1>3. /\ carry \in [0 .. n -> Nat] /\ carry[0] = digit
      /\ \A i \in 1 .. n : carry[i] = (carry[i - 1] + factor * temp[i]) \div base
  <2>1. carry = Carries(temp, factor, digit, base)
    OBVIOUS
  <2> HIDE DEF carry
  <2> QED
    BY <1>2, <2>1, CarriesAre
<1> HIDE DEF carry
<1>4. carry[n] \in Nat
  BY <1>2, <1>3
<1>5. rest \in Numerals(base) /\ StandsFor(rest, base, carry[n])
  BY <1>4, SpilledStands
<1> HIDE DEF rest
<1>6. PICK left : Leaves(temp, base, left) /\ left[0] = number
  BY DEF StandsFor
<1>7. PICK spilt : Leaves(rest, base, spilt) /\ spilt[0] = carry[n]
  BY <1>5 DEF StandsFor
<1>8. ASSUME NEW i \in 1 .. n
      PROVE  /\ pass[i] \in 0 .. base - 1
             /\ carry[i - 1] + factor * temp[i] = pass[i] + base * carry[i]
             /\ carry[i] = 0 => pass[i] = carry[i - 1] + factor * temp[i]
  <2> DEFINE t == temp[i]
             c == carry[i - 1]
             sum == c + factor * t
  <2>1. t \in Nat /\ c \in Nat
    <3>1. i - 1 \in 0 .. n
      BY <1>2
    <3> QED
      BY <1>2, <1>3, <3>1
  <2>2. pass[i] = sum % base /\ carry[i] = sum \div base
    BY <1>3
  <2> HIDE DEF t, c
  <2>3. sum \in Nat
    BY <2>1 DEF Bases
  <2> HIDE DEF sum
  <2>4. /\ sum % base \in 0 .. base - 1
        /\ sum = (sum % base) + base * (sum \div base)
        /\ sum \div base = 0 => sum % base = sum
    <3>1. CASE base = 58
      BY <2>3, <3>1
    <3>2. CASE base = 256
      BY <2>3, <3>2
    <3> QED
      BY <3>1, <3>2 DEF Bases
  <2> HIDE DEF pass
  <2> QED
    BY <2>2, <2>4 DEF sum, c, t
<1>9. pass \in Seq(Digits(base)) /\ Len(pass) = n
  <2> DEFINE D == Digits(base)
  <2>1. \A i \in 1 .. n : pass[i] \in D
    BY <1>8 DEF Digits
  <2> HIDE DEF D
  <2>2. pass \in [1 .. n -> D]
    BY <2>1
  <2> HIDE DEF pass
  <2>3. pass \in Seq(D)
    BY <1>2, <2>2
  <2> QED
    BY <1>2, <2>2, <2>3 DEF D
<1> HIDE DEF pass
<1>10. rest \in Seq(Digits(base)) /\ k \in Nat /\ (k # 0 => rest[k] # 0)
  BY <1>5, NumeralTyped DEF Numerals
<1>11. result \in Seq(Digits(base))
  <2> DEFINE D == Digits(base)
  <2>1. pass \in Seq(D) /\ rest \in Seq(D)
    BY <1>9, <1>10
  <2> HIDE DEF D
  <2>2. result \in Seq(D)
    BY <2>1
  <2> QED
    BY <2>2 DEF D
<1>12. /\ Len(result) = n + k
       /\ \A i \in 1 .. n : result[i] = pass[i]
       /\ \A i \in n + 1 .. n + k : result[i] = rest[i - n]
  BY <1>9, <1>10
<1> HIDE DEF result
<1>13. ASSUME n + k # 0
       PROVE  result[n + k] # 0
  <2>1. CASE k # 0
    <3>1. n + k \in n + 1 .. n + k /\ (n + k) - n = k
      BY <1>2, <1>10, <2>1
    <3> QED
      BY <1>10, <1>12, <2>1, <3>1
  <2>2. CASE k = 0
    <3>1. n \in 1 .. n /\ n + k = n /\ n # 0 /\ n - 1 \in 0 .. n
      BY <1>2, <1>13, <2>2
    <3>2. carry[n] = 0
      BY <1>7, <2>2 DEF Leaves
    <3>3. pass[n] = carry[n - 1] + factor * temp[n]
      BY <1>8, <3>1, <3>2
    <3>4. temp[n] \in Nat \ {0} /\ carry[n - 1] \in Nat
      BY <1>2, <1>3, <3>1
    <3> DEFINE t == temp[n]
               c == carry[n - 1]
    <3>5. t \in Nat \ {0} /\ c \in Nat
      BY <3>4
    <3> HIDE DEF t, c
    <3>6. c + factor * t # 0
      BY <3>5 DEF Bases
    <3> QED
      BY <1>12, <3>1, <3>3, <3>6 DEF t, c
  <2> QED
    BY <2>1, <2>2
<1>14. result \in Numerals(base)
  <2>1. result # <<>> => Len(result) # 0
    BY <1>11
  <2> QED
    BY <1>11, <1>12, <1>13, <2>1 DEF Numerals
<1> DEFINE sum == [i \in Nat |-> IF i <= n THEN factor * left[i] + carry[i]
                                 ELSE spilt[i - n]]
<1>15. left \in [Nat -> Nat] /\ spilt \in [Nat -> Nat] /\ left[n] = 0
  <2>1. left \in [Nat -> Nat] /\ spilt \in [Nat -> Nat]
    BY <1>6, <1>7 DEF Leaves
  <2>2. n \in Nat /\ n >= n
    BY <1>2
  <2>3. left[n] = 0
    BY <1>6, <2>2 DEF Leaves
  <2> QED
    BY <2>1, <2>3
<1>16. sum \in [Nat -> Nat]
  <2>1. ASSUME NEW i \in Nat
        PROVE  sum[i] \in Nat
    <3>1. CASE i <= n
      <4>1. left[i] \in Nat /\ carry[i] \in Nat
        <5>1. i \in 0 .. n
          BY <1>2, <3>1
        <5> QED
          BY <1>3, <1>15, <5>1
      <4> QED
        BY <3>1, <4>1 DEF Bases
    <3>2. CASE i > n
      <4>1. i - n \in Nat /\ ~(i <= n)
        BY <1>2, <3>2
      <4>2. spilt[i - n] \in Nat
        BY <1>15, <4>1
      <4> QED
        BY <4>1, <4>2
    <3> QED
      BY <1>2, <3>1, <3>2
  <2> QED
    BY <2>1
<1>17. /\ \A i \in 0 .. n : sum[i] = factor * left[i] + carry[i]
       /\ \A i \in Nat : i >= n => sum[i] = spilt[i - n]
  <2>1. \A i \in 0 .. n : sum[i] = factor * left[i] + carry[i]
    BY <1>2
  <2>2. sum[n] = spilt[0]
    <3>1. sum[n] = factor * 0 + carry[n]
      BY <1>2, <1>15, <2>1
    <3> QED
      BY <1>4, <1>7, <3>1 DEF Bases
  <2>3. n - n = 0
    BY <1>2
  <2> QED
    BY <1>2, <2>1, <2>2, <2>3
<1> HIDE DEF sum
<1>18. ASSUME NEW i \in Nat, i >= Len(result)
       PROVE  sum[i] = 0
  <2>1. i >= n /\ i - n \in Nat /\ i - n >= k
    BY <1>2, <1>10, <1>12, <1>18
  <2> QED
    BY <1>7, <1>17, <2>1 DEF Leaves
<1>19. ASSUME NEW i \in 1 .. Len(result)
       PROVE  sum[i - 1] = result[i] + base * sum[i]
  <2>1. CASE i \in 1 .. n
    <3> DEFINE a == left[i - 1]
               b == left[i]
               c == carry[i - 1]
               d == carry[i]
               t == temp[i]
               p == pass[i]
    <3>1. i - 1 \in 0 .. n /\ i \in 0 .. n /\ i - 1 \in Nat /\ i \in Nat
      BY <1>2, <2>1
    <3>2. sum[i - 1] = factor * a + c /\ sum[i] = factor * b + d
      BY <1>17, <3>1
    <3>3. a = t + base * b
      BY <1>6, <2>1 DEF Leaves
    <3>4. c + factor * t = p + base * d
      BY <1>8, <2>1
    <3>5. a \in Nat /\ b \in Nat /\ c \in Nat /\ d \in Nat /\ t \in Nat /\ p \in Nat
      <4>1. \A x \in 0 .. base - 1 : x \in Nat
        BY <1>2
      <4> QED
        BY <1>2, <1>3, <1>8, <1>15, <2>1, <3>1, <4>1
    <3> HIDE DEF a, b, c, d, t, p
    <3>6. factor * a + c = p + base * (factor * b + d)
      <4>1. CASE base = 58 /\ factor = 58
        BY <3>3, <3>4, <3>5, <4>1
      <4>2. CASE base = 58 /\ factor = 256
        BY <3>3, <3>4, <3>5, <4>2
      <4>3. CASE base = 256 /\ factor = 58
        BY <3>3, <3>4, <3>5, <4>3
      <4>4. CASE base = 256 /\ factor = 256
        BY <3>3, <3>4, <3>5, <4>4
      <4> QED
        BY <4>1, <4>2, <4>3, <4>4 DEF Bases
    <3>7. result[i] = p
      BY <1>12, <2>1 DEF p
    <3> QED
      BY <3>2, <3>6, <3>7
  <2>2. CASE i \in n + 1 .. n + k
    <3>1. /\ i - n \in 1 .. k /\ i - 1 \in Nat /\ i - 1 >= n
          /\ i \in Nat /\ i >= n /\ (i - 1) - n = (i - n) - 1
      BY <1>2, <1>10, <2>2
    <3>2. spilt[(i - n) - 1] = rest[i - n] + base * spilt[i - n]
      BY <1>7, <3>1 DEF Leaves
    <3> QED
      BY <1>12, <1>17, <2>2, <3>1, <3>2
  <2> QED
    BY <1>2, <1>10, <1>12, <2>1, <2>2
<1>20. Leaves(result, base, sum)
  BY <1>16, <1>18, <1>19 DEF Leaves
<1>21. sum[0] = factor * number + digit
  BY <1>2, <1>3, <1>6, <1>17
<1> QED
  BY <1>1, <1>14, <1>20, <1>21 DEF StandsFor

LEMMA ReversedIs ==
    ASSUME NEW D, NEW digits \in Seq(D)
    PROVE  /\ Sequence!Reverse(digits) \in Seq(D)
           /\ Len(Sequence!Reverse(digits)) = Len(digits)
           /\ \A i \in 1 .. Len(digits) :
                  Sequence!Reverse(digits)[i] = digits[Len(digits) - i + 1]
BY DEF Sequence!Reverse

\* What has been read of a number, digit by digit.
LEMMA ReadStands ==
    ASSUME NEW base \in Bases, NEW digits \in Seq(Nat), NEW read,
           Runs(Nat, 0, [i \in Nat |-> [c \in Nat |-> base * c +
                   (IF i \in 1 .. Len(digits) THEN digits[i] ELSE 0)]],
                Len(digits), read)
    PROVE  /\ read \in [0 .. Len(digits) -> Nat] /\ read[0] = 0
           /\ \A i \in 1 .. Len(digits) : read[i] = base * read[i - 1] + digits[i]
           /\ StandsFor(Sequence!Reverse(digits), base, read[Len(digits)])
<1> DEFINE n == Len(digits)
           reversed == Sequence!Reverse(digits)
           left == [i \in Nat |-> IF i <= n THEN read[n - i] ELSE 0]
<1>1. n \in Nat /\ \A i \in 1 .. n : digits[i] \in Nat
  OBVIOUS
<1>2. read \in [0 .. n -> Nat] /\ read[0] = 0
  BY DEF Runs
<1>3. ASSUME NEW i \in 1 .. n
      PROVE  read[i] = base * read[i - 1] + digits[i]
  <2>1. i \in Nat /\ i - 1 \in 0 .. n
    BY <1>1
  <2>2. read[i - 1] \in Nat
    BY <1>2, <2>1
  <2> QED
    BY <2>1, <2>2 DEF Runs
<1>4. Len(reversed) = n /\ \A i \in 1 .. n : reversed[i] = digits[n - i + 1]
  BY ReversedIs
<1> HIDE DEF reversed
<1>5. ASSUME NEW i \in Nat
      PROVE  /\ left[i] \in Nat
             /\ i <= n => left[i] = read[n - i]
             /\ i >= n => left[i] = 0
  <2>1. CASE i <= n
    <3>1. n - i \in 0 .. n /\ (i >= n => n - i = 0)
      BY <1>1, <2>1
    <3> QED
      BY <1>2, <2>1, <3>1
  <2>2. CASE ~(i <= n)
    BY <1>1, <2>2
  <2> QED
    BY <2>1, <2>2
<1>6. left \in [Nat -> Nat]
  BY <1>5
<1> HIDE DEF left
<1>7. ASSUME NEW i \in 1 .. n
      PROVE  left[i - 1] = reversed[i] + base * left[i]
  <2>1. /\ i \in Nat /\ i - 1 \in Nat /\ i <= n /\ i - 1 <= n
        /\ n - i + 1 \in 1 .. n /\ n - (i - 1) = n - i + 1
        /\ (n - i + 1) - 1 = n - i
    BY <1>1
  <2>2. left[i - 1] = read[n - i + 1] /\ left[i] = read[n - i]
    BY <1>5, <2>1
  <2>3. read[n - i + 1] = base * read[n - i] + digits[n - i + 1]
    BY <1>3, <2>1
  <2>4. digits[n - i + 1] \in Nat /\ read[n - i] \in Nat
    <3>1. n - i \in 0 .. n
      BY <2>1
    <3> QED
      BY <1>1, <1>2, <2>1, <3>1
  <2> DEFINE r == read[n - i]
             d == digits[n - i + 1]
  <2>5. reversed[i] = d
    BY <1>4
  <2>6. r \in Nat /\ d \in Nat /\ left[i] = r /\ left[i - 1] = base * r + d
    BY <2>2, <2>3, <2>4
  <2> HIDE DEF r, d
  <2>7. base * r + d = d + base * r
    BY <2>6 DEF Bases
  <2> QED
    BY <2>5, <2>6, <2>7
<1>8. Leaves(reversed, base, left)
  BY <1>4, <1>5, <1>6, <1>7 DEF Leaves
<1>9. left[0] = read[n]
  <2>1. 0 <= n /\ n - 0 = n
    BY <1>1
  <2> QED
    BY <1>5, <2>1
<1> QED
  BY <1>2, <1>3, <1>8, <1>9 DEF StandsFor, reversed

\* A conversion keeps the number and leaves no digit in excess.
LEMMA ConvertedStands ==
    ASSUME NEW from \in Bases, NEW to \in Bases, NEW digits \in Seq(Nat)
    PROVE  /\ Converted(digits, from, to) \in Numerals(to)
           /\ \E number \in Nat :
                  /\ StandsFor(Converted(digits, from, to), to, number)
                  /\ StandsFor(Sequence!Reverse(digits), from, number)
<1> DEFINE n == Len(digits)
           Digit(i) == IF i \in 1 .. n THEN digits[i] ELSE 0
           Adds(c, i) == from * c + Digit(i)
           H == [i \in Nat |-> [c \in Nat |-> Adds(c, i)]]
           Standing == {t \in Numerals(to) : \E m \in Nat : StandsFor(t, to, m)}
           G == [i \in Nat |-> [t \in Standing |->
                                   MultiplyAdd(t, from, Digit(i), to)]]
           Turns(t) == t = [i \in 0 .. n |->
                               IF i = 0 THEN <<>>
                               ELSE MultiplyAdd(t[i - 1], from, digits[i], to)]
           temp == CHOOSE t : Turns(t)
<1>1. n \in Nat
  OBVIOUS
<1>2. \A i \in Nat : Digit(i) \in Nat
  OBVIOUS
<1>3. \A i \in 1 .. n : Digit(i) = digits[i] /\ i \in Nat
  OBVIOUS
<1>4. \A i, c \in Nat : Adds(c, i) \in Nat
  <2> TAKE i, c \in Nat
  <2>1. Digit(i) \in Nat
    BY <1>2
  <2> HIDE DEF Digit
  <2> QED
    BY <2>1 DEF Bases
<1>5. PICK read : Runs(Nat, 0, H, n, read)
  <2> HIDE DEF Adds
  <2>1. H \in Rounds(Nat)
    BY <1>4 DEF Rounds
  <2> HIDE DEF H
  <2> QED
    BY <1>1, <2>1, LoopRuns
<1>6. /\ read \in [0 .. n -> Nat] /\ read[0] = 0
      /\ \A i \in 1 .. n : read[i] = from * read[i - 1] + digits[i]
      /\ StandsFor(Sequence!Reverse(digits), from, read[n])
  BY <1>5, ReadStands
<1> HIDE DEF H
<1>7. ASSUME NEW t \in Standing, NEW i \in Nat
      PROVE  MultiplyAdd(t, from, Digit(i), to) \in Standing
  <2>1. PICK m \in Nat : StandsFor(t, to, m)
    OBVIOUS
  <2>2. Digit(i) \in Nat /\ t \in Numerals(to)
    BY <1>2
  <2>3. from * m + Digit(i) \in Nat
    BY <1>4
  <2> HIDE DEF Digit
  <2> QED
    BY <2>1, <2>2, <2>3, MultiplyAddStands
<1>8. <<>> \in Standing
  BY NoDigits
<1> HIDE DEF Standing
<1>9. PICK f : Runs(Standing, <<>>, G, n, f)
  <2> HIDE DEF Digit
  <2>1. G \in Rounds(Standing)
    BY <1>7 DEF Rounds
  <2> HIDE DEF G
  <2> QED
    BY <1>1, <1>8, <2>1, LoopRuns
<1>10. Turns(f)
  <2>1. ASSUME NEW i \in 1 .. n
        PROVE  f[i] = MultiplyAdd(f[i - 1], from, digits[i], to)
    <3>1. i \in Nat /\ f[i - 1] \in Standing /\ f[i] = G[i][f[i - 1]]
      <4>1. i \in Nat /\ i - 1 \in 0 .. n
        BY <1>1
      <4> HIDE DEF G, Digit
      <4> QED
        BY <1>9, <4>1 DEF Runs
    <3>2. G[i][f[i - 1]] = MultiplyAdd(f[i - 1], from, Digit(i), to)
      BY <3>1
    <3> QED
      BY <1>3, <3>1, <3>2
  <2>2. f = [i \in 0 .. n |-> f[i]] /\ f[0] = <<>>
    BY <1>9 DEF Runs
  <2>3. \A i \in 0 .. n : i = 0 \/ i \in 1 .. n
    BY <1>1
  <2> QED
    BY <2>1, <2>2, <2>3
<1>11. Turns(temp)
  <2> HIDE DEF Turns
  <2> QED
    BY <1>10
<1>12. Converted(digits, from, to) = temp[n]
  BY DEF Converted
<1> HIDE DEF temp, G, Digit
<1> DEFINE N == {i \in Nat : i <= n => /\ temp[i] \in Numerals(to)
                                       /\ StandsFor(temp[i], to, read[i])}
<1>13. 0 \in N
  <2>1. temp[0] = <<>>
    BY <1>1, <1>11
  <2> QED
    BY <1>6, <2>1, NoDigits
<1>14. ASSUME NEW i \in N
       PROVE  i + 1 \in N
  <2>1. SUFFICES ASSUME i + 1 <= n
                 PROVE  /\ temp[i + 1] \in Numerals(to)
                        /\ StandsFor(temp[i + 1], to, read[i + 1])
    OBVIOUS
  <2>2. /\ i + 1 \in 1 .. n /\ i \in 0 .. n /\ (i + 1) - 1 = i /\ i <= n
        /\ i + 1 \in 0 .. n /\ i + 1 # 0
    BY <1>1, <2>1
  <2>3. temp[i + 1] = MultiplyAdd(temp[i], from, digits[i + 1], to)
    BY <1>11, <2>2
  <2>4. /\ temp[i] \in Numerals(to) /\ StandsFor(temp[i], to, read[i])
        /\ read[i] \in Nat /\ digits[i + 1] \in Nat
    <3>1. temp[i] \in Numerals(to) /\ StandsFor(temp[i], to, read[i])
      BY <2>2
    <3>2. read[i] \in Nat
      BY <1>6, <2>2
    <3>3. digits[i + 1] \in Nat
      BY <2>2
    <3> QED
      BY <3>1, <3>2, <3>3
  <2>5. read[i + 1] = from * read[i] + digits[i + 1]
    BY <1>6, <2>2
  <2> HIDE DEF Turns, N
  <2> QED
    BY <2>3, <2>4, <2>5, MultiplyAddStands
<1>15. N = Nat
  <2> HIDE DEF N
  <2>1. N \in SUBSET Nat
    BY DEF N
  <2> QED
    BY <1>13, <1>14, <2>1, NatSet
<1>16. /\ temp[n] \in Numerals(to) /\ StandsFor(temp[n], to, read[n])
       /\ read[n] \in Nat
  <2>1. n \in N /\ n <= n /\ n \in 0 .. n
    BY <1>1, <1>15
  <2> QED
    BY <1>6, <2>1
<1> QED
  BY <1>6, <1>12, <1>16

-----------------------------------------------------------------------------
(* The leading zeros.                                                      *)

LEMMA LeadingZerosAre ==
    ASSUME NEW digits \in Seq(Nat), NEW zeros, zeros = LeadingZeros(digits)
    PROVE  /\ zeros \in 0 .. Len(digits)
           /\ \A i \in 1 .. zeros : digits[i] = 0
           /\ zeros # Len(digits) => digits[zeros + 1] # 0
<1> DEFINE nonzero == {i \in DOMAIN digits : digits[i] # 0}
           Least(i) == i \in nonzero /\ \A j \in nonzero : i <= j
           first == CHOOSE i \in nonzero : \A j \in nonzero : i <= j
<1>1. DOMAIN digits = 1 .. Len(digits) /\ Len(digits) \in Nat
  OBVIOUS
<1>2. CASE nonzero = {}
  <2>1. zeros = Len(digits)
    BY <1>2 DEF LeadingZeros
  <2>2. \A i \in 1 .. Len(digits) : digits[i] = 0
    BY <1>1, <1>2
  <2> QED
    BY <1>1, <2>1, <2>2
<1>3. CASE nonzero # {}
  <2>1. zeros = first - 1
    BY <1>3 DEF LeadingZeros
  <2>2. nonzero \subseteq Nat
    BY <1>1
  <2> HIDE DEF nonzero
  <2>3. PICK n \in nonzero : \A k \in nonzero : <<k, n>> \notin OpToRel(<, Nat)
    BY <1>3, <2>2, NatLessThanWellFounded, WFMin
  <2>4. \A k \in nonzero : n <= k
    <3>1. \A k \in nonzero : ~(k < n)
      BY <2>2, <2>3 DEF OpToRel
    <3> QED
      BY <2>2, <3>1
  <2>5. Least(first)
    BY <2>3, <2>4
  <2> HIDE DEF first
  <2>6. first \in 1 .. Len(digits) /\ digits[first] # 0
    BY <1>1, <2>5 DEF nonzero
  <2>7. ASSUME NEW i \in 1 .. first - 1
        PROVE  digits[i] = 0
    <3>1. i \in 1 .. Len(digits) /\ ~(first <= i)
      BY <1>1, <2>6
    <3>2. i \notin nonzero
      BY <2>5, <3>1
    <3> QED
      BY <1>1, <3>1, <3>2 DEF nonzero
  <2>8. first - 1 \in 0 .. Len(digits) /\ (first - 1) + 1 = first
    BY <1>1, <2>6
  <2> QED
    BY <2>1, <2>6, <2>7, <2>8
<1> QED
  BY <1>2, <1>3

LEMMA Joined ==
    ASSUME NEW D, NEW a \in Seq(D), NEW b \in Seq(D)
    PROVE  /\ a \o b \in Seq(D) /\ Len(a \o b) = Len(a) + Len(b)
           /\ \A i \in 1 .. Len(a) : (a \o b)[i] = a[i]
           /\ \A i \in 1 .. Len(b) : (a \o b)[Len(a) + i] = b[i]
OBVIOUS

LEMMA ReversedTwice ==
    ASSUME NEW D, NEW digits \in Seq(D)
    PROVE  Sequence!Reverse(Sequence!Reverse(digits)) = digits
<1> DEFINE n == Len(digits)
           once == Sequence!Reverse(digits)
           twice == Sequence!Reverse(once)
<1>1. n \in Nat
  OBVIOUS
<1>2. /\ once \in Seq(D) /\ Len(once) = n
      /\ \A i \in 1 .. n : once[i] = digits[n - i + 1]
  BY ReversedIs
<1> HIDE DEF once
<1>3. /\ twice \in Seq(D) /\ Len(twice) = n
      /\ \A i \in 1 .. n : twice[i] = once[n - i + 1]
  BY <1>2, ReversedIs
<1> HIDE DEF twice
<1>4. ASSUME NEW i \in 1 .. n
      PROVE  twice[i] = digits[i]
  <2>1. n - i + 1 \in 1 .. n /\ n - (n - i + 1) + 1 = i
    BY <1>1
  <2> QED
    BY <1>2, <1>3, <2>1
<1> QED
  BY <1>2, <1>3, <1>4 DEF twice, once

\* Behind its leading zeros a sequence of digits is a numeral read backwards.
LEMMA Stripped ==
    ASSUME NEW base \in Bases, NEW digits \in Seq(Digits(base))
    PROVE  LET zeros == LeadingZeros(digits)
               rest  == SubSeq(digits, zeros + 1, Len(digits))
           IN  /\ zeros \in Nat /\ rest \in Seq(Nat)
               /\ Sequence!Reverse(rest) \in Numerals(base)
               /\ Len(digits) = zeros + Len(rest)
               /\ digits = Padded(zeros, Sequence!Reverse(rest))
<1> DEFINE zeros == LeadingZeros(digits)
           rest  == SubSeq(digits, zeros + 1, Len(digits))
           n == Len(digits)
           m == n - zeros
           D == Digits(base)
<1>1. digits \in Seq(D) /\ n \in Nat
  OBVIOUS
<1>2. \A d \in D : d \in Nat
  BY DEF Bases, Digits
<1> HIDE DEF D
<1>3. digits \in Seq(Nat) /\ \A i \in 1 .. n : digits[i] \in D
  BY <1>1, <1>2
<1>4. /\ zeros \in 0 .. n
      /\ \A i \in 1 .. zeros : digits[i] = 0
      /\ zeros # n => digits[zeros + 1] # 0
  <2>1. zeros = LeadingZeros(digits)
    OBVIOUS
  <2> HIDE DEF zeros
  <2> QED
    BY <1>3, <2>1, LeadingZerosAre
<1> HIDE DEF zeros
<1>5. m \in Nat /\ n = zeros + m /\ zeros \in Nat
  BY <1>1, <1>4
<1>6. /\ rest \in Seq(D) /\ Len(rest) = m
      /\ \A i \in 1 .. m : rest[i] = digits[zeros + i]
  <2>1. n - (zeros + 1) + 1 = m
    BY <1>5
  <2>2. \A i \in 1 .. m : zeros + i \in 1 .. n /\ zeros + i = (zeros + 1) + i - 1
    BY <1>1, <1>4
  <2>3. /\ zeros + 1 \in Int /\ n \in Int
        /\ \A i \in zeros + 1 .. n : digits[i] \in D
        /\ (IF zeros + 1 <= n THEN n - (zeros + 1) + 1 ELSE 0) = m
    <3>1. \A i \in zeros + 1 .. n : i \in 1 .. n
      BY <1>5
    <3>2. (IF zeros + 1 <= n THEN n - (zeros + 1) + 1 ELSE 0) = m
      <4> HIDE DEF n, m
      <4>1. m = n - zeros
        BY DEF m
      <4> QED
        BY <1>5, <1>1, <4>1
    <3>3. zeros + 1 \in Int /\ n \in Int
      BY <1>5, <1>1
    <3> QED
      BY <1>3, <3>1, <3>2, <3>3
  <2>4. /\ rest \in Seq(D) /\ Len(rest) = m
        /\ \A i \in 1 .. n - (zeros + 1) + 1 : rest[i] = digits[(zeros + 1) + i - 1]
    BY <2>3, SubSeqProperties
  <2> HIDE DEF rest, m
  <2> QED
    BY <2>1, <2>2, <2>4
<1> HIDE DEF m, rest
<1> DEFINE back == Sequence!Reverse(rest)
<1>7. /\ back \in Seq(D) /\ Len(back) = m
      /\ \A i \in 1 .. m : back[i] = rest[m - i + 1]
  BY <1>6, ReversedIs
<1>8. Sequence!Reverse(back) = rest
  BY <1>6, ReversedTwice
<1> HIDE DEF back
<1>9. back \in Numerals(base)
  <2>1. SUFFICES ASSUME back # <<>>
                 PROVE  back[Len(back)] # 0
    BY <1>7 DEF Numerals, D
  <2>2. m # 0 /\ m \in 1 .. m /\ 1 \in 1 .. m
    BY <1>5, <1>7, <2>1
  <2>3. m - m + 1 = 1 /\ zeros # n
    BY <1>5, <2>2
  <2>4. back[m] = rest[1]
    BY <1>7, <2>2, <2>3
  <2> QED
    BY <1>4, <1>6, <1>7, <2>2, <2>3, <2>4
<1>10. digits = [i \in 1 .. zeros |-> 0] \o rest
  <2> DEFINE front == [i \in 1 .. zeros |-> 0]
  <2>1. /\ front \in Seq(Nat) /\ Len(front) = zeros
        /\ \A i \in 1 .. zeros : front[i] = 0
    BY <1>4
  <2> HIDE DEF front
  <2>2. rest \in Seq(Nat)
    BY <1>2, <1>6
  <2> DEFINE whole == front \o rest
  <2>3. /\ whole \in Seq(Nat) /\ Len(whole) = n
        /\ \A i \in 1 .. zeros : whole[i] = 0
        /\ \A i \in 1 .. m : whole[zeros + i] = rest[i]
    <3>1. /\ Len(front) = zeros /\ Len(rest) = m
          /\ front \in Seq(Nat) /\ rest \in Seq(Nat)
      BY <1>6, <2>1, <2>2
    <3>2. /\ whole \in Seq(Nat) /\ Len(whole) = Len(front) + Len(rest)
          /\ \A i \in 1 .. Len(front) : whole[i] = front[i]
          /\ \A i \in 1 .. Len(rest) : whole[Len(front) + i] = rest[i]
      BY <3>1, Joined
    <3> HIDE DEF whole
    <3> QED
      BY <1>5, <2>1, <3>1, <3>2
  <2> HIDE DEF whole
  <2>4. ASSUME NEW i \in 1 .. n
        PROVE  whole[i] = digits[i]
    <3>1. CASE i \in 1 .. zeros
      BY <1>4, <2>3, <3>1
    <3>2. CASE i > zeros
      <4>1. i - zeros \in 1 .. m /\ zeros + (i - zeros) = i
        BY <1>5, <3>2
      <4>2. whole[i] = rest[i - zeros] /\ rest[i - zeros] = digits[i]
        BY <1>6, <2>3, <4>1
      <4> QED
        BY <4>2
    <3> QED
      BY <1>5, <3>1, <3>2
  <2>5. whole = digits
    BY <1>3, <2>3, <2>4
  <2> QED
    BY <2>5 DEF front, whole
<1>11. digits = Padded(zeros, back)
  BY <1>8, <1>10 DEF Padded
<1>12. rest \in Seq(Nat)
  BY <1>2, <1>6
<1> QED
  BY <1>5, <1>6, <1>9, <1>11, <1>12 DEF back, rest, zeros

\* The zeros put in front of a numeral are found again.
LEMMA Unpadded ==
    ASSUME NEW base \in Bases, NEW temp \in Numerals(base), NEW zeros \in Nat
    PROVE  LET padded == Padded(zeros, temp)
           IN  /\ padded \in Seq(Digits(base))
               /\ Len(padded) = zeros + Len(temp)
               /\ LeadingZeros(padded) = zeros
               /\ SubSeq(padded, zeros + 1, Len(padded)) = Sequence!Reverse(temp)
<1> DEFINE n == Len(temp)
           D == Digits(base)
           front == [i \in 1 .. zeros |-> 0]
           back == Sequence!Reverse(temp)
           padded == Padded(zeros, temp)
<1>1. /\ n \in Nat /\ temp \in Seq(D) /\ (n # 0 => temp[n] # 0)
      /\ 0 \in D /\ \A d \in D : d \in Nat
  <2>1. n \in Nat /\ temp \in Seq(D) /\ (n # 0 => temp[n] # 0)
    BY NumeralTyped DEF Numerals
  <2>2. 0 \in D /\ \A d \in D : d \in Nat
    BY DEF Bases, Digits
  <2> QED
    BY <2>1, <2>2
<1>2. padded = front \o back
  BY DEF Padded
<1> HIDE DEF D, padded
<1>3. /\ back \in Seq(D) /\ Len(back) = n
      /\ \A i \in 1 .. n : back[i] = temp[n - i + 1]
  BY <1>1, ReversedIs
<1> HIDE DEF back
<1>4. /\ front \in Seq(D) /\ Len(front) = zeros
      /\ \A i \in 1 .. zeros : front[i] = 0
  <2>1. front \in [1 .. zeros -> D]
    BY <1>1
  <2> HIDE DEF front
  <2>2. front \in Seq(D) /\ Len(front) = zeros
    BY <2>1
  <2> QED
    BY <2>2 DEF front
<1> HIDE DEF front
<1>5. /\ padded \in Seq(D) /\ Len(padded) = zeros + n
      /\ \A i \in 1 .. zeros : padded[i] = 0
      /\ \A i \in 1 .. n : padded[zeros + i] = back[i]
  <2>1. /\ padded \in Seq(D) /\ Len(padded) = Len(front) + Len(back)
        /\ \A i \in 1 .. Len(front) : padded[i] = front[i]
        /\ \A i \in 1 .. Len(back) : padded[Len(front) + i] = back[i]
    <3>1. front \in Seq(D) /\ back \in Seq(D)
      BY <1>3, <1>4
    <3> QED
      BY <1>2, <3>1, Joined
  <2> QED
    BY <1>3, <1>4, <2>1
<1>6. LeadingZeros(padded) = zeros
  <2> DEFINE z == LeadingZeros(padded)
  <2>1. padded \in Seq(Nat)
    BY <1>1, <1>5
  <2>2. z = LeadingZeros(padded)
    OBVIOUS
  <2> HIDE DEF z
  <2>3. /\ z \in 0 .. zeros + n
        /\ \A i \in 1 .. z : padded[i] = 0
        /\ z # zeros + n => padded[z + 1] # 0
    BY <1>5, <2>1, <2>2, LeadingZerosAre
  <2>4. n # 0 => padded[zeros + 1] # 0
    <3>1. SUFFICES ASSUME n # 0
                   PROVE  padded[zeros + 1] # 0
      OBVIOUS
    <3>2. 1 \in 1 .. n /\ n - 1 + 1 = n
      BY <1>1, <3>1
    <3> QED
      BY <1>1, <1>3, <1>5, <3>1, <3>2
  <2>5. CASE z < zeros
    <3>1. z + 1 \in 1 .. zeros /\ z # zeros + n
      BY <1>1, <2>3, <2>5
    <3> QED
      BY <1>5, <2>3, <3>1
  <2>6. CASE z > zeros
    <3>1. n # 0 /\ zeros + 1 \in 1 .. z
      BY <1>1, <2>3, <2>6
    <3> QED
      BY <2>3, <2>4, <3>1
  <2> QED
    BY <2>3, <2>5, <2>6, <1>1 DEF z
<1>7. SubSeq(padded, zeros + 1, Len(padded)) = back
  <2>1. \A i \in 1 .. n : (zeros + 1) + i - 1 = zeros + i /\ zeros + i \in 1 .. zeros + n
    BY <1>1
  <2>2. (zeros + n) - (zeros + 1) + 1 = n
    BY <1>1
  <2>3. SubSeq(padded, zeros + 1, zeros + n) = [i \in 1 .. n |-> padded[zeros + i]]
    BY <1>1, <1>5, <2>1, <2>2
  <2>4. back = [i \in 1 .. n |-> back[i]]
    BY <1>3
  <2> QED
    BY <1>5, <2>3, <2>4
<1> QED
  BY <1>5, <1>6, <1>7 DEF D, back, padded

-----------------------------------------------------------------------------
(* The conversions.                                                        *)

\* Two digits of base 256 are worth less than three of base 58.
LEMMA ShorterIn256 ==
    ASSUME NEW a \in Numerals(58), NEW b \in Numerals(256), NEW number,
           StandsFor(a, 58, number), StandsFor(b, 256, number),
           NEW k \in Nat, Len(b) <= 2 * k
    PROVE  Len(a) <= 3 * k
<1>1. 58 \in Bases /\ 256 \in Bases
  BY DEF Bases
<1>2. PICK l : Leaves(a, 58, l) /\ l[0] = number
  BY DEF StandsFor
<1>3. PICK m : Leaves(b, 256, m) /\ m[0] = number
  BY DEF StandsFor
<1>4. l \in [Nat -> Nat] /\ m \in [Nat -> Nat]
  BY <1>2, <1>3 DEF Leaves
<1>5. \A i \in Nat : l[i + 1] = l[i] \div 58
  BY <1>1, <1>2, LeftDivides
<1>6. \A i \in Nat : m[i + 1] = m[i] \div 256
  BY <1>1, <1>3, LeftDivides
<1> DEFINE N == {i \in Nat : l[3 * i] <= m[2 * i]}
<1>7. 0 \in N
  <2>1. 3 * 0 = 0 /\ 2 * 0 = 0 /\ l[0] = m[0] /\ l[0] \in Nat
    BY <1>2, <1>3, <1>4
  <2> QED
    BY <2>1
<1>8. ASSUME NEW i \in N
      PROVE  i + 1 \in N
  <2> DEFINE p == 3 * i
             q == 2 * i
             x == l[p]
             y == m[q]
  <2>1. /\ i \in Nat /\ p \in Nat /\ q \in Nat /\ p + 1 \in Nat /\ p + 2 \in Nat
        /\ q + 1 \in Nat /\ x <= y
        /\ (p + 1) + 1 = p + 2 /\ (p + 2) + 1 = 3 * (i + 1)
        /\ (q + 1) + 1 = 2 * (i + 1)
    OBVIOUS
  <2> HIDE DEF p, q
  <2>2. x \in Nat /\ y \in Nat
    BY <1>4, <2>1
  <2>3. l[3 * (i + 1)] = ((x \div 58) \div 58) \div 58
    BY <1>5, <2>1
  <2>4. m[2 * (i + 1)] = (y \div 256) \div 256
    BY <1>6, <2>1
  <2> HIDE DEF x, y
  <2>5. ((x \div 58) \div 58) \div 58 <= (y \div 256) \div 256
    BY <2>1, <2>2
  <2> QED
    BY <2>1, <2>3, <2>4, <2>5
<1>9. N = Nat
  <2> HIDE DEF N
  <2>1. N \in SUBSET Nat
    BY DEF N
  <2> QED
    BY <1>7, <1>8, <2>1, NatSet
<1>10. l[3 * k] = 0
  <2>1. l[3 * k] <= m[2 * k]
    BY <1>9
  <2>2. 3 * k \in Nat /\ 2 * k \in Nat
    OBVIOUS
  <2>3. m[2 * k] = 0 /\ l[3 * k] \in Nat
    BY <1>3, <1>4, <2>2 DEF Leaves
  <2> QED
    BY <2>1, <2>3
<1> QED
  BY <1>1, <1>2, <1>10, LeftPositive

LEMMA ElementsTyped ==
    ASSUME NEW D, NEW s \in Seq(D)
    PROVE  \A i \in DOMAIN s : s[i] \in D
OBVIOUS

LEMMA RefusedIsNoText == Refused \notin Seq(0 .. 57)
<1> SUFFICES ASSUME Refused \in Seq(0 .. 57)
             PROVE  FALSE
  OBVIOUS
<1>1. DOMAIN Refused = 1 .. 1 /\ Refused[1] = -1
  BY DEF Refused
<1>2. \A i \in DOMAIN Refused : Refused[i] \in 0 .. 57
  BY ElementsTyped
<1>3. 1 \in DOMAIN Refused /\ -1 \notin 0 .. 57
  BY <1>1
<1> QED
  BY <1>1, <1>2, <1>3

\* "64 bytes enough for 34-byte input": so is the text, its NUL included.
THEOREM EncodeFits ==
    ASSUME NEW input \in Seq(0 .. 255), Len(input) <= 34
    PROVE  /\ Encode(input, 64) \in Seq(0 .. 57)
           /\ Len(Encode(input, 64)) < 64
           /\ Encode(input, 64) # Refused
<1> DEFINE zeros == LeadingZeros(input)
           rest  == SubSeq(input, zeros + 1, Len(input))
           back  == Sequence!Reverse(rest)
           temp  == Converted(rest, 256, 58)
           m     == Len(rest)
           k     == (m + 1) \div 2
<1>1. /\ 58 \in Bases /\ 256 \in Bases
      /\ Digits(58) = 0 .. 57 /\ Digits(256) = 0 .. 255
  BY DEF Bases, Digits
<1>2. input \in Seq(Digits(256))
  BY <1>1
<1>3. /\ zeros \in Nat /\ rest \in Seq(Nat) /\ back \in Numerals(256)
      /\ Len(input) = zeros + m
  BY <1>1, <1>2, Stripped
<1> HIDE DEF zeros, rest
<1>4. temp \in Numerals(58) /\ \E number \in Nat :
          StandsFor(temp, 58, number) /\ StandsFor(back, 256, number)
  BY <1>1, <1>3, ConvertedStands
<1>5. Len(back) = m /\ m \in Nat
  BY <1>3, ReversedIs
<1> HIDE DEF back, m
<1>6. k \in Nat /\ m <= 2 * k /\ 2 * k <= m + 1
  BY <1>5
<1> HIDE DEF k, temp
<1>7. Len(temp) <= 3 * k
  <2>1. PICK n \in Nat : StandsFor(temp, 58, n) /\ StandsFor(back, 256, n)
    BY <1>4
  <2> QED
    BY <1>3, <1>4, <1>5, <1>6, <2>1, ShorterIn256
<1>8. Len(temp) \in Nat
  BY <1>1, <1>4, NumeralTyped
<1>9. zeros + Len(temp) + 1 <= 64 /\ Len(temp) <= TempSize /\ zeros + Len(temp) < 64
  <2>1. zeros + m <= 34
    BY <1>3
  <2> QED
    BY <1>3, <1>5, <1>6, <1>7, <1>8, <2>1 DEF TempSize
<1>10. Encode(input, 64) = Padded(zeros, temp)
  <2>1. ~(Len(temp) > TempSize \/ zeros + Len(temp) + 1 > 64)
    BY <1>3, <1>8, <1>9 DEF TempSize
  <2> QED
    BY <2>1 DEF Encode, zeros, temp, rest
<1>11. /\ Padded(zeros, temp) \in Seq(Digits(58))
       /\ Len(Padded(zeros, temp)) = zeros + Len(temp)
  BY <1>1, <1>3, <1>4, Unpadded
<1> DEFINE text == Encode(input, 64)
<1>12. text \in Seq(0 .. 57) /\ Len(text) < 64
  BY <1>1, <1>9, <1>10, <1>11
<1> HIDE DEF text
<1>13. text # Refused
  BY <1>12, RefusedIsNoText
<1> QED
  BY <1>12, <1>13 DEF text

\* SSI_Base58_Decode gives back what SSI_Base58_Encode was given, if the
\* text was not refused and there is room for the bytes.
THEOREM DecodeEncode ==
    ASSUME NEW input \in Seq(0 .. 255), Len(input) <= TempSize,
           NEW room, NEW maxOut \in Nat, Len(input) <= maxOut,
           Encode(input, room) # Refused
    PROVE  Decode(Encode(input, room), maxOut) = input
<1> DEFINE zeros == LeadingZeros(input)
           rest  == SubSeq(input, zeros + 1, Len(input))
           back  == Sequence!Reverse(rest)
           temp  == Converted(rest, 256, 58)
           text  == Padded(zeros, temp)
           front == LeadingZeros(text)
           read  == SubSeq(text, zeros + 1, Len(text))
           again == Converted(read, 58, 256)
<1>1. /\ 58 \in Bases /\ 256 \in Bases
      /\ Digits(58) = 0 .. 57 /\ Digits(256) = 0 .. 255
  BY DEF Bases, Digits
<1>2. input \in Seq(Digits(256))
  BY <1>1
<1>3. /\ zeros \in Nat /\ rest \in Seq(Nat) /\ back \in Numerals(256)
      /\ Len(input) = zeros + Len(rest)
      /\ input = Padded(zeros, back)
  BY <1>1, <1>2, Stripped
<1>4. Encode(input, room) = text
  BY DEF Encode
<1> HIDE DEF zeros, rest
<1>5. Len(back) = Len(rest) /\ Len(rest) \in Nat
  BY <1>3, ReversedIs
<1>6. temp \in Numerals(58) /\ \E number \in Nat :
          StandsFor(temp, 58, number) /\ StandsFor(back, 256, number)
  BY <1>1, <1>3, ConvertedStands
<1> HIDE DEF back, temp
<1>7. /\ text \in Seq(0 .. 57) /\ front = zeros
      /\ read = Sequence!Reverse(temp)
  BY <1>1, <1>3, <1>6, Unpadded
<1>8. temp \in Seq(Nat)
  BY <1>1, <1>6, NumeralTyped
<1> HIDE DEF text, read, front
<1>9. Sequence!Reverse(read) = temp /\ read \in Seq(Nat)
  BY <1>7, <1>8, ReversedTwice, ReversedIs
<1>10. again \in Numerals(256) /\ \E number \in Nat :
           StandsFor(again, 256, number) /\ StandsFor(temp, 58, number)
  BY <1>1, <1>9, ConvertedStands
<1> HIDE DEF again
<1>11. again = back
  <2>1. PICK p \in Nat : StandsFor(temp, 58, p) /\ StandsFor(back, 256, p)
    BY <1>6
  <2>2. PICK q \in Nat : StandsFor(again, 256, q) /\ StandsFor(temp, 58, q)
    BY <1>10
  <2>3. p = q
    BY <1>1, <1>6, <2>1, <2>2, NumberUnique
  <2> QED
    BY <1>1, <1>3, <1>10, <2>1, <2>2, <2>3, NumeralUnique
<1>12. ~(\E i \in DOMAIN text : text[i] \notin 0 .. 57)
  BY <1>7, ElementsTyped
<1>13. ~(Len(again) > TempSize) /\ ~(zeros + Len(again) > maxOut)
  BY <1>3, <1>5, <1>11 DEF TempSize
<1>14. Decode(text, maxOut) = Padded(zeros, again)
  BY <1>7, <1>12, <1>13 DEF Decode, front, read, again
<1> QED
  BY <1>3, <1>4, <1>11, <1>14

=============================================================================
