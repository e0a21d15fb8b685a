------------------------- MODULE RedisFormat_proofs -------------------------
(***************************************************************************)
(* A command is formatted right for every set of formats and arguments:    *)
(* the buffer has the size that was computed, no string is left, and the   *)
(* arguments are the words of the format.                                  *)
(***************************************************************************)
EXTENDS RedisFormat, FiniteSetTheorems, SequenceTheorems, WellFoundedInduction, TLAPS

(***************************************************************************)
(* Numbers: induction, and functions defined from smaller arguments.       *)
(***************************************************************************)

\* A nonempty set of natural numbers has a least element.
LEMMA LeastNatural ==
    ASSUME NEW T \in SUBSET Nat, T # {}
    PROVE  \E x \in T : \A y \in T : x <= y
<1>1. PICK R : R = {p \in Nat \X Nat : p[1] < p[2]}
  OBVIOUS
<1>2. IsWellFoundedOn(R, Nat)
  BY <1>1, NatLessThanWellFounded DEF OpToRel
<1>3. PICK x \in T : \A y \in T : ~(<<y, x>> \in R)
  BY <1>2, WFMin
<1>4. \A y \in T : ~(y < x)
  BY <1>1, <1>3
<1>. QED  BY <1>4

\* Induction: a set that has each number when it has the smaller ones has all.
LEMMA Induction ==
    ASSUME NEW T, \A n \in Nat : (\A m \in Nat : m < n => m \in T) => n \in T
    PROVE  Nat \subseteq T
<1>. DEFINE U == Nat \ T
<1>1. CASE U # {}
  <2>1. PICK x \in U : \A y \in U : x <= y
    BY <1>1, LeastNatural
  <2>2. \A m \in Nat : m < x => m \in T
    BY <2>1
  <2>. QED  BY <2>1, <2>2
<1>. QED  BY <1>1

\* A function on 0..n that starts with a, its value at i computed from that at back[i].
Recursion(S, a, back, step, n) ==
    \E g \in [0..n -> S] : g[0] = a /\ \A i \in 1..n : g[i] = step[i][g[back[i]]]

LEMMA RecursionOnNat ==
    ASSUME NEW S, NEW a \in S, NEW back \in [Nat -> Nat], NEW step \in [Nat -> [S -> S]],
           \A i \in Nat \ {0} : back[i] < i,
           NEW n \in Nat
    PROVE  Recursion(S, a, back, step, n)
<1>. DEFINE Def(m) == Recursion(S, a, back, step, m)
            T == {m \in Nat : Def(m)}
<1>1. Def(0)
  <2>1. [i \in 0..0 |-> a] \in [0..0 -> S]
    OBVIOUS
  <2>2. 0 \in 0..0 /\ 1..0 = {}
    OBVIOUS
  <2>3. [i \in 0..0 |-> a][0] = a
    BY <2>2
  <2>. QED  BY <2>1, <2>2, <2>3 DEF Recursion
<1>2. ASSUME NEW m \in Nat, Def(m)
      PROVE  Def(m + 1)
  <2>1. PICK g \in [0..m -> S] : g[0] = a /\ \A i \in 1..m : g[i] = step[i][g[back[i]]]
    BY <1>2 DEF Recursion
  <2>. DEFINE h == [i \in 0..(m + 1) |-> IF i = m + 1 THEN step[m + 1][g[back[m + 1]]] ELSE g[i]]
  <2>2. /\ \A i \in 1..(m + 1) : i \in Nat /\ back[i] \in 0..m
        /\ g[back[m + 1]] \in S /\ step[m + 1] \in [S -> S]
    <3>1. \A i \in 1..(m + 1) : i \in Nat \ {0} /\ i <= m + 1
      OBVIOUS
    <3>2. \A i \in 1..(m + 1) : back[i] \in Nat /\ back[i] < i
      BY <3>1
    <3>3. \A i \in 1..(m + 1) : i \in Nat /\ back[i] \in 0..m
      BY <3>1, <3>2
    <3>4. m + 1 \in 1..(m + 1) /\ m + 1 \in Nat
      OBVIOUS
    <3>. QED  BY <3>3, <3>4
  <2>3. \A i \in 0..m : h[i] = g[i] /\ g[i] \in S
    BY <2>1
  <2>4. h[m + 1] = step[m + 1][g[back[m + 1]]] /\ h[m + 1] \in S
    BY <2>2
  <2>5. h \in [0..(m + 1) -> S]
    BY <2>2, <2>3
  <2>6. h[0] = a
    BY <2>1, <2>3
  <2>7. ASSUME NEW i \in 1..(m + 1)
        PROVE  h[i] = step[i][h[back[i]]]
    <3>. HIDE DEF h
    <3>1. CASE i = m + 1
      BY <3>1, <2>2, <2>3, <2>4
    <3>2. CASE i # m + 1
      <4>1. i \in 1..m /\ i \in 0..m
        BY <3>2
      <4>. QED  BY <4>1, <2>1, <2>2, <2>3
    <3>. QED  BY <3>1, <3>2
  <2>. QED  BY <2>5, <2>6, <2>7 DEF Recursion
<1>3. \A k \in Nat : (\A m \in Nat : m < k => m \in T) => k \in T
  <2>. HIDE DEF Def
  <2>1. SUFFICES ASSUME NEW k \in Nat, \A m \in Nat : m < k => m \in T
                 PROVE  Def(k)
    OBVIOUS
  <2>2. CASE k # 0
    <3>1. k - 1 \in Nat /\ k - 1 < k /\ (k - 1) + 1 = k
      BY <2>2
    <3>2. Def(k - 1)
      BY <3>1, <2>1
    <3>. QED  BY <3>1, <3>2, <1>2
  <2>. QED  BY <2>2, <1>1
<1>4. Nat \subseteq T
  <2>. HIDE DEF T
  <2>. QED  BY <1>3, Induction
<1>. QED  BY <1>4

(***************************************************************************)
(* The numbers: intlen counts the digits that sprintf writes.              *)
(***************************************************************************)
DigitsFrom(n) == CHOOSE f : f = [i \in 0..n |-> IF i < 10 THEN <<i>> ELSE Append(f[i \div 10], i % 10)]
DivisionsFrom(n) == CHOOSE f : f = [i \in 0..n |-> IF i < 10 THEN 1 ELSE 1 + f[i \div 10]]

LEMMA DivSmaller == \A i \in Nat : i \div 10 \in Nat /\ i % 10 \in Nat /\ (i > 0 => i \div 10 < i)
  OBVIOUS

LEMMA DivisionsRecursion ==
    ASSUME NEW n \in Nat
    PROVE  /\ DivisionsFrom(n) \in [0..n -> Nat]
           /\ \A i \in 0..n : DivisionsFrom(n)[i] = IF i < 10 THEN 1 ELSE 1 + DivisionsFrom(n)[i \div 10]
           /\ Divisions(n) = DivisionsFrom(n)[n]
<1>. DEFINE back == [i \in Nat |-> i \div 10]
            step == [i \in Nat |-> [v \in Nat |-> IF i < 10 THEN 1 ELSE 1 + v]]
            F(f) == [i \in 0..n |-> IF i < 10 THEN 1 ELSE 1 + f[i \div 10]]
<1>1. /\ back \in [Nat -> Nat] /\ step \in [Nat -> [Nat -> Nat]]
      /\ \A i \in Nat \ {0} : back[i] < i
  BY DivSmaller
<1>2. Recursion(Nat, 1, back, step, n)
  <2>. HIDE DEF back, step
  <2>. QED  BY <1>1, RecursionOnNat
<1>3. PICK g \in [0..n -> Nat] : g[0] = 1 /\ \A i \in 1..n : g[i] = step[i][g[back[i]]]
  BY <1>2 DEF Recursion
<1>4. \A i \in 0..n : g[i] = IF i < 10 THEN 1 ELSE 1 + g[i \div 10]
  <2>1. SUFFICES ASSUME NEW i \in 0..n PROVE g[i] = IF i < 10 THEN 1 ELSE 1 + g[i \div 10]
    OBVIOUS
  <2>2. CASE i = 0
    BY <2>2, <1>3
  <2>3. CASE i # 0
    <3>1. i \in 1..n /\ i \in Nat /\ i \div 10 \in 0..n /\ g[i \div 10] \in Nat
      BY <2>3, DivSmaller
    <3>2. g[i] = step[i][g[back[i]]] /\ back[i] = i \div 10
      BY <3>1, <1>3
    <3>. QED  BY <3>1, <3>2
  <2>. QED  BY <2>2, <2>3
<1>5. g = F(g)
  BY <1>4
<1>6. DivisionsFrom(n) = F(DivisionsFrom(n))
  BY <1>5 DEF DivisionsFrom
<1>7. \A i \in 0..n : DivisionsFrom(n)[i] = IF i < 10 THEN 1 ELSE 1 + DivisionsFrom(n)[i \div 10]
  BY <1>6
<1>. DEFINE T == {i \in Nat : i \in 0..n => DivisionsFrom(n)[i] \in Nat}
<1>8. Nat \subseteq T
  <2>1. \A i \in Nat : (\A m \in Nat : m < i => m \in T) => i \in T
    <3>1. SUFFICES ASSUME NEW i \in 0..n, \A m \in Nat : m < i => m \in T
                   PROVE  DivisionsFrom(n)[i] \in Nat
      OBVIOUS
    <3>2. CASE ~(i < 10)
      <4>1. i \div 10 \in Nat /\ i \div 10 < i /\ i \div 10 \in 0..n
        BY <3>2, DivSmaller
      <4>2. DivisionsFrom(n)[i \div 10] \in Nat
        BY <4>1, <3>1
      <4>. QED  BY <4>2, <1>7
    <3>. QED  BY <3>2, <1>7
  <2>. HIDE DEF T
  <2>. QED  BY <2>1, Induction
<1>9. Divisions(n) = DivisionsFrom(n)[n]
  BY DEF Divisions, DivisionsFrom
<1>10. \A i \in 0..n : DivisionsFrom(n)[i] \in Nat
  BY <1>8
<1>11. DivisionsFrom(n) \in [0..n -> Nat]
  BY <1>6, <1>10
<1>. QED  BY <1>7, <1>9, <1>11

LEMMA DigitsRecursion ==
    ASSUME NEW n \in Nat
    PROVE  /\ \A i \in 0..n : DigitsFrom(n)[i] \in Seq(Nat)
           /\ \A i \in 0..n : i < 10 => DigitsFrom(n)[i] = <<i>>
           /\ \A i \in 0..n : ~(i < 10) => DigitsFrom(n)[i] = Append(DigitsFrom(n)[i \div 10], i % 10)
           /\ Digits(n) = DigitsFrom(n)[n]
<1>. DEFINE back == [i \in Nat |-> i \div 10]
            step == [i \in Nat |-> [v \in Seq(Nat) |-> IF i < 10 THEN <<i>> ELSE Append(v, i % 10)]]
            F(f) == [i \in 0..n |-> IF i < 10 THEN <<i>> ELSE Append(f[i \div 10], i % 10)]
<1>1. /\ back \in [Nat -> Nat] /\ step \in [Nat -> [Seq(Nat) -> Seq(Nat)]]
      /\ \A i \in Nat \ {0} : back[i] < i
      /\ <<0>> \in Seq(Nat)
  BY DivSmaller
<1>2. Recursion(Seq(Nat), <<0>>, back, step, n)
  <2>. HIDE DEF back, step
  <2>. QED  BY <1>1, RecursionOnNat
<1>3. PICK g \in [0..n -> Seq(Nat)] : g[0] = <<0>> /\ \A i \in 1..n : g[i] = step[i][g[back[i]]]
  BY <1>2 DEF Recursion
<1>4. \A i \in 0..n : g[i] = IF i < 10 THEN <<i>> ELSE Append(g[i \div 10], i % 10)
  <2>1. SUFFICES ASSUME NEW i \in 0..n
                 PROVE  g[i] = IF i < 10 THEN <<i>> ELSE Append(g[i \div 10], i % 10)
    OBVIOUS
  <2>2. CASE i = 0
    BY <2>2, <1>3
  <2>3. CASE i # 0
    <3>1. i \in 1..n /\ i \in Nat /\ i \div 10 \in 0..n /\ g[i \div 10] \in Seq(Nat)
      BY <2>3, DivSmaller
    <3>2. g[i] = step[i][g[back[i]]] /\ back[i] = i \div 10
      BY <3>1, <1>3
    <3>. QED  BY <3>1, <3>2
  <2>. QED  BY <2>2, <2>3
<1>5. g = F(g)
  BY <1>4
<1>6. DigitsFrom(n) = F(DigitsFrom(n))
  BY <1>5 DEF DigitsFrom
<1>7. /\ \A i \in 0..n : i < 10 => DigitsFrom(n)[i] = <<i>>
      /\ \A i \in 0..n : ~(i < 10) => DigitsFrom(n)[i] = Append(DigitsFrom(n)[i \div 10], i % 10)
  BY <1>6, Zenon
<1>. DEFINE T == {i \in Nat : i \in 0..n => DigitsFrom(n)[i] \in Seq(Nat)}
<1>8. Nat \subseteq T
  <2>1. \A i \in Nat : (\A m \in Nat : m < i => m \in T) => i \in T
    <3>1. SUFFICES ASSUME NEW i \in 0..n, \A m \in Nat : m < i => m \in T
                   PROVE  DigitsFrom(n)[i] \in Seq(Nat)
      OBVIOUS
    <3>2. CASE ~(i < 10)
      <4>1. i \div 10 \in Nat /\ i \div 10 < i /\ i \div 10 \in 0..n /\ i % 10 \in Nat
        BY <3>2, DivSmaller
      <4>2. PICK q \in Seq(Nat) : q = DigitsFrom(n)[i \div 10]
        BY <4>1, <3>1
      <4>3. DigitsFrom(n)[i] = Append(q, i % 10)
        BY <3>2, <4>2, <1>7
      <4>4. Append(q, i % 10) \in Seq(Nat)
        BY <4>1, AppendProperties
      <4>. QED  BY <4>3, <4>4
    <3>3. CASE i < 10
      <4>1. i \in Nat /\ DigitsFrom(n)[i] = <<i>>
        BY <3>3, <1>7
      <4>. QED  BY <4>1
    <3>. QED  BY <3>2, <3>3
  <2>. HIDE DEF T
  <2>. QED  BY <2>1, Induction
<1>9. Digits(n) = DigitsFrom(n)[n]
  BY DEF Digits, DigitsFrom
<1>10. \A i \in 0..n : DigitsFrom(n)[i] \in Seq(Nat)
  BY <1>8
<1>. QED  BY <1>7, <1>9, <1>10, Zenon

\* The divisions are as many as the digits that sprintf writes.
LEMMA DivisionsAreDigits == \A n \in Nat : Divisions(n) \in Nat /\ Digits(n) \in Seq(Nat) /\ Divisions(n) = Len(Digits(n))
<1>1. SUFFICES ASSUME NEW n \in Nat
               PROVE  Divisions(n) \in Nat /\ Digits(n) \in Seq(Nat) /\ Divisions(n) = Len(Digits(n))
  OBVIOUS
<1>0. \A i \in 0..n : DivisionsFrom(n)[i] = IF i < 10 THEN 1 ELSE 1 + DivisionsFrom(n)[i \div 10]
  BY DivisionsRecursion
<1>9. /\ \A i \in 0..n : i < 10 => DigitsFrom(n)[i] = <<i>>
      /\ \A i \in 0..n : ~(i < 10) => DigitsFrom(n)[i] = Append(DigitsFrom(n)[i \div 10], i % 10)
  BY DigitsRecursion, Zenon
<1>6. \A i \in 0..n : DigitsFrom(n)[i] \in Seq(Nat)
  BY DigitsRecursion
<1>. DEFINE T == {i \in Nat : i \in 0..n => DivisionsFrom(n)[i] = Len(DigitsFrom(n)[i])}
<1>2. Nat \subseteq T
  <2>1. \A i \in Nat : (\A m \in Nat : m < i => m \in T) => i \in T
    <3>1. SUFFICES ASSUME NEW i \in 0..n, \A m \in Nat : m < i => m \in T
                   PROVE  DivisionsFrom(n)[i] = Len(DigitsFrom(n)[i])
      OBVIOUS
    <3>2. CASE ~(i < 10)
      <4>1. i \div 10 \in Nat /\ i \div 10 < i /\ i \div 10 \in 0..n /\ i % 10 \in Nat
        BY <3>2, DivSmaller
      <4>2. DivisionsFrom(n)[i \div 10] = Len(DigitsFrom(n)[i \div 10]) /\ DigitsFrom(n)[i \div 10] \in Seq(Nat)
        BY <4>1, <3>1, <1>6
      <4>3. DivisionsFrom(n)[i] = 1 + DivisionsFrom(n)[i \div 10]
        BY <3>2, <1>0
      <4>4. DigitsFrom(n)[i] = Append(DigitsFrom(n)[i \div 10], i % 10)
        BY <3>2, <1>9
      <4>5. Len(Append(DigitsFrom(n)[i \div 10], i % 10)) = Len(DigitsFrom(n)[i \div 10]) + 1
        BY <4>1, <4>2, AppendProperties
      <4>. QED  BY <4>2, <4>3, <4>4, <4>5, LenProperties
    <3>3. CASE i < 10
      <4>1. DivisionsFrom(n)[i] = 1 /\ DigitsFrom(n)[i] = <<i>>
        BY <3>3, <1>0, <1>9
      <4>. QED  BY <4>1
    <3>. QED  BY <3>2, <3>3
  <2>. HIDE DEF T
  <2>. QED  BY <2>1, Induction
<1>3. n \in 0..n /\ DivisionsFrom(n)[n] = Len(DigitsFrom(n)[n])
  BY <1>2
<1>4. Divisions(n) = DivisionsFrom(n)[n] /\ DivisionsFrom(n)[n] \in Nat
  BY <1>3, DivisionsRecursion
<1>5. Digits(n) = DigitsFrom(n)[n] /\ DigitsFrom(n)[n] \in Seq(Nat)
  BY <1>3, DigitsRecursion
<1>. QED  BY <1>3, <1>4, <1>5

\* What is stored in an int is a number.
LEMMA IntOfInt ==
    ASSUME NEW n \in Int
    PROVE  /\ ToInt(n) \in Int
           /\ n \in 0..IntMax => ToInt(n) = n
<1>1. CASE n \in (-IntMax - 1)..IntMax
  BY <1>1 DEF ToInt
<1>2. CASE n \notin (-IntMax - 1)..IntMax
  <2>1. PICK w \in Nat \ {0} : w = 2 * (IntMax + 1)
    BY IntAssumption
  <2>2. (n + IntMax + 1) % w \in Int
    BY <2>1, IntAssumption
  <2>3. n \notin 0..IntMax
    BY <1>2, IntAssumption
  <2>. QED  BY <1>2, <2>1, <2>2, <2>3, IntAssumption DEF ToInt
<1>3. n \in 0..IntMax => n \in (-IntMax - 1)..IntMax
  BY IntAssumption
<1>. QED  BY <1>1, <1>2, <1>3 DEF ToInt

\* intlen counts the digits that sprintf writes, of every number an int holds.
THEOREM IntlenIsDigits ==
    ASSUME NEW n \in Nat
    PROVE  /\ intlen(n) \in Nat
           /\ n <= IntMax => intlen(n) = Len(Digits(n))
<1>1. PICK i \in Int : i = ToInt(n)
  BY IntOfInt
<1>2. CASE i < 0
  <2>1. -i \in Nat
    BY <1>2
  <2>2. Divisions(-i) \in Nat
    BY <2>1, DivisionsAreDigits
  <2>3. intlen(n) = 1 + Divisions(-i)
    BY <1>1, <1>2 DEF intlen
  <2>4. ~(n <= IntMax)
    BY <1>1, <1>2, IntOfInt, IntAssumption
  <2>. QED  BY <2>2, <2>3, <2>4
<1>3. CASE ~(i < 0)
  <2>1. i \in Nat
    BY <1>3
  <2>2. Divisions(i) \in Nat /\ Divisions(i) = Len(Digits(i))
    BY <2>1, DivisionsAreDigits
  <2>3. intlen(n) = Divisions(i)
    BY <1>1, <1>3 DEF intlen
  <2>4. n <= IntMax => i = n
    BY <1>1, IntOfInt, IntAssumption
  <2>. QED  BY <2>2, <2>3, <2>4
<1>. QED  BY <1>2, <1>3

LEMMA BulkNat ==
    \A n \in Nat : Bulk(n) \in Nat /\ n < Bulk(n) /\ Bulk(n) = 1 + Len(Digits(n)) + 2 + n + 2
<1>1. SUFFICES ASSUME NEW n \in Nat
               PROVE  Bulk(n) \in Nat /\ n < Bulk(n) /\ Bulk(n) = 1 + Len(Digits(n)) + 2 + n + 2
  OBVIOUS
<1>2. PICK l \in Nat : l = Len(Digits(n))
  BY DivisionsAreDigits, LenProperties
<1>. QED  BY <1>2 DEF Bulk

\* The code's size of an argument is right where its length is an int.
LEMMA BulklenIsBulk ==
    ASSUME NEW n \in Nat
    PROVE  bulklen(n) \in Nat /\ (n <= IntMax => bulklen(n) = Bulk(n))
<1>1. intlen(n) \in Nat /\ (n <= IntMax => intlen(n) = Len(Digits(n)))
  BY IntlenIsDigits
<1>. QED  BY <1>1 DEF bulklen, Bulk

\* An addition that leaves what is exact exact, or beyond an int.
LEMMA AddedExactly ==
    ASSUME NEW size \in Int, NEW exact \in Nat, NEW n \in Nat,
           exact <= IntMax => size = exact
    PROVE  /\ ToInt(size + bulklen(n)) \in Int
           /\ exact + Bulk(n) <= IntMax => ToInt(size + bulklen(n)) = exact + Bulk(n)
<1>1. PICK b \in Nat : b = bulklen(n) /\ (n <= IntMax => b = Bulk(n))
  BY BulklenIsBulk
<1>2. PICK e \in Nat : e = Bulk(n) /\ n < e
  BY BulkNat
<1>3. ToInt(size + b) \in Int
  BY IntOfInt
<1>4. ASSUME exact + e <= IntMax PROVE ToInt(size + b) = exact + e
  <2>1. size = exact /\ b = e
    BY <1>1, <1>2, <1>4, IntAssumption
  <2>2. size + b \in 0..IntMax
    BY <2>1, <1>4
  <2>. QED  BY <2>1, <2>2, IntOfInt
<1>. QED  BY <1>1, <1>2, <1>3, <1>4

(***************************************************************************)
(* The size of a list of arguments.                                        *)
(***************************************************************************)
Word == Seq(STRING)

LEMMA LaidRecursion ==
    ASSUME NEW a \in Seq(Word)
    PROVE  /\ Laid(a) \in [0..Len(a) -> Nat]
           /\ Laid(a)[0] = 0
           /\ \A k \in 1..Len(a) : Laid(a)[k] = Laid(a)[k - 1] + Bulk(Len(a[k]))
<1>. DEFINE n == Len(a)
            size(k) == Bulk(Len(a[k]))
            back == [i \in Nat |-> IF i = 0 THEN 0 ELSE i - 1]
            step == [i \in Nat |-> [v \in Nat |-> IF i \in 1..n THEN v + size(i) ELSE v]]
            F(f) == [k \in 0..n |-> IF k = 0 THEN 0 ELSE f[k - 1] + size(k)]
<1>1. n \in Nat /\ \A k \in 1..n : size(k) \in Nat
  BY BulkNat, LenProperties, ElementOfSeq DEF Word
<1>2. Laid(a) = CHOOSE f : f = F(f)
  BY DEF Laid
<1>. HIDE DEF n, size
<1>3. /\ back \in [Nat -> Nat] /\ step \in [Nat -> [Nat -> Nat]]
      /\ \A i \in Nat \ {0} : back[i] < i
  BY <1>1
<1>4. Recursion(Nat, 0, back, step, n)
  <2>. HIDE DEF back, step
  <2>. QED  BY <1>1, <1>3, RecursionOnNat
<1>5. PICK g \in [0..n -> Nat] : g[0] = 0 /\ \A i \in 1..n : g[i] = step[i][g[back[i]]]
  BY <1>4 DEF Recursion
<1>6. \A k \in 1..n : g[k] = g[k - 1] + size(k)
  <2>1. SUFFICES ASSUME NEW k \in 1..n PROVE g[k] = g[k - 1] + size(k)
    OBVIOUS
  <2>2. k \in Nat /\ k - 1 \in 0..n /\ back[k] = k - 1
    BY <1>1
  <2>3. PICK v \in Nat : v = g[k - 1]
    BY <2>2
  <2>4. g[k] = step[k][v]
    BY <2>2, <2>3, <1>5
  <2>5. step[k][v] = v + size(k)
    BY <2>2
  <2>. QED  BY <2>3, <2>4, <2>5
<1>7. g = F(g)
  BY <1>1, <1>5, <1>6
<1>8. Laid(a) = F(Laid(a))
  BY <1>2, <1>7
<1>9. Laid(a)[0] = 0 /\ \A k \in 1..n : Laid(a)[k] = Laid(a)[k - 1] + size(k)
  BY <1>1, <1>8
<1>. DEFINE T == {k \in Nat : k \in 0..n => Laid(a)[k] \in Nat}
<1>10. Nat \subseteq T
  <2>1. \A k \in Nat : (\A m \in Nat : m < k => m \in T) => k \in T
    <3>1. SUFFICES ASSUME NEW k \in 0..n, \A m \in Nat : m < k => m \in T
                   PROVE  Laid(a)[k] \in Nat
      OBVIOUS
    <3>2. CASE k # 0
      <4>1. k - 1 \in Nat /\ k - 1 < k /\ k - 1 \in 0..n /\ k \in 1..n
        BY <1>1, <3>2
      <4>2. Laid(a)[k - 1] \in Nat
        BY <4>1, <3>1
      <4>. QED  BY <4>1, <4>2, <1>1, <1>9
    <3>. QED  BY <3>2, <1>9
  <2>. HIDE DEF T
  <2>. QED  BY <2>1, Induction
<1>11. \A k \in 0..n : Laid(a)[k] \in Nat
  BY <1>1, <1>10
<1>12. Laid(a) \in [0..n -> Nat]
  BY <1>8, <1>11
<1>. QED  BY <1>9, <1>12 DEF n, size

\* An argument added leaves the sizes of the others.
LEMMA LaidAppend ==
    ASSUME NEW a \in Seq(Word), NEW w \in Word
    PROVE  /\ \A k \in 0..Len(a) : Laid(Append(a, w))[k] = Laid(a)[k]
           /\ Laid(Append(a, w))[Len(a) + 1] = Laid(a)[Len(a)] + Bulk(Len(w))
<1>1. PICK b : b = Append(a, w)
  OBVIOUS
<1>2. /\ b \in Seq(Word) /\ Len(a) \in Nat /\ Len(b) = Len(a) + 1
      /\ \A k \in 1..Len(a) : b[k] = a[k]
      /\ b[Len(a) + 1] = w
  BY <1>1, AppendProperties, LenProperties
<1>3. PICK n \in Nat : n = Len(a)
  BY <1>2
<1>. DEFINE T == {k \in Nat : k \in 0..n => Laid(b)[k] = Laid(a)[k]}
<1>4. Nat \subseteq T
  <2>1. \A k \in Nat : (\A m \in Nat : m < k => m \in T) => k \in T
    <3>1. SUFFICES ASSUME NEW k \in 0..n, \A m \in Nat : m < k => m \in T
                   PROVE  Laid(b)[k] = Laid(a)[k]
      OBVIOUS
    <3>2. CASE k # 0
      <4>1. k - 1 \in Nat /\ k - 1 < k /\ k - 1 \in 0..n /\ k \in 1..n /\ k \in 1..(n + 1)
        BY <3>2
      <4>2. Laid(b)[k - 1] = Laid(a)[k - 1] /\ b[k] = a[k]
        BY <4>1, <3>1, <1>2, <1>3
      <4>3. Laid(a)[k] = Laid(a)[k - 1] + Bulk(Len(a[k]))
        BY <4>1, <1>3, LaidRecursion
      <4>4. Laid(b)[k] = Laid(b)[k - 1] + Bulk(Len(b[k]))
        BY <4>1, <1>2, <1>3, LaidRecursion
      <4>. QED  BY <4>2, <4>3, <4>4
    <3>3. CASE k = 0
      BY <3>3, <1>2, LaidRecursion
    <3>. QED  BY <3>2, <3>3
  <2>. HIDE DEF T
  <2>. QED  BY <2>1, Induction
<1>5. \A k \in 0..n : Laid(b)[k] = Laid(a)[k]
  BY <1>4
<1>6. n + 1 \in 1..Len(b) /\ (n + 1) - 1 = n /\ n \in 0..n
  BY <1>2, <1>3
<1>7. Laid(b)[n + 1] = Laid(b)[n] + Bulk(Len(b[n + 1]))
  BY <1>2, <1>6, LaidRecursion
<1>. QED  BY <1>1, <1>2, <1>3, <1>5, <1>6, <1>7

LEMMA LaidMonotone ==
    ASSUME NEW a \in Seq(Word), NEW m \in 0..Len(a)
    PROVE  Laid(a)[m] \in Nat /\ Laid(a)[Len(a)] \in Nat /\ Laid(a)[m] <= Laid(a)[Len(a)]
<1>1. PICK n \in Nat : n = Len(a)
  BY LenProperties
<1>2. PICK f \in [0..n -> Nat] : f = Laid(a)
  BY <1>1, LaidRecursion
<1>3. \A k \in 1..n : f[k - 1] <= f[k]
  <2>1. SUFFICES ASSUME NEW k \in 1..n PROVE f[k - 1] <= f[k]
    OBVIOUS
  <2>2. f[k] = f[k - 1] + Bulk(Len(a[k]))
    BY <1>1, <1>2, LaidRecursion
  <2>3. Len(a[k]) \in Nat
    BY <1>1, ElementOfSeq, LenProperties DEF Word
  <2>4. Bulk(Len(a[k])) \in Nat
    BY <2>3, BulkNat, Zenon
  <2>5. k - 1 \in 0..n /\ f[k - 1] \in Nat
    BY <1>1
  <2>. QED  BY <2>2, <2>4, <2>5
<1>. DEFINE T == {k \in Nat : k \in m..n => f[m] <= f[k]}
<1>4. Nat \subseteq T
  <2>1. \A k \in Nat : (\A i \in Nat : i < k => i \in T) => k \in T
    <3>1. SUFFICES ASSUME NEW k \in m..n, \A i \in Nat : i < k => i \in T
                   PROVE  f[m] <= f[k]
      BY <1>1
    <3>2. m \in 0..n /\ f[m] \in Nat
      BY <1>1
    <3>3. CASE k # m
      <4>1. k - 1 \in Nat /\ k - 1 < k /\ k - 1 \in m..n /\ k \in 1..n /\ k - 1 \in 0..n /\ k \in 0..n
        BY <1>1, <3>2, <3>3
      <4>2. f[m] <= f[k - 1] /\ f[k - 1] <= f[k]
        BY <4>1, <3>1, <1>3
      <4>3. f[k - 1] \in Nat /\ f[k] \in Nat
        BY <4>1
      <4>. QED  BY <3>2, <4>2, <4>3
    <3>. QED  BY <3>2, <3>3
  <2>. HIDE DEF T
  <2>. QED  BY <2>1, Induction
<1>5. n \in m..n /\ m \in 0..n
  BY <1>1
<1>6. f[m] <= f[n]
  BY <1>4, <1>5, <1>1
<1>. QED  BY <1>1, <1>2, <1>5, <1>6

\* An argument takes a byte at least.
LEMMA LaidAtLeast ==
    ASSUME NEW a \in Seq(Word)
    PROVE  Laid(a)[Len(a)] \in Nat /\ Len(a) <= Laid(a)[Len(a)]
<1>1. PICK n \in Nat : n = Len(a)
  BY LenProperties
<1>2. PICK f \in [0..n -> Nat] : f = Laid(a)
  BY <1>1, LaidRecursion
<1>3. \A k \in 1..n : f[k - 1] < f[k]
  <2>1. SUFFICES ASSUME NEW k \in 1..n PROVE f[k - 1] < f[k]
    OBVIOUS
  <2>2. f[k] = f[k - 1] + Bulk(Len(a[k]))
    BY <1>1, <1>2, LaidRecursion
  <2>3. PICK m \in Nat : m = Len(a[k])
    BY <1>1, ElementOfSeq, LenProperties DEF Word
  <2>4. PICK b \in Nat \ {0} : b = Bulk(Len(a[k]))
    <3>1. Bulk(m) \in Nat /\ m < Bulk(m)
      BY BulkNat
    <3>2. Bulk(m) \in Nat \ {0}
      BY <3>1
    <3>. QED  BY <2>3, <3>2, Zenon
  <2>5. k - 1 \in 0..n /\ f[k - 1] \in Nat
    BY <1>1
  <2>. QED  BY <2>2, <2>4, <2>5
<1>. DEFINE T == {k \in Nat : k \in 0..n => k <= f[k]}
<1>4. Nat \subseteq T
  <2>1. \A k \in Nat : (\A i \in Nat : i < k => i \in T) => k \in T
    <3>1. SUFFICES ASSUME NEW k \in 0..n, \A i \in Nat : i < k => i \in T
                   PROVE  k <= f[k]
      BY <1>1
    <3>2. CASE k # 0
      <4>1. k - 1 \in Nat /\ k - 1 < k /\ k \in 1..n /\ k - 1 \in 0..n /\ k \in 0..n
        BY <1>1, <3>2
      <4>2. k - 1 <= f[k - 1] /\ f[k - 1] < f[k] /\ f[k - 1] \in Nat /\ f[k] \in Nat
        BY <4>1, <3>1, <1>3
      <4>. QED  BY <4>1, <4>2
    <3>3. CASE k = 0
      <4>1. f[0] \in Nat
        BY <3>3
      <4>. QED  BY <3>3, <4>1
    <3>. QED  BY <3>2, <3>3
  <2>. HIDE DEF T
  <2>. QED  BY <2>1, Induction
<1>5. n \in 0..n /\ n <= f[n] /\ f[n] \in Nat
  <2>1. n \in 0..n
    OBVIOUS
  <2>. QED  BY <1>4, <2>1
<1>. QED  BY <1>1, <1>2, <1>5

(***************************************************************************)
(* The words of a format.                                                  *)
(***************************************************************************)
LEMMA TextRecursion ==
    ASSUME format \in Seq(Tokens)
    PROVE  \A i \in 0..Len(format) :
               /\ Text[i] \in Word
               /\ IsSpace(i) => Text[i] = <<>>
               /\ ~IsSpace(i) => Text[i] = Text[i - 1] \o format[i].value
<1>. DEFINE value(i) == format[i].value
            back == [i \in Nat |-> IF i = 0 THEN 0 ELSE i - 1]
            step(n) == [i \in Nat |-> [v \in Word |->
                           IF i \in 1..n /\ ~IsSpace(i) THEN v \o value(i) ELSE <<>>]]
            F(f) == [i \in 0..Len(format) |-> IF IsSpace(i) THEN <<>> ELSE f[i - 1] \o value(i)]
<1>1. PICK n \in Nat : n = Len(format)
  BY LenProperties
<1>2. \A i \in 1..n : value(i) \in Word
  <2>1. \A i \in 1..n : format[i] \in Tokens
    BY <1>1, ElementOfSeq
  <2>2. \A t \in Tokens : t.value \in Word
    BY DEF Tokens, Word
  <2>. QED  BY <2>1, <2>2
<1>3. IsSpace(0)
  BY DEF IsSpace
<1>4. Text = CHOOSE f : f = F(f)
  BY DEF Text
<1>. HIDE DEF value
<1>5. /\ back \in [Nat -> Nat] /\ \A i \in Nat \ {0} : back[i] < i
      /\ <<>> \in Word
  BY DEF Word
<1>6. step(n) \in [Nat -> [Word -> Word]]
  <2>1. \A i \in Nat, v \in Word : i \in 1..n => v \o value(i) \in Word
    BY <1>2, ConcatProperties DEF Word
  <2>. QED  BY <2>1, <1>5
<1>7. Recursion(Word, <<>>, back, step(n), n)
  <2>. HIDE DEF back, step
  <2>. QED  BY <1>5, <1>6, RecursionOnNat
<1>8. PICK g \in [0..n -> Word] : g[0] = <<>> /\ \A i \in 1..n : g[i] = step(n)[i][g[back[i]]]
  BY <1>7 DEF Recursion
<1>9. ASSUME NEW i \in 0..n
      PROVE  g[i] = IF IsSpace(i) THEN <<>> ELSE g[i - 1] \o value(i)
  <2>1. CASE i = 0
    BY <2>1, <1>3, <1>8
  <2>2. CASE i # 0
    <3>1. i \in Nat /\ i \in 1..n /\ i - 1 \in 0..n /\ back[i] = i - 1
      BY <2>2
    <3>2. PICK v \in Word : v = g[i - 1]
      BY <3>1
    <3>3. g[i] = step(n)[i][v]
      BY <3>1, <3>2, <1>8
    <3>4. step(n)[i][v] = IF IsSpace(i) THEN <<>> ELSE v \o value(i)
      BY <3>1
    <3>. QED  BY <3>2, <3>3, <3>4
  <2>. QED  BY <2>1, <2>2
<1>10. g = F(g)
  <2>. HIDE DEF step, back
  <2>. QED  BY <1>1, <1>9
<1>11. Text = F(Text)
  <2>. HIDE DEF F
  <2>. QED  BY <1>4, <1>10
<1>12. \A i \in 0..n : /\ IsSpace(i) => Text[i] = <<>>
                       /\ ~IsSpace(i) => Text[i] = Text[i - 1] \o value(i)
  BY <1>1, <1>11, Zenon
<1>. DEFINE T == {i \in Nat : i \in 0..n => Text[i] \in Word}
<1>13. Nat \subseteq T
  <2>1. \A i \in Nat : (\A m \in Nat : m < i => m \in T) => i \in T
    <3>1. SUFFICES ASSUME NEW i \in 0..n, \A m \in Nat : m < i => m \in T
                   PROVE  Text[i] \in Word
      OBVIOUS
    <3>2. CASE ~IsSpace(i)
      <4>1. i # 0
        BY <3>2, <1>3
      <4>2. i - 1 \in Nat /\ i - 1 < i /\ i - 1 \in 0..n /\ i \in 1..n
        BY <4>1
      <4>3. PICK v \in Word : v = Text[i - 1]
        BY <4>2, <3>1
      <4>4. Text[i] = v \o value(i)
        BY <3>2, <4>3, <1>12
      <4>5. v \o value(i) \in Word
        BY <4>2, <1>2, ConcatProperties DEF Word
      <4>. QED  BY <4>4, <4>5
    <3>. QED  BY <3>2, <1>5, <1>12
  <2>. HIDE DEF T
  <2>. QED  BY <2>1, Induction
<1>14. \A i \in 0..n : Text[i] \in Word
  BY <1>13
<1>. QED  BY <1>1, <1>12, <1>14 DEF value

\* The number of words that end at k or before.
LEMMA CountWords ==
    ASSUME format \in Seq(Tokens)
    PROVE  /\ \A k \in Int : Words(k) \in Nat
           /\ \A k \in Int : k < 1 => Words(k) = 0
           /\ \A k \in Int : Words(k + 1) = IF k + 1 \in Ends THEN Words(k) + 1 ELSE Words(k)
           /\ \A i, k \in Int : i <= k => Words(i) <= Words(k)
           /\ \A i \in Ends : Words(i) >= 1
           /\ Words(Len(format)) = Cardinality(Ends)
<1>. DEFINE To(k) == {e \in Ends : e <= k}
<1>1. PICK n \in Nat : n = Len(format) /\ DOMAIN format = 1..n
  BY LenProperties
<1>2. \A e \in Ends : e \in Int /\ 1 <= e /\ e <= n
  BY <1>1 DEF Ends
<1>3. IsFiniteSet(Ends)
  <2>1. IsFiniteSet(1..n)
    BY <1>1, FS_Interval
  <2>2. Ends \in SUBSET (1..n)
    BY <1>2
  <2>. QED  BY <2>1, <2>2, FS_Subset
<1>18. \A k \in Int : To(k) \in SUBSET Ends /\ \A e : e \in To(k) <=> e \in Ends /\ e <= k
  OBVIOUS
<1>4. \A k \in Int : IsFiniteSet(To(k)) /\ Cardinality(To(k)) \in Nat
  BY <1>3, FS_Subset, FS_CardinalityType
<1>5. \A k \in Int : Words(k) = Cardinality(To(k))
  BY DEF Words
<1>. HIDE DEF To
<1>6. \A k \in Int : k < 1 => To(k) = {}
  BY <1>1, <1>2, <1>18
<1>7. \A i, k \in Int : i <= k => To(i) \in SUBSET To(k)
  BY <1>1, <1>2, <1>18
<1>8. ASSUME NEW k \in Int, k + 1 \in Ends
      PROVE  To(k + 1) = To(k) \cup {k + 1} /\ k + 1 \notin To(k)
  BY <1>1, <1>2, <1>18, <1>8
<1>9. ASSUME NEW k \in Int, k + 1 \notin Ends
      PROVE  To(k + 1) = To(k)
  <2>1. \A e \in Ends : e <= k + 1 <=> e <= k
    BY <1>2, <1>9
  <2>2. k + 1 \in Int
    OBVIOUS
  <2>3. \A e : e \in To(k + 1) <=> e \in To(k)
    BY <2>1, <2>2, <1>18, Zenon
  <2>. QED  BY <2>3, Zenon
<1>10. To(n) = Ends
  <2>1. \A e : e \in To(n) <=> e \in Ends
    BY <1>1, <1>2, <1>18
  <2>. QED  BY <2>1, Zenon
<1>11. \A i \in Ends : i \in Int /\ i \in To(i)
  BY <1>1, <1>2, <1>18
<1>12. \A k \in Int : Words(k) \in Nat
  BY <1>4, <1>5
<1>13. \A k \in Int : k < 1 => Words(k) = 0
  BY <1>5, <1>6, FS_EmptySet
<1>14. ASSUME NEW k \in Int
       PROVE  Words(k + 1) = IF k + 1 \in Ends THEN Words(k) + 1 ELSE Words(k)
  <2>1. CASE k + 1 \in Ends
    <3>1. k + 1 \in Int /\ Words(k) = Cardinality(To(k)) /\ Words(k + 1) = Cardinality(To(k + 1))
      BY <1>5
    <3>2. Cardinality(To(k) \cup {k + 1}) = Cardinality(To(k)) + 1
      BY <2>1, <1>4, <1>8, FS_AddElement
    <3>. QED  BY <2>1, <3>1, <3>2, <1>8
  <2>2. CASE k + 1 \notin Ends
    BY <2>2, <1>5, <1>9
  <2>. QED  BY <2>1, <2>2
<1>15. \A i, k \in Int : i <= k => Words(i) <= Words(k)
  BY <1>4, <1>5, <1>7, FS_Subset
<1>16. \A i \in Ends : Words(i) >= 1
  <2>1. SUFFICES ASSUME NEW i \in Ends PROVE Words(i) >= 1
    OBVIOUS
  <2>2. i \in Int /\ To(i) # {}
    BY <1>11
  <2>3. Cardinality(To(i)) # 0
    BY <2>2, <1>4, FS_EmptySet
  <2>. QED  BY <2>2, <2>3, <1>4, <1>5
<1>17. Words(Len(format)) = Cardinality(Ends)
  BY <1>1, <1>5, <1>10
<1>. QED  BY <1>12, <1>13, <1>14, <1>15, <1>16, <1>17

(***************************************************************************)
(* The invariant.                                                          *)
(***************************************************************************)
Chars == STRING \cup Nat \cup {"*", "$", "CR", "LF"}

Types ==
    /\ pc \in {"scan", "count", "alloc", "copy", "done", "overrun", "err", "failed"}
    /\ format \in Seq(Tokens) /\ words \in {<<>>} \cup {<<a>> : a \in Seq(Word)}
    /\ c \in Nat \ {0} /\ j \in 0..Len(argv)
    /\ curarg \in {<<>>} \cup {<<w>> : w \in Word}
    /\ touched \in BOOLEAN /\ argv \in Seq(Word) /\ totlen \in Int
    /\ cmd \in Seq(Chars) /\ live \in Int
    /\ pc = "scan" => words = <<>> /\ Len(curarg) = 1 /\ c <= Len(format) + 1
    /\ pc = "count" => words # <<>>
    /\ pc \in {"scan", "alloc"} => j = 0

Header == 1 + Len(Digits(Len(argv))) + 2

\* A size is right, or is that of a command too long for an int.
Exact(n) == n <= IntMax => totlen = n

\* The size is that of the arguments collected, then that of the command.
Sized ==
    /\ pc = "scan" \/ (pc = "alloc" /\ words = <<>>) => Exact(Laid(argv)[Len(argv)])
    /\ pc = "count" /\ CommandLen <= IntMax => totlen = Header + Laid(argv)[j]
    /\ pc = "alloc" /\ words # <<>> => Exact(CommandLen)
    /\ pc \in {"copy", "done", "overrun"} =>
           Exact(CommandLen) /\ Len(cmd) = Header + Laid(argv)[j]
    /\ pc = "done" => j = Len(argv)

\* The strings allocated are the word in hand and the arguments not yet copied.
Owned ==
    IF words # <<>> THEN live = 0
    ELSE /\ pc \in {"scan", "err"} => live = Len(argv) + Len(curarg)
         /\ pc = "alloc" => live = Len(argv) /\ curarg = <<>>
         /\ pc \in {"copy", "done"} => live = Len(argv) - j
         /\ pc = "failed" => live = 0

\* The arguments are the words that end at k or before.
WordsTo(k) == Len(argv) = Words(k) /\ \A i \in Ends : i <= k => argv[Words(i)] = Text[i]
Parsed ==
    words = <<>> => \A k \in Int :
        /\ pc = "scan" /\ c = k + 2 =>
               WordsTo(k) /\ curarg = <<Text[k + 1]>> /\ (touched <=> ~IsSpace(k + 1))
        /\ pc \in {"alloc", "copy", "done"} /\ k = Len(format) => WordsTo(k)

FormatInv == Types /\ Sized /\ Owned /\ Parsed

LEMMA Lengths ==
    ASSUME Types
    PROVE  /\ Len(format) \in Nat /\ Len(argv) \in Nat /\ Len(cmd) \in Nat /\ Len(curarg) \in {0, 1}
           /\ Header \in Nat
           /\ \A k \in 0..Len(argv) : Laid(argv)[k] \in Nat
<1>1. Len(format) \in Nat /\ Len(argv) \in Nat /\ Len(cmd) \in Nat
  BY LenProperties DEF Types
<1>2. PICK l \in Nat : l = Len(Digits(Len(argv)))
  BY <1>1, DivisionsAreDigits, LenProperties
<1>3. Len(curarg) \in {0, 1}
  BY DEF Types
<1>4. argv \in Seq(Word)
  BY DEF Types
<1>5. Laid(argv) \in [0..Len(argv) -> Nat]
  BY <1>4, LaidRecursion
<1>. QED  BY <1>1, <1>2, <1>3, <1>5 DEF Header

\* The number of arguments of a command that is no longer than an int is one.
LEMMA HeaderRight ==
    ASSUME Types, CommandLen <= IntMax
    PROVE  /\ 1 + intlen(Len(argv)) + 2 = Header
           /\ CommandLen = Header + Laid(argv)[Len(argv)] /\ CommandLen \in 0..IntMax
           /\ Header <= IntMax /\ Laid(argv)[Len(argv)] <= IntMax
<1>1. argv \in Seq(Word) /\ Len(argv) \in Nat
  BY LenProperties DEF Types
<1>2. PICK l \in Nat : l = Laid(argv)[Len(argv)] /\ Len(argv) <= l
  BY <1>1, LaidAtLeast
<1>3. PICK d \in Nat : d = Len(Digits(Len(argv)))
  BY <1>1, DivisionsAreDigits, LenProperties
<1>4. CommandLen = 1 + d + 2 + l /\ Header = 1 + d + 2
  BY <1>2, <1>3 DEF CommandLen, Header
<1>5. Len(argv) <= IntMax
  BY <1>1, <1>2, <1>4, IntAssumption
<1>6. intlen(Len(argv)) = d
  BY <1>1, <1>3, <1>5, IntlenIsDigits
<1>. QED  BY <1>2, <1>4, <1>6, IntAssumption

\* The word in hand.
LEMMA Hand ==
    ASSUME Types, pc = "scan"
    PROVE  words = <<>> /\ curarg[1] \in Word /\ curarg = <<curarg[1]>> /\ Len(curarg) = 1
<1>1. Len(curarg) = 1 /\ words = <<>>
  BY DEF Types
<1>2. curarg # <<>>
  BY <1>1
<1>3. PICK w \in Word : curarg = <<w>>
  BY <1>2 DEF Types
<1>. QED  BY <1>1, <1>3

LEMMA TokenType ==
    ASSUME Types, Scanning
    PROVE  pc = "scan" /\ c \in 1..Len(format) /\ Token.value \in Word
<1>1. c \in 1..Len(format)
  BY Lengths DEF Types, Scanning
<1>2. format[c] \in Tokens
  BY <1>1, ElementOfSeq DEF Types
<1>. QED  BY <1>1, <1>2 DEF Scanning, Token, Tokens, Word

LEMMA PutTypes ==
    ASSUME Types, pc = "scan", PutArgument
    PROVE  /\ argv' \in Seq(Word) /\ Len(argv') = Len(argv) + 1 /\ totlen' \in Int
           /\ Exact(Laid(argv)[Len(argv)]) => Exact(Laid(argv)[Len(argv)])'
<1>1. argv \in Seq(Word) /\ curarg[1] \in Word /\ argv' = Append(argv, curarg[1])
  BY Hand DEF Types, PutArgument
<1>2. argv' \in Seq(Word) /\ Len(argv') = Len(argv) + 1
  BY <1>1, AppendProperties
<1>3. Laid(argv')[Len(argv) + 1] = Laid(argv)[Len(argv)] + Bulk(Len(curarg[1]))
  BY <1>1, LaidAppend
<1>4. Len(curarg[1]) \in Nat
  BY <1>1, LenProperties DEF Word
<1>5. PICK n \in Nat : n = Len(curarg[1])
  BY <1>4
<1>6. totlen \in Int /\ totlen' = ToInt(totlen + bulklen(n))
  BY <1>5 DEF Types, PutArgument
<1>7. PICK e \in Nat : e = Laid(argv)[Len(argv)]
  BY <1>1, LaidMonotone, LenProperties
<1>8. Laid(argv')[Len(argv')] = e + Bulk(n)
  BY <1>2, <1>3, <1>5, <1>7
<1>9. totlen' \in Int
  <2>1. bulklen(n) \in Nat
    BY BulklenIsBulk
  <2>. QED  BY <1>6, <2>1, IntOfInt
<1>10. ASSUME e <= IntMax => totlen = e
       PROVE  e + Bulk(n) <= IntMax => totlen' = e + Bulk(n)
  BY <1>6, <1>10, AddedExactly
<1>. QED  BY <1>2, <1>7, <1>8, <1>9, <1>10 DEF Exact

\* What Alloc and Copy lay out.
LEMMA Join == \A s, t \in Seq(Chars) : s \o t \in Seq(Chars) /\ Len(s \o t) = Len(s) + Len(t)
  BY ConcatProperties

LEMMA Symbols ==
    /\ <<"*">> \in Seq(Chars) /\ <<"$">> \in Seq(Chars) /\ EOL \in Seq(Chars)
    /\ Len(<<"*">>) = 1 /\ Len(<<"$">>) = 1 /\ Len(EOL) = 2
    /\ Seq(Nat) \subseteq Seq(Chars) /\ Word \subseteq Seq(Chars)
<1>1. <<"*">> \in Seq(Chars) /\ <<"$">> \in Seq(Chars) /\ EOL \in Seq(Chars)
  BY DEF Chars, EOL
<1>2. Len(<<"*">>) = 1 /\ Len(<<"$">>) = 1 /\ Len(EOL) = 2
  BY DEF EOL
<1>3. Seq(Nat) \subseteq Seq(Chars)
  BY DEF Chars
<1>4. Word \subseteq Seq(Chars)
  BY DEF Chars, Word
<1>. QED  BY <1>1, <1>2, <1>3, <1>4

LEMMA LaidOut ==
    ASSUME NEW s \in Seq(Chars), NEW d \in Seq(Nat), NEW arg \in Word
    PROVE  /\ <<"*">> \o d \o EOL \in Seq(Chars)
           /\ Len(<<"*">> \o d \o EOL) = 1 + Len(d) + 2
           /\ s \o <<"$">> \o d \o EOL \o arg \o EOL \in Seq(Chars)
           /\ Len(s \o <<"$">> \o d \o EOL \o arg \o EOL) = Len(s) + (1 + Len(d) + 2 + Len(arg) + 2)
<1>1. PICK star \in Seq(Chars) : star = <<"*">> /\ Len(star) = 1
  BY Symbols
<1>2. PICK dollar \in Seq(Chars) : dollar = <<"$">> /\ Len(dollar) = 1
  BY Symbols
<1>3. PICK eol \in Seq(Chars) : eol = EOL /\ Len(eol) = 2
  BY Symbols
<1>4. PICK e \in Seq(Chars) : e = d
  BY Symbols
<1>5. PICK w \in Seq(Chars) : w = arg
  BY Symbols
<1>6. star \o e \in Seq(Chars) /\ Len(star \o e) = 1 + Len(e)
  BY <1>1, Join
<1>7. star \o e \o eol \in Seq(Chars) /\ Len(star \o e \o eol) = 1 + Len(e) + 2
  BY <1>3, <1>6, Join
<1>8. s \o dollar \in Seq(Chars) /\ Len(s \o dollar) = Len(s) + 1
  BY <1>2, Join
<1>9. s \o dollar \o e \in Seq(Chars) /\ Len(s \o dollar \o e) = Len(s) + 1 + Len(e)
  BY <1>8, Join
<1>10. s \o dollar \o e \o eol \in Seq(Chars) /\ Len(s \o dollar \o e \o eol) = Len(s) + 1 + Len(e) + 2
  BY <1>3, <1>9, Join
<1>11. /\ s \o dollar \o e \o eol \o w \in Seq(Chars)
       /\ Len(s \o dollar \o e \o eol \o w) = Len(s) + 1 + Len(e) + 2 + Len(w)
  BY <1>10, Join
<1>12. /\ s \o dollar \o e \o eol \o w \o eol \in Seq(Chars)
       /\ Len(s \o dollar \o e \o eol \o w \o eol) = Len(s) + 1 + Len(e) + 2 + Len(w) + 2
  <2>1. PICK r \in Seq(Chars) : /\ r = s \o dollar \o e \o eol \o w
                                /\ Len(r) = Len(s) + 1 + Len(e) + 2 + Len(w)
    BY <1>11
  <2>2. r \o eol \in Seq(Chars) /\ Len(r \o eol) = Len(r) + Len(eol)
    BY Join, Zenon
  <2>. QED  BY <2>1, <2>2, <1>3, Zenon
<1>13. Len(s) \in Nat /\ Len(e) \in Nat /\ Len(w) \in Nat
  BY LenProperties
<1>14. Len(s) + 1 + Len(e) + 2 + Len(w) + 2 = Len(s) + (1 + Len(e) + 2 + Len(w) + 2)
  BY <1>13
<1>. QED  BY <1>1, <1>2, <1>3, <1>4, <1>5, <1>7, <1>12, <1>14, Zenon

LEMMA TypesKept ==
    ASSUME Types, [Next]_vars
    PROVE  Types'
<1>. USE DEF input
<1>0. Len(format) \in Nat /\ Len(argv) \in Nat /\ <<>> \in Word /\ Len(<<<<>>>>) = 1
  BY Lengths DEF Word
<1>1. CASE ScanSpace
  <2>1. pc = "scan" /\ c \in 1..Len(format)
    BY <1>1, TokenType DEF ScanSpace
  <2>2. c + 1 \in Nat \ {0} /\ c + 1 <= Len(format) + 1 /\ live + 1 \in Int
    BY <2>1, <1>0 DEF Types
  <2>3. CASE ~touched
    BY <1>1, <2>1, <2>2, <2>3 DEF Types, ScanSpace
  <2>4. CASE touched
    <3>1. PutArgument /\ UNCHANGED <<input, cmd, j>>
      BY <1>1, <2>4 DEF ScanSpace
    <3>2. argv' \in Seq(Word) /\ Len(argv') = Len(argv) + 1 /\ totlen' \in Int
      BY <2>1, <3>1, PutTypes
    <3>3. j' = 0 /\ j' \in 0..Len(argv')
      BY <2>1, <3>1, <3>2, <1>0 DEF Types
    <3>4. \/ curarg' = <<<<>>>> /\ live' = live + 1 /\ touched' = FALSE /\ c' = c + 1 /\ UNCHANGED pc
          \/ curarg' = <<>> /\ pc' = "err" /\ UNCHANGED <<touched, c, live>>
      BY <1>1, <2>4 DEF ScanSpace
    <3>5. CASE curarg' = <<<<>>>> /\ live' = live + 1 /\ touched' = FALSE /\ c' = c + 1 /\ UNCHANGED pc
      <4>1. curarg' \in {<<w>> : w \in Word} /\ Len(curarg') = 1
        BY <3>5, <1>0
      <4>. QED  BY <2>1, <2>2, <3>1, <3>2, <3>3, <3>5, <4>1 DEF Types
    <3>6. CASE curarg' = <<>> /\ pc' = "err" /\ UNCHANGED <<touched, c, live>>
      BY <3>1, <3>2, <3>3, <3>6 DEF Types
    <3>. QED  BY <3>4, <3>5, <3>6
  <2>. QED  BY <2>3, <2>4
<1>2. CASE ScanText
  <2>1. pc = "scan" /\ c \in 1..Len(format) /\ Token.value \in Word /\ curarg[1] \in Word
    BY <1>2, TokenType, Hand DEF ScanText
  <2>2. curarg[1] \o Token.value \in Word
    BY <2>1, ConcatProperties DEF Word
  <2>3. curarg' \in {<<w>> : w \in Word} /\ Len(curarg') = 1
    BY <1>2, <2>2 DEF ScanText
  <2>4. c + 1 \in Nat \ {0} /\ c + 1 <= Len(format) + 1
    BY <2>1, <1>0 DEF Types
  <2>. QED  BY <1>2, <2>1, <2>3, <2>4 DEF Types, ScanText
<1>3. CASE ScanFails
  BY <1>3 DEF Types, ScanFails, NoMemory
<1>4. CASE ScanEnd
  <2>1. CASE touched
    <3>1. PutArgument /\ UNCHANGED <<live, input, c, touched, cmd, j>> /\ pc = "scan"
      BY <1>4, <2>1 DEF ScanEnd
    <3>2. argv' \in Seq(Word) /\ Len(argv') = Len(argv) + 1 /\ totlen' \in Int
      BY <3>1, PutTypes
    <3>3. j' = 0 /\ j' \in 0..Len(argv')
      BY <3>1, <3>2, <1>0 DEF Types
    <3>. QED  BY <1>4, <3>1, <3>2, <3>3 DEF Types, ScanEnd
  <2>2. CASE ~touched
    BY <1>4, <2>2 DEF Types, ScanEnd
  <2>. QED  BY <2>1, <2>2
<1>5. CASE ScanEndFails
  BY <1>5 DEF Types, ScanEndFails, NoMemory
<1>6. CASE Alloc
  <2>1. totlen' \in Int
    <3>1. totlen \in Int /\ intlen(Len(argv)) \in Nat
      BY <1>0, IntlenIsDigits DEF Types
    <3>2. totlen + 1 + intlen(Len(argv)) + 2 \in Int
      BY <3>1
    <3>3. ToInt(totlen + 1 + intlen(Len(argv)) + 2) \in Int
      BY <3>2, IntOfInt
    <3>. QED  BY <1>6, <3>1, <3>3 DEF Alloc
  <2>2. cmd' \in Seq(Chars)
    <3>1. PICK d \in Seq(Nat) : d = Digits(Len(argv))
      BY <1>0, DivisionsAreDigits
    <3>2. <<"*">> \o d \o EOL \in Seq(Chars)
      BY <1>0, LaidOut DEF Types
    <3>. QED  BY <1>6, <3>1, <3>2 DEF Types, Alloc
  <2>3. j' \in 0..Len(argv') /\ pc' \in {"copy", "err"}
    BY <1>6 DEF Types, Alloc
  <2>. QED  BY <1>6, <2>1, <2>2, <2>3 DEF Types, Alloc
<1>7. CASE Copy
  <2>1. cmd' \in Seq(Chars)
    <3>1. PICK arg \in Word : arg = argv[j + 1]
      <4>1. j + 1 \in 1..Len(argv)
        BY <1>7, <1>0 DEF Types, Copy
      <4>. QED  BY <4>1, ElementOfSeq DEF Types
    <3>2. PICK d \in Seq(Nat) : d = Digits(Len(arg))
      BY <3>1, DivisionsAreDigits, LenProperties DEF Word
    <3>3. cmd \in Seq(Chars)
      BY DEF Types
    <3>4. cmd \o <<"$">> \o d \o EOL \o arg \o EOL \in Seq(Chars)
      BY <3>3, LaidOut
    <3>. QED  BY <1>7, <3>1, <3>2, <3>4 DEF Copy
  <2>2. j' \in 0..Len(argv') /\ live' \in Int
    BY <1>7, <1>0 DEF Types, Copy
  <2>. QED  BY <1>7, <2>1, <2>2 DEF Types, Copy
<1>8. CASE Return
  BY <1>8 DEF Types, Return
<1>11. CASE Count
  <2>1. pc = "count" /\ j \in 0..Len(argv) /\ j < Len(argv) /\ argv \in Seq(Word)
    BY <1>11 DEF Types, Count
  <2>2. j + 1 \in 1..Len(argv) /\ j + 1 \in 0..Len(argv)
    BY <2>1, <1>0
  <2>3. PICK n \in Nat : n = Len(argv[j + 1])
    BY <2>1, <2>2, ElementOfSeq, LenProperties DEF Word
  <2>4. totlen + bulklen(n) \in Int
    BY BulklenIsBulk DEF Types
  <2>5. totlen' \in Int
    BY <1>11, <2>3, <2>4, IntOfInt DEF Count
  <2>. QED  BY <1>11, <2>2, <2>5 DEF Types, Count
<1>12. CASE CountEnd
  <2>1. 0 \in 0..Len(argv)
    BY <1>0
  <2>. QED  BY <1>12, <2>1 DEF Types, CountEnd
<1>13. CASE Overrun
  BY <1>13 DEF Types, Overrun
<1>9. CASE Err
  <2>1. live' \in Int
    BY <1>9, Lengths DEF Types, Err
  <2>. QED  BY <1>9, <2>1 DEF Types, Err
<1>10. CASE UNCHANGED vars
  BY <1>10 DEF Types, vars
<1>. QED  BY <1>1, <1>2, <1>3, <1>4, <1>5, <1>6, <1>7, <1>8, <1>9, <1>10, <1>11, <1>12, <1>13
          DEF Next

LEMMA SizedKept ==
    ASSUME Types, Sized, [Next]_vars
    PROVE  Sized'
<1>. USE DEF input
<1>0. Len(format) \in Nat /\ Len(argv) \in Nat
  BY Lengths
<1>1. CASE ScanSpace
  <2>1. pc = "scan" /\ Exact(Laid(argv)[Len(argv)])
    BY <1>1, TokenType DEF ScanSpace, Sized
  <2>2. CASE ~touched
    BY <1>1, <2>1, <2>2 DEF Sized, Exact, ScanSpace
  <2>3. CASE touched
    <3>1. PutArgument /\ pc' \in {"scan", "err"}
      BY <1>1, <2>1, <2>3 DEF ScanSpace
    <3>2. Exact(Laid(argv)[Len(argv)])'
      BY <2>1, <3>1, PutTypes
    <3>. QED  BY <3>1, <3>2 DEF Sized
  <2>. QED  BY <2>2, <2>3
<1>2. CASE ScanText
  BY <1>2, TokenType DEF Sized, Exact, ScanText
<1>3. CASE ScanFails
  BY <1>3 DEF Sized, ScanFails, NoMemory
<1>4. CASE ScanEnd
  <2>1. pc = "scan" /\ Exact(Laid(argv)[Len(argv)]) /\ words' = <<>> /\ pc' = "alloc"
    BY <1>4, Hand DEF ScanEnd, Sized
  <2>2. CASE touched
    <3>1. PutArgument
      BY <1>4, <2>2 DEF ScanEnd
    <3>2. Exact(Laid(argv)[Len(argv)])'
      BY <2>1, <3>1, PutTypes
    <3>. QED  BY <2>1, <3>2 DEF Sized
  <2>3. CASE ~touched
    BY <1>4, <2>1, <2>3 DEF Sized, Exact, ScanEnd
  <2>. QED  BY <2>2, <2>3
<1>5. CASE ScanEndFails
  BY <1>5 DEF Sized, ScanEndFails, NoMemory
<1>6. CASE Alloc
  <2>1. /\ j' = 0 /\ argv' = argv /\ pc' \in {"copy", "err"} /\ Header' = Header
        /\ CommandLen' = CommandLen
    BY <1>6 DEF Types, Alloc, Header, CommandLen
  <2>2. Exact(CommandLen)'
    <3>1. SUFFICES ASSUME CommandLen <= IntMax PROVE totlen' = CommandLen
      BY <2>1 DEF Exact
    <3>2. PICK h \in Nat : h = Header /\ 1 + intlen(Len(argv)) + 2 = h
      BY <3>1, HeaderRight, Lengths
    <3>3. PICK l \in Nat : l = Laid(argv)[Len(argv)]
      BY <1>0, Lengths
    <3>4. CommandLen = h + l /\ h + l \in 0..IntMax /\ l <= IntMax
      BY <3>1, <3>2, <3>3, HeaderRight
    <3>5. CASE words = <<>>
      <4>1. totlen = l
        BY <1>6, <3>3, <3>4, <3>5 DEF Sized, Exact, Alloc
      <4>2. PICK i \in Nat : i = intlen(Len(argv))
        BY <1>0, IntlenIsDigits
      <4>3. totlen + 1 + i + 2 = h + l
        BY <3>2, <4>1, <4>2
      <4>4. totlen' = ToInt(h + l)
        BY <1>6, <3>5, <4>2, <4>3 DEF Alloc
      <4>. QED  BY <3>4, <4>4, IntOfInt
    <3>6. CASE words # <<>>
      BY <1>6, <3>1, <3>6 DEF Sized, Exact, Alloc
    <3>. QED  BY <3>5, <3>6
  <2>3. pc' = "copy" => Len(cmd') = Header + Laid(argv)[0]
    <3>1. SUFFICES ASSUME pc' = "copy" PROVE Len(cmd') = Header + Laid(argv)[0]
      OBVIOUS
    <3>2. PICK d \in Seq(Nat) : d = Digits(Len(argv))
      BY <1>0, DivisionsAreDigits
    <3>3. cmd' = <<"*">> \o d \o EOL
      BY <1>6, <3>1, <3>2 DEF Alloc
    <3>4. <<>> \in Seq(Chars) /\ <<>> \in Word
      BY DEF Word
    <3>5. Len(<<"*">> \o d \o EOL) = 1 + Len(d) + 2
      BY <3>4, LaidOut
    <3>6. argv \in Seq(Word)
      BY DEF Types
    <3>7. Laid(argv)[0] = 0
      BY <3>6, LaidRecursion
    <3>. QED  BY <3>2, <3>3, <3>5, <3>7, Lengths DEF Header
  <2>. QED  BY <2>1, <2>2, <2>3 DEF Sized
<1>7. CASE Copy
  <2>1. /\ pc' = "copy" /\ j' = j + 1 /\ argv' = argv /\ totlen' = totlen /\ Header' = Header
        /\ CommandLen' = CommandLen
    BY <1>7 DEF Copy, Header, CommandLen
  <2>2. Exact(CommandLen) /\ Exact(CommandLen)' /\ Len(cmd) = Header + Laid(argv)[j]
    BY <1>7, <2>1 DEF Copy, Sized, Exact
  <2>3. j \in 0..Len(argv) /\ j + 1 \in 1..Len(argv) /\ (j + 1) - 1 = j /\ argv \in Seq(Word)
    BY <1>7, <1>0 DEF Types, Copy
  <2>4. PICK arg \in Word : arg = argv[j + 1]
    BY <2>3, ElementOfSeq
  <2>5. Laid(argv)[j + 1] = Laid(argv)[j] + Bulk(Len(arg))
    BY <2>3, <2>4, LaidRecursion
  <2>6. Len(arg) \in Nat
    BY LenProperties DEF Word
  <2>7. PICK d \in Seq(Nat) : d = Digits(Len(arg))
    BY <2>6, DivisionsAreDigits
  <2>8. Bulk(Len(arg)) = 1 + Len(d) + 2 + Len(arg) + 2
    BY <2>6, <2>7, BulkNat
  <2>9. Len(cmd') = Len(cmd) + (1 + Len(d) + 2 + Len(arg) + 2)
    <3>1. cmd \in Seq(Chars)
      BY DEF Types
    <3>2. Len(cmd \o <<"$">> \o d \o EOL \o arg \o EOL) = Len(cmd) + (1 + Len(d) + 2 + Len(arg) + 2)
      BY <3>1, LaidOut
    <3>3. cmd' = cmd \o <<"$">> \o d \o EOL \o arg \o EOL
      BY <1>7, <2>4, <2>7 DEF Copy
    <3>. QED  BY <3>2, <3>3
  <2>10. Laid(argv)[j] \in Nat /\ Bulk(Len(arg)) \in Nat /\ Header \in Nat
    BY <2>3, <2>6, BulkNat, Lengths
  <2>11. Len(cmd') = Header + Laid(argv)[j + 1]
    BY <2>2, <2>5, <2>8, <2>9, <2>10
  <2>. QED  BY <2>1, <2>2, <2>11 DEF Sized
<1>8. CASE Return
  BY <1>8 DEF Sized, Exact, CommandLen, Header, Return
<1>11. CASE Count
  <2>1. /\ pc = "count" /\ pc' = "count" /\ j' = j + 1 /\ argv' = argv
        /\ totlen' = ToInt(totlen + bulklen(Len(argv[j + 1])))
        /\ Header' = Header /\ CommandLen' = CommandLen
    BY <1>11 DEF Count, Header, CommandLen
  <2>2. j \in 0..Len(argv) /\ j + 1 \in 1..Len(argv) /\ (j + 1) - 1 = j /\ argv \in Seq(Word)
        /\ j + 1 \in 0..Len(argv)
    BY <1>11, <1>0 DEF Types, Count
  <2>3. PICK n \in Nat : n = Len(argv[j + 1])
    BY <2>2, ElementOfSeq, LenProperties DEF Word
  <2>4. PICK l \in Nat : l = Laid(argv)[j] /\ Laid(argv)[j + 1] = l + Bulk(n)
    BY <2>2, <2>3, LaidRecursion, Lengths
  <2>5. ASSUME CommandLen <= IntMax PROVE totlen' = Header + Laid(argv)[j + 1]
    <3>1. PICK h \in Nat : h = Header
      BY Lengths
    <3>2. totlen = h + l
      BY <2>1, <2>4, <2>5, <3>1 DEF Sized
    <3>3. PICK b \in Nat : b = Bulk(n)
      BY BulkNat
    <3>4. PICK m \in Nat : m = Laid(argv)[Len(argv)] /\ l + b <= m
      BY <2>2, <2>4, <3>3, LaidMonotone
    <3>5. h + m <= IntMax
      BY <2>5, <3>1, <3>4, HeaderRight
    <3>6. h + l + b <= IntMax
      BY <3>4, <3>5, IntAssumption
    <3>7. h + l \in Nat /\ totlen \in Int
      BY DEF Types
    <3>8. ToInt(totlen + bulklen(n)) = h + l + b
      BY <3>2, <3>3, <3>6, <3>7, AddedExactly
    <3>. QED  BY <2>1, <2>3, <2>4, <3>1, <3>3, <3>8
  <2>. QED  BY <2>1, <2>5 DEF Sized
<1>12. CASE CountEnd
  <2>1. /\ pc = "count" /\ pc' = "alloc" /\ j = Len(argv) /\ words' # <<>>
        /\ CommandLen' = CommandLen /\ totlen' = totlen
    BY <1>12 DEF CountEnd, CommandLen, Types
  <2>2. CommandLen <= IntMax => totlen = CommandLen
    BY <2>1, HeaderRight DEF Sized
  <2>. QED  BY <2>1, <2>2 DEF Sized, Exact
<1>13. CASE Overrun
  BY <1>13 DEF Sized, Exact, CommandLen, Header, Overrun
<1>9. CASE Err
  BY <1>9 DEF Sized, Err
<1>10. CASE UNCHANGED vars
  BY <1>10 DEF Sized, Exact, CommandLen, Header, vars
<1>. QED  BY <1>1, <1>2, <1>3, <1>4, <1>5, <1>6, <1>7, <1>8, <1>9, <1>10, <1>11, <1>12, <1>13
          DEF Next

LEMMA OwnedKept ==
    ASSUME Types, Owned, [Next]_vars
    PROVE  Owned'
<1>. USE DEF input
<1>0. Len(format) \in Nat /\ Len(argv) \in Nat /\ live \in Int
  BY Lengths DEF Types
<1>11. Len(<<>>) = 0 /\ Len(<<<<>>>>) = 1
  OBVIOUS
<1>1. CASE ScanSpace
  <2>1. pc = "scan" /\ words = <<>> /\ words' = words /\ Len(curarg) = 1 /\ live = Len(argv) + 1
    BY <1>1, TokenType, Hand DEF ScanSpace, Owned
  <2>2. CASE ~touched
    BY <1>1, <2>1, <2>2 DEF Owned, ScanSpace
  <2>3. CASE touched
    <3>1. PutArgument
      BY <1>1, <2>3 DEF ScanSpace
    <3>2. Len(argv') = Len(argv) + 1
      BY <2>1, <3>1, PutTypes
    <3>3. \/ curarg' = <<<<>>>> /\ live' = live + 1 /\ pc' = "scan"
          \/ curarg' = <<>> /\ pc' = "err" /\ live' = live
      BY <1>1, <2>1, <2>3 DEF ScanSpace
    <3>4. \/ Len(curarg') = 1 /\ live' = live + 1 /\ pc' = "scan"
          \/ Len(curarg') = 0 /\ pc' = "err" /\ live' = live
      BY <1>11, <3>3, Zenon
    <3>5. live' = Len(argv') + Len(curarg')
      <4>1. PICK n \in Nat : n = Len(argv)
        BY <1>0
      <4>2. Len(argv') = n + 1 /\ live = n + 1
        BY <2>1, <3>2, <4>1
      <4>. QED  BY <3>4, <4>2
    <3>. QED  BY <2>1, <3>4, <3>5 DEF Owned
  <2>. QED  BY <2>2, <2>3
<1>2. CASE ScanText
  <2>1. pc = "scan" /\ words = <<>> /\ Len(curarg) = 1 /\ Len(curarg') = 1
    BY <1>2, TokenType, Hand DEF ScanText
  <2>. QED  BY <1>2, <2>1 DEF Owned, ScanText
<1>3. CASE ScanFails
  BY <1>3, Hand DEF Owned, ScanFails, NoMemory, Scanning
<1>4. CASE ScanEnd
  <2>1. pc = "scan" /\ words = <<>> /\ words' = words /\ Len(curarg) = 1 /\ live = Len(argv) + 1
        /\ pc' = "alloc" /\ curarg' = <<>>
    BY <1>4, Hand DEF ScanEnd, Owned
  <2>2. CASE touched
    <3>1. PutArgument /\ live' = live
      BY <1>4, <2>2 DEF ScanEnd
    <3>2. Len(argv') = Len(argv) + 1
      BY <2>1, <3>1, PutTypes
    <3>. QED  BY <2>1, <3>1, <3>2 DEF Owned
  <2>3. CASE ~touched
    <3>1. live' = live - 1 /\ argv' = argv
      BY <1>4, <2>3 DEF ScanEnd
    <3>2. live' = Len(argv')
      BY <1>0, <2>1, <3>1
    <3>. QED  BY <2>1, <3>2 DEF Owned
  <2>. QED  BY <2>2, <2>3
<1>5. CASE ScanEndFails
  BY <1>5, Hand DEF Owned, ScanEndFails, NoMemory
<1>6. CASE Alloc
  <2>1. j = 0
    BY <1>6 DEF Types, Alloc
  <2>. QED  BY <1>0, <1>6, <2>1 DEF Owned, Alloc
<1>7. CASE Copy
  BY <1>0, <1>7 DEF Owned, Copy, Types
<1>8. CASE Return
  BY <1>8 DEF Owned, Return
<1>12. CASE Count \/ CountEnd
  BY <1>12 DEF Owned, Count, CountEnd, Types
<1>13. CASE Overrun
  BY <1>13 DEF Owned, Overrun
<1>9. CASE Err
  <2>1. pc' = "failed" /\ words' = words
        /\ live' = IF words = <<>> THEN live - Len(argv) - Len(curarg) ELSE live
    BY <1>9 DEF Err
  <2>2. words = <<>> => live = Len(argv) + Len(curarg)
    BY <1>9 DEF Err, Owned
  <2>3. Len(argv) \in Nat /\ Len(curarg) \in Nat
    BY Lengths
  <2>4. words = <<>> => live' = 0
    BY <2>1, <2>2, <2>3
  <2>. QED  BY <2>1, <2>4 DEF Owned
<1>10. CASE UNCHANGED vars
  BY <1>10 DEF Owned, vars
<1>. QED  BY <1>1, <1>2, <1>3, <1>4, <1>5, <1>6, <1>7, <1>8, <1>9, <1>10, <1>12, <1>13 DEF Next

\* A step leaves the format, and what is defined from it.
LEMMA FormatKept ==
    ASSUME UNCHANGED format
    PROVE  /\ \A i : IsSpace(i)' = IsSpace(i)
           /\ Text' = Text /\ Ends' = Ends /\ \A k : Words(k)' = Words(k)
<1>1. \A i : IsSpace(i)' = IsSpace(i)
  BY DEF IsSpace
<1>2. Text' = Text
  BY DEF Text, IsSpace
<1>3. Ends' = Ends
  BY DEF Ends, IsSpace
<1>4. \A k : Words(k)' = Words(k)
  BY <1>3 DEF Words
<1>. QED  BY <1>1, <1>2, <1>3, <1>4

LEMMA WordsToKept ==
    ASSUME UNCHANGED <<format, argv>>
    PROVE  \A k : WordsTo(k)' = WordsTo(k)
<1>1. Text' = Text /\ Ends' = Ends /\ \A k : Words(k)' = Words(k)
  BY FormatKept
<1>. QED  BY <1>1 DEF WordsTo

\* No word ends at k.
LEMMA NoWord ==
    ASSUME format \in Seq(Tokens), NEW k \in Int, WordsTo(k), k + 1 \notin Ends
    PROVE  WordsTo(k + 1)
<1>1. Words(k + 1) = Words(k)
  BY CountWords
<1>2. \A i \in Ends : i \in Int
  BY LenProperties DEF Ends
<1>3. \A i \in Ends : i <= k + 1 => i <= k
  BY <1>2
<1>. QED  BY <1>1, <1>3 DEF WordsTo

\* A word ends at k, and is put at the end of argv.
LEMMA WordEnds ==
    ASSUME Types, pc = "scan", PutArgument, UNCHANGED format,
           NEW k \in Int, WordsTo(k), k + 1 \in Ends, curarg[1] = Text[k + 1]
    PROVE  WordsTo(k + 1)'
<1>0. format \in Seq(Tokens) /\ argv \in Seq(Word) /\ curarg[1] \in Word /\ argv' = Append(argv, curarg[1])
  BY Hand DEF Types, PutArgument
<1>1. Text' = Text /\ Ends' = Ends /\ \A i : Words(i)' = Words(i)
  BY FormatKept
<1>2. Words(k + 1) = Words(k) + 1 /\ Len(argv) = Words(k) /\ Words(k) \in Nat
  BY <1>0, CountWords DEF WordsTo
<1>3. /\ Len(argv') = Len(argv) + 1 /\ argv'[Len(argv) + 1] = curarg[1]
      /\ \A i \in 1..Len(argv) : argv'[i] = argv[i]
  BY <1>0, AppendProperties
<1>4. ASSUME NEW i \in Ends, i <= k + 1
      PROVE  argv'[Words(i)] = Text[i]
  <2>1. i \in Int
    BY <1>0, LenProperties DEF Ends
  <2>2. CASE i = k + 1
    BY <2>2, <1>2, <1>3
  <2>3. CASE i # k + 1
    <3>1. i <= k
      BY <2>1, <2>3, <1>4
    <3>2. Words(i) \in Nat /\ Words(i) >= 1 /\ Words(i) <= Words(k)
      BY <3>1, <2>1, <1>0, CountWords
    <3>3. Words(i) \in 1..Len(argv)
      BY <3>2, <1>2
    <3>4. argv[Words(i)] = Text[i]
      BY <3>1 DEF WordsTo
    <3>. QED  BY <3>3, <3>4, <1>3
  <2>. QED  BY <2>2, <2>3
<1>. QED  BY <1>1, <1>2, <1>3, <1>4 DEF WordsTo

LEMMA ParsedKept ==
    ASSUME Types, Parsed, [Next]_vars
    PROVE  Parsed'
<1>. USE DEF input
<1>0. Len(format) \in Nat /\ format \in Seq(Tokens) /\ DOMAIN format = 1..Len(format) /\ c \in Nat \ {0}
  BY LenProperties DEF Types
<1>1. format' = format /\ words' = words
  BY DEF Next, vars, ScanSpace, ScanText, ScanFails, NoMemory, ScanEnd, ScanEndFails, Count, CountEnd, Alloc, Copy,
         Return, Overrun, Err
<1>2. /\ Text' = Text /\ \A i : IsSpace(i)' = IsSpace(i)
      /\ Len(format)' = Len(format)
  BY <1>1, FormatKept
<1>3. SUFFICES ASSUME words = <<>> PROVE Parsed'
  BY <1>1 DEF Parsed
<1>4. PICK k \in Int : c = k + 2
  BY <1>0
<1>5. pc = "scan" => /\ WordsTo(k) /\ curarg = <<Text[k + 1]>> /\ curarg[1] = Text[k + 1]
                     /\ touched <=> ~IsSpace(k + 1)
                     /\ k + 1 \in 0..Len(format)
  BY <1>0, <1>3, <1>4 DEF Parsed, Types
\* The scan goes on to the next token, or is over.
<1>6. ASSUME pc' = "scan", c' = c + 1, WordsTo(k + 1)', curarg' = <<Text[k + 2]>>,
             touched' <=> ~IsSpace(k + 2)
      PROVE  Parsed'
  <2>1. \A m \in Int : c' = m + 2 => m = k + 1 /\ m + 1 = k + 2
    BY <1>4, <1>6
  <2>. QED  BY <2>1, <1>2, <1>6 DEF Parsed
<1>7. ASSUME pc' = "alloc", k + 1 = Len(format), WordsTo(k + 1)'
      PROVE  Parsed'
  BY <1>2, <1>7 DEF Parsed
<1>8. ASSUME pc' \in {"err", "failed"}
      PROVE  Parsed'
  BY <1>8 DEF Parsed
\* At the end of the format as at a space, a word ends if there is one in hand.
<1>9. ASSUME pc = "scan", IsSpace(k + 2), ~touched, UNCHANGED argv
      PROVE  WordsTo(k + 1)'
  <2>1. k + 1 \notin Ends
    BY <1>5, <1>9 DEF Ends
  <2>2. WordsTo(k + 1)
    BY <2>1, <1>0, <1>5, <1>9, NoWord
  <2>. QED  BY <2>2, <1>1, <1>9, WordsToKept
<1>10. ASSUME pc = "scan", IsSpace(k + 2), touched, PutArgument
       PROVE  WordsTo(k + 1)'
  <2>1. k + 1 \in Ends
    <3>1. ~IsSpace(k + 1) /\ (k + 1) + 1 = k + 2
      BY <1>5, <1>10
    <3>2. k + 1 \in DOMAIN format
      BY <3>1, <1>0 DEF IsSpace
    <3>. QED  BY <3>1, <3>2, <1>10 DEF Ends
  <2>. QED  BY <2>1, <1>1, <1>5, <1>10, WordEnds
<1>11. CASE ScanSpace
  <2>1. pc = "scan" /\ c \in 1..Len(format) /\ IsSpace(c)
    BY <1>11, TokenType DEF ScanSpace, IsSpace, Token
  <2>2. IsSpace(k + 2) /\ k + 2 \in 0..Len(format)
    BY <2>1, <1>0, <1>4
  <2>3. <<Text[k + 2]>> = <<<<>>>>
    BY <2>2, <1>0, TextRecursion, Zenon
  <2>4. CASE ~touched
    <3>1. UNCHANGED <<argv, pc, curarg, touched>> /\ c' = c + 1
      BY <1>11, <2>4 DEF ScanSpace
    <3>2. WordsTo(k + 1)'
      BY <2>1, <2>2, <2>4, <3>1, <1>9
    <3>3. curarg' = <<Text[k + 2]>>
      <4>1. IsSpace(k + 1)
        BY <2>1, <2>4, <1>5
      <4>2. Text[k + 1] = <<>>
        BY <2>1, <4>1, <1>0, <1>5, TextRecursion, Zenon
      <4>. QED  BY <2>1, <2>3, <3>1, <4>2, <1>5, Zenon
    <3>. QED  BY <2>1, <2>2, <2>4, <3>1, <3>2, <3>3, <1>6
  <2>5. CASE touched
    <3>1. /\ PutArgument
          /\ \/ curarg' = <<<<>>>> /\ touched' = FALSE /\ c' = c + 1 /\ pc' = "scan"
             \/ pc' = "err"
      BY <1>11, <2>1, <2>5 DEF ScanSpace
    <3>2. WordsTo(k + 1)'
      BY <2>1, <2>2, <2>5, <3>1, <1>10
    <3>. QED  BY <2>2, <2>3, <3>1, <3>2, <1>6, <1>8
  <2>. QED  BY <2>4, <2>5
<1>12. CASE ScanText
  <2>1. pc = "scan" /\ c \in 1..Len(format) /\ format[c].kind # "space"
    BY <1>12, TokenType DEF ScanText, Token
  <2>2. ~IsSpace(k + 2) /\ k + 2 \in 0..Len(format) /\ (k + 2) - 1 = k + 1 /\ (k + 1) + 1 = k + 2
    BY <2>1, <1>0, <1>4 DEF IsSpace
  <2>3. Text[k + 2] = Text[k + 1] \o format[k + 2].value
    BY <2>2, <1>0, TextRecursion
  <2>4. k + 1 \notin Ends
    BY <2>2 DEF Ends
  <2>5. WordsTo(k + 1)
    BY <2>1, <2>4, <1>0, <1>5, NoWord
  <2>6. pc' = "scan" /\ c' = c + 1 /\ touched' = TRUE /\ UNCHANGED argv
        /\ curarg' = <<curarg[1] \o format[c].value>>
    BY <1>12, <2>1 DEF ScanText, Token
  <2>7. WordsTo(k + 1)'
    BY <2>5, <2>6, <1>1, WordsToKept
  <2>8. curarg' = <<Text[k + 2]>>
    BY <2>1, <2>3, <2>6, <1>4, <1>5
  <2>. QED  BY <2>2, <2>6, <2>7, <2>8, <1>6
<1>13. CASE ScanFails
  BY <1>8, <1>13 DEF ScanFails, NoMemory
<1>14. CASE ScanEnd
  <2>1. pc = "scan" /\ pc' = "alloc" /\ c = Len(format) + 1
    BY <1>0, <1>14 DEF ScanEnd, Types
  <2>2. IsSpace(k + 2) /\ k + 1 = Len(format)
    <3>1. PICK n \in Nat : n = Len(format)
      BY <1>0
    <3>2. k + 1 = n /\ k + 2 > n
      BY <2>1, <3>1, <1>4
    <3>. QED  BY <3>1, <3>2 DEF IsSpace
  <2>3. CASE ~touched
    BY <2>1, <2>2, <2>3, <1>7, <1>9, <1>14 DEF ScanEnd
  <2>4. CASE touched
    BY <2>1, <2>2, <2>4, <1>7, <1>10, <1>14 DEF ScanEnd
  <2>. QED  BY <2>3, <2>4
<1>15. CASE ScanEndFails
  BY <1>8, <1>15 DEF ScanEndFails, NoMemory
<1>16. ASSUME pc \in {"alloc", "copy", "done"}, pc' \in {"copy", "done"}, UNCHANGED argv
       PROVE  Parsed'
  <2>1. WordsTo(Len(format))
    <3>1. \A m \in Int : m = Len(format) => WordsTo(m)
      BY <1>3, <1>16 DEF Parsed
    <3>2. Len(format) \in Int
      BY <1>0
    <3>. QED  BY <3>1, <3>2, Zenon
  <2>2. \A m \in Int : m = Len(format) => WordsTo(m)'
    BY <2>1, <1>1, <1>16, WordsToKept
  <2>. QED  BY <2>2, <1>2, <1>16 DEF Parsed
<1>17. CASE Alloc
  BY <1>8, <1>16, <1>17 DEF Alloc
<1>18. CASE Copy
  BY <1>16, <1>18 DEF Copy
<1>19. CASE Return
  BY <1>16, <1>19 DEF Return
<1>22. CASE Count \/ CountEnd
  BY <1>3, <1>22 DEF Count, CountEnd, Types
<1>23. CASE Overrun
  BY <1>23 DEF Overrun, Parsed
<1>20. CASE Err
  BY <1>8, <1>20 DEF Err
<1>21. CASE UNCHANGED vars
  <2>1. UNCHANGED <<pc, c, curarg, touched, argv, words, format>>
    BY <1>21 DEF vars
  <2>2. \A m : WordsTo(m)' = WordsTo(m)
    BY <2>1, WordsToKept
  <2>. QED  BY <2>1, <2>2, <1>2, <1>3 DEF Parsed
<1>. QED  BY <1>11, <1>12, <1>13, <1>14, <1>15, <1>17, <1>18, <1>19, <1>20, <1>21, <1>22,
          <1>23 DEF Next

LEMMA InitFormatInv == Init => FormatInv
<1>1. SUFFICES ASSUME Init PROVE FormatInv
  OBVIOUS
<1>2. CASE words = <<>>
  <2>1. /\ pc = "scan" /\ curarg = <<<<>>>> /\ argv = <<>> /\ totlen = 0 /\ live = 1
        /\ c = 1 /\ touched = FALSE /\ cmd = <<>> /\ j = 0
    BY <1>1, <1>2 DEF Init
  <2>2. format \in Seq(Tokens)
    BY <1>1, <1>2, FormatAssumption DEF Init
  <2>3. <<>> \in Word /\ <<>> \in Seq(Word) /\ <<>> \in Seq(Chars) /\ Len(<<>>) = 0 /\ Len(<<<<>>>>) = 1
    BY DEF Word
  <2>4. Len(format) \in Nat
    BY <2>2, LenProperties
  <2>5. Types
    <3>1. j \in 0..Len(argv) /\ c <= Len(format) + 1 /\ c \in Nat \ {0}
      BY <2>1, <2>3, <2>4
    <3>2. curarg \in {<<w>> : w \in Word} /\ Len(curarg) = 1
      BY <2>1, <2>3
    <3>3. argv \in Seq(Word) /\ cmd \in Seq(Chars)
      BY <2>1, <2>3
    <3>4. totlen \in Int /\ live \in Int
      BY <2>1
    <3>5. touched \in BOOLEAN
      BY <2>1, Zenon
    <3>. QED  BY <1>2, <2>1, <2>2, <3>1, <3>2, <3>3, <3>4, <3>5 DEF Types
  <2>6. Sized
    <3>1. Laid(<<>>)[0] = 0
      BY <2>3, LaidRecursion
    <3>. QED  BY <2>1, <2>3, <3>1 DEF Sized, Exact
  <2>7. Owned
    BY <1>2, <2>1, <2>3 DEF Owned
  <2>8. Parsed
    <3>1. Words(-1) = 0 /\ \A i \in Ends : ~(i <= -1)
      <4>1. -1 \in Int /\ -1 < 1 /\ \A k \in Int : k < 1 => Words(k) = 0
        BY <2>2, CountWords
      <4>2. DOMAIN format = 1..Len(format)
        BY <2>2, LenProperties
      <4>3. \A i \in Ends : i \in 1..Len(format)
        BY <4>2 DEF Ends
      <4>. QED  BY <4>1, <4>3, <2>4
    <3>2. WordsTo(-1)
      BY <2>1, <2>3, <3>1 DEF WordsTo
    <3>3. IsSpace(0)
      BY DEF IsSpace
    <3>4. Text[0] = <<>>
      <4>1. 0 \in 0..Len(format)
        BY <2>4
      <4>. QED  BY <4>1, <3>3, <2>2, TextRecursion, Zenon
    <3>5. \A k \in Int : c = k + 2 => k = -1 /\ k + 1 = 0
      BY <2>1
    <3>. QED  BY <2>1, <3>2, <3>3, <3>4, <3>5 DEF Parsed
  <2>. QED  BY <2>5, <2>6, <2>7, <2>8 DEF FormatInv
<1>3. CASE words # <<>>
  <2>1. PICK a \in Arguments : words = <<a>>
    BY <1>1, <1>3 DEF Init
  <2>2. /\ format = <<>> /\ pc = "count" /\ curarg = <<>> /\ argv = a /\ live = 0
        /\ totlen = ToInt(1 + intlen(Len(argv)) + 2)
        /\ c = 1 /\ touched = FALSE /\ cmd = <<>> /\ j = 0
    BY <1>1, <1>3, <2>1 DEF Init
  <2>3. a \in Seq(Word)
    BY FormatAssumption DEF Word
  <2>4. Len(a) \in Nat /\ Len(a) \in 0..Len(a)
    BY <2>3, LenProperties
  <2>5. totlen \in Int
    <3>1. 1 + intlen(Len(a)) + 2 \in Int
      BY <2>4, IntlenIsDigits
    <3>. QED  BY <2>2, <3>1, IntOfInt
  <2>6. <<>> \in Seq(Tokens) /\ <<>> \in Seq(Chars)
    OBVIOUS
  <2>7. Types
    <3>1. j \in 0..Len(argv) /\ totlen \in Int /\ live \in Int /\ c \in Nat \ {0}
      BY <2>2, <2>4, <2>5
    <3>4. touched \in BOOLEAN
      BY <2>2, Zenon
    <3>3. argv \in Seq(Word) /\ cmd \in Seq(Chars) /\ format \in Seq(Tokens)
      BY <2>2, <2>3, <2>6
    <3>2. words \in {<<>>} \cup {<<w>> : w \in Seq(Word)}
      BY <2>1, <2>3
    <3>5. pc = "count" /\ j = 0 /\ words # <<>>
      BY <1>3, <2>2
    <3>6. curarg \in {<<>>} \cup {<<w>> : w \in Word}
      BY <2>2
    <3>7. /\ pc \in {"scan", "count", "alloc", "copy", "done", "overrun", "err", "failed"}
          /\ pc = "scan" => words = <<>> /\ Len(curarg) = 1 /\ c <= Len(format) + 1
          /\ pc = "count" => words # <<>>
          /\ pc \in {"scan", "alloc"} => j = 0
      BY <3>5, Zenon
    <3>. QED  BY <3>1, <3>2, <3>3, <3>4, <3>6, <3>7, Zenon DEF Types
  <2>8. Sized
    <3>1. ASSUME CommandLen <= IntMax PROVE totlen = Header + Laid(argv)[j]
      <4>1. PICK h \in Nat : h = Header /\ 1 + intlen(Len(argv)) + 2 = h /\ h <= IntMax
        BY <2>7, <3>1, HeaderRight, Lengths
      <4>2. h \in 0..IntMax /\ totlen = ToInt(h)
        BY <2>2, <4>1, IntAssumption
      <4>3. Laid(argv)[j] = 0
        BY <2>2, <2>3, LaidRecursion
      <4>. QED  BY <4>1, <4>2, <4>3, IntOfInt
    <3>. QED  BY <1>3, <2>2, <3>1 DEF Sized
  <2>9. Owned /\ Parsed
    BY <1>3, <2>2 DEF Owned, Parsed
  <2>. QED  BY <2>7, <2>8, <2>9 DEF FormatInv
<1>. QED  BY <1>2, <1>3

THEOREM FormatInvariant == Spec => []FormatInv
<1>1. FormatInv /\ [Next]_vars => FormatInv'
  BY TypesKept, SizedKept, OwnedKept, ParsedKept DEF FormatInv
<1>. QED  BY InitFormatInv, <1>1, PTL DEF Spec

(***************************************************************************)
(* What it gives.                                                          *)
(***************************************************************************)

\* The buffer has room for what is copied, and is filled to its last byte, for
\* lengths of any number of digits, as long as the whole command is no longer than
\* an int counts (lines 667-684 and 877-890, 945-966).
THEOREM FormatFitsBuffer == Spec => []FitsBuffer
<1>1. ASSUME FormatInv PROVE FitsBuffer
  <2>1. SUFFICES ASSUME pc \in {"copy", "done", "overrun"}, CommandLen <= IntMax
                 PROVE  Len(cmd) <= totlen /\ (j = Len(argv) => Len(cmd) = totlen)
    BY DEF FitsBuffer
  <2>2. Types /\ Sized
    BY <1>1 DEF FormatInv
  <2>3. argv \in Seq(Word) /\ j \in 0..Len(argv)
    BY <2>2 DEF Types
  <2>4. PICK h \in Nat : h = Header
    BY <2>2, Lengths
  <2>5. PICK l \in Nat, m \in Nat : l = Laid(argv)[j] /\ m = Laid(argv)[Len(argv)] /\ l <= m
    BY <2>3, LaidMonotone
  <2>6. totlen = h + m
    BY <2>1, <2>2, <2>4, <2>5, HeaderRight DEF Sized, Exact
  <2>7. Len(cmd) = h + l
    BY <2>1, <2>2, <2>4, <2>5 DEF Sized
  <2>8. j = Len(argv) => l = m
    BY <2>5
  <2>. QED  BY <2>5, <2>6, <2>7, <2>8
<1>. QED  BY FormatInvariant, <1>1, PTL

\* No string outlives the call, whatever fails (lines 871-908).
THEOREM FormatAllFreed == Spec => []AllFreed
<1>1. ASSUME FormatInv PROVE AllFreed
  <2>1. pc = "done" => Len(argv) - j = 0
    <3>1. Len(argv) \in Nat
      BY <1>1, Lengths DEF FormatInv
    <3>. QED  BY <1>1, <3>1 DEF FormatInv, Sized
  <2>. QED  BY <1>1, <2>1 DEF FormatInv, Owned, AllFreed
<1>. QED  BY FormatInvariant, <1>1, PTL

\* The arguments are the words of the format (lines 706-869).
THEOREM FormatWords == Spec => []WordsOfFormat
<1>1. ASSUME FormatInv PROVE WordsOfFormat
  <2>1. SUFFICES ASSUME pc = "done", words = <<>>
                 PROVE  Len(argv) = Cardinality(Ends) /\ \A i \in Ends : argv[Words(i)] = Text[i]
    BY DEF WordsOfFormat
  <2>2. format \in Seq(Tokens)
    BY <1>1 DEF FormatInv, Types
  <2>3. PICK n \in Nat : n = Len(format)
    BY <2>2, LenProperties
  <2>4. WordsTo(n)
    BY <1>1, <2>1, <2>3 DEF FormatInv, Parsed
  <2>5. Words(n) = Cardinality(Ends)
    BY <2>2, <2>3, CountWords
  <2>6. \A i \in Ends : i <= n
    BY <2>2, <2>3, LenProperties DEF Ends
  <2>. QED  BY <2>4, <2>5, <2>6 DEF WordsTo
<1>. QED  BY FormatInvariant, <1>1, PTL
=============================================================================
