-------------------------- MODULE RedisAsync_proofs --------------------------
(***************************************************************************)
(* The asynchronous API of hiredis is proved right for every set of        *)
(* argument lists, every hash function and every bound.                    *)
(***************************************************************************)
EXTENDS RedisAsync, FiniteSetTheorems, SequenceTheorems, WellFoundedInduction, TLAPS

(***************************************************************************)
(* Induction, and sequences of steps.                                      *)
(***************************************************************************)

\* A nonempty set of natural numbers has a least element.
LEMMA LeastNatural ==
    ASSUME NEW T \in SUBSET Nat, T # {}
    PROVE  \E x \in T : \A y \in T : x <= y
<1>1. PICK R : R = {p \in Nat \X Nat : p[1] < p[2]}
  OBVIOUS
<1>2. IsWellFoundedOn(R, Nat)
  BY <1>1, NatLessThanWellFounded DEF OpToRel
<1>3. PICK x \in T : \A y \in T : ~(<<y, x>> \in R)
  BY <1>2, WFMin
<1>4. \A y \in T : ~(y < x)
  BY <1>1, <1>3
<1>. QED  BY <1>4

\* A set that has 0, and with a number the next one, has all.
LEMMA Steps ==
    ASSUME NEW T, 0 \in T, \A n \in Nat : n \in T => n + 1 \in T
    PROVE  Nat \subseteq T
<1>. DEFINE U == Nat \ T
<1>1. CASE U # {}
  <2>1. PICK x \in U : \A y \in U : x <= y
    BY <1>1, LeastNatural
  <2>2. x # 0 /\ x - 1 \in Nat /\ (x - 1) + 1 = x
    BY <2>1
  <2>3. x - 1 \in T
    BY <2>1, <2>2
  <2>. QED  BY <2>1, <2>2, <2>3
<1>. QED  BY <1>1

\* Steps that keep to a set can be taken one after the other.
Walk(S, a, step, n) ==
    \E g \in [0..n -> S] : g[0] = a /\ \A i \in 1..n : g[i] = step[i][g[i - 1]]

LEMMA StepByStep ==
    ASSUME NEW S, NEW a \in S, NEW n \in Nat, NEW step \in [1..n -> [S -> S]]
    PROVE  Walk(S, a, step, n)
<1>. DEFINE Done(m) == \E g \in [0..m -> S] : g[0] = a /\ \A i \in 1..m : g[i] = step[i][g[i - 1]]
            T == {m \in Nat : m <= n => Done(m)}
<1>1. Done(0)
  <2>1. [i \in 0..0 |-> a] \in [0..0 -> S] /\ 0 \in 0..0 /\ 1..0 = {}
    OBVIOUS
  <2>. QED  BY <2>1
<1>2. ASSUME NEW m \in Nat, m + 1 <= n, Done(m)
      PROVE  Done(m + 1)
  <2>1. PICK g \in [0..m -> S] : g[0] = a /\ \A i \in 1..m : g[i] = step[i][g[i - 1]]
    BY <1>2
  <2>. DEFINE h == [i \in 0..(m + 1) |-> IF i = m + 1 THEN step[m + 1][g[m]] ELSE g[i]]
  <2>2. m \in 0..m /\ m + 1 \in 1..n /\ m + 1 \in 0..(m + 1) /\ 0 \in 0..m
    BY <1>2
  <2>3. g[m] \in S /\ step[m + 1] \in [S -> S]
    BY <2>1, <2>2
  <2>4. step[m + 1][g[m]] \in S
    BY <2>3
  <2>5. h[m + 1] = step[m + 1][g[m]] /\ \A i \in 0..m : h[i] = g[i] /\ g[i] \in S
    BY <2>1, <2>2
  <2>6. h \in [0..(m + 1) -> S]
    BY <2>4, <2>1
  <2>7. ASSUME NEW i \in 1..(m + 1)
        PROVE  h[i] = step[i][h[i - 1]]
    <3>. HIDE DEF h
    <3>1. CASE i = m + 1
      BY <3>1, <2>2, <2>5
    <3>2. CASE i # m + 1
      <4>1. i \in 1..m /\ i \in 0..m /\ i - 1 \in 0..m
        BY <3>2
      <4>. QED  BY <4>1, <2>1, <2>5
    <3>. QED  BY <3>1, <3>2
  <2>8. h[0] = a
    BY <2>1, <2>2, <2>5
  <2>. HIDE DEF h
  <2>. QED  BY <2>6, <2>7, <2>8
<1>3. Nat \subseteq T
  <2>. HIDE DEF Done
  <2>1. \A m \in Nat : m \in T => m + 1 \in T
    BY <1>2
  <2>2. 0 \in T
    BY <1>1
  <2>. HIDE DEF T
  <2>. QED  BY <2>1, <2>2, Steps
<1>. QED  BY <1>3 DEF Walk

(***************************************************************************)
(* Dictionaries: their types, and a change of one chain.                   *)
(***************************************************************************)
Entry == [key : Keys, val : Nat \ {0}]
DictsOf(n) == [size : {n}, used : Nat, table : [0 .. n - 1 -> Seq(Entry)]]
IsDict(d) == d.size \in Nat /\ d \in DictsOf(d.size)

\* Every entry is in its bucket, and no key is in twice.
Placed(d) ==
    \A b \in 0 .. d.size - 1 : \A i \in DOMAIN d.table[b] :
        /\ Bucket(d, d.table[b][i].key) = b
        /\ \A j \in DOMAIN d.table[b] : d.table[b][i].key = d.table[b][j].key => i = j
Holds(d, key, val) ==
    \E i \in DOMAIN Chain(d, key) : Chain(d, key)[i] = [key |-> key, val |-> val]
WithChain(d, b, chain, used) ==
    [size |-> d.size, used |-> used, table |-> [d.table EXCEPT ![b] = chain]]

LEMMA DictParts ==
    ASSUME NEW d, IsDict(d)
    PROVE  /\ d = [size |-> d.size, used |-> d.used, table |-> d.table]
           /\ d.size \in Nat /\ d.used \in Nat /\ d.table \in [0 .. d.size - 1 -> Seq(Entry)]
  BY DEF IsDict, DictsOf

LEMMA DictMade ==
    ASSUME NEW n \in Nat, NEW u \in Nat, NEW t \in [0 .. n - 1 -> Seq(Entry)]
    PROVE  IsDict([size |-> n, used |-> u, table |-> t])
  BY DEF IsDict, DictsOf

LEMMA BucketInTable ==
    ASSUME NEW d, IsDict(d), d.size # 0, NEW key \in Keys
    PROVE  Bucket(d, key) \in 0 .. d.size - 1
<1>1. Hash[key] \in Nat /\ d.size \in Nat \ {0}
  BY DictParts, DictAssumption
<1>2. \A a \in Nat, n \in Nat \ {0} : a % n \in 0 .. n - 1
  OBVIOUS
<1>. QED  BY <1>1, <1>2 DEF Bucket

LEMMA ChainIsSeq ==
    ASSUME NEW d, IsDict(d), NEW key \in Keys
    PROVE  Chain(d, key) \in Seq(Entry)
<1>1. CASE d.size = 0
  BY <1>1, EmptySeq DEF Chain
<1>2. CASE d.size # 0
  BY <1>2, BucketInTable, DictParts DEF Chain
<1>. QED  BY <1>1, <1>2

LEMMA ChainChanged ==
    ASSUME NEW d, IsDict(d), NEW b \in 0 .. d.size - 1, NEW chain \in Seq(Entry), NEW u \in Nat
    PROVE  LET e == WithChain(d, b, chain, u)
           IN  /\ IsDict(e) /\ e.size = d.size /\ e.used = u
               /\ \A key \in Keys : /\ Bucket(e, key) = Bucket(d, key)
                                    /\ Chain(e, key) = IF Bucket(d, key) = b THEN chain
                                                       ELSE Chain(d, key)
               /\ \A x \in 0 .. d.size - 1 : e.table[x] = IF x = b THEN chain ELSE d.table[x]
<1>. DEFINE e == WithChain(d, b, chain, u)
            t == [d.table EXCEPT ![b] = chain]
<1>1. /\ d.size \in Nat /\ d.table \in [0 .. d.size - 1 -> Seq(Entry)]
      /\ t \in [0 .. d.size - 1 -> Seq(Entry)] /\ d.size # 0
      /\ \A x \in 0 .. d.size - 1 : t[x] = IF x = b THEN chain ELSE d.table[x]
  BY DictParts
<1>2. e = [size |-> d.size, used |-> u, table |-> t]
  BY DEF WithChain
<1>. HIDE DEF e, t
<1>3. IsDict(e) /\ e.size = d.size /\ e.used = u /\ e.table = t
  BY <1>1, <1>2, DictMade
<1>4. ASSUME NEW key \in Keys
      PROVE  /\ Bucket(e, key) = Bucket(d, key)
             /\ Chain(e, key) = IF Bucket(d, key) = b THEN chain ELSE Chain(d, key)
  <2>1. Bucket(e, key) = Bucket(d, key)
    BY <1>3 DEF Bucket
  <2>2. Bucket(d, key) \in 0 .. d.size - 1
    BY <1>1, BucketInTable
  <2>. QED  BY <1>1, <1>3, <2>1, <2>2 DEF Chain
<1>5. \A x \in 0 .. d.size - 1 : e.table[x] = IF x = b THEN chain ELSE d.table[x]
  BY <1>1, <1>3
<1>. QED  BY <1>3, <1>4, <1>5 DEF e

(***************************************************************************)
(* What a dictionary holds, and finds.                                     *)
(***************************************************************************)
LEMMA ChainPlaced ==
    ASSUME NEW d, IsDict(d), Placed(d), NEW key \in Keys
    PROVE  /\ DOMAIN Chain(d, key) = 1 .. Len(Chain(d, key)) /\ Len(Chain(d, key)) \in Nat
           /\ \A i \in DOMAIN Chain(d, key) :
               /\ Chain(d, key)[i] \in Entry
               /\ Bucket(d, Chain(d, key)[i].key) = Bucket(d, key)
               /\ \A j \in DOMAIN Chain(d, key) :
                   Chain(d, key)[i].key = Chain(d, key)[j].key => i = j
<1>1. Chain(d, key) \in Seq(Entry)
  BY ChainIsSeq
<1>2. /\ DOMAIN Chain(d, key) = 1 .. Len(Chain(d, key)) /\ Len(Chain(d, key)) \in Nat
      /\ \A i \in DOMAIN Chain(d, key) : Chain(d, key)[i] \in Entry
  BY <1>1, LenProperties, ElementOfSeq
<1>3. CASE d.size = 0
  <2>1. Chain(d, key) = <<>>
    BY <1>3 DEF Chain
  <2>2. DOMAIN Chain(d, key) = {}
    BY <2>1
  <2>. QED  BY <1>2, <2>2
<1>4. CASE d.size # 0
  <2>1. Bucket(d, key) \in 0 .. d.size - 1 /\ Chain(d, key) = d.table[Bucket(d, key)]
    BY <1>4, BucketInTable DEF Chain
  <2>. QED  BY <1>2, <2>1 DEF Placed
<1>. QED  BY <1>3, <1>4

LEMMA FoundAt ==
    ASSUME NEW d, IsDict(d), Placed(d), NEW key \in Keys,
           NEW i \in DOMAIN Chain(d, key), Chain(d, key)[i].key = key
    PROVE  Has(d, key) /\ At(d, key) = i /\ dictFind(d, key) = Chain(d, key)[i].val
<1>1. \A j \in DOMAIN Chain(d, key) : Chain(d, key)[j].key = key => j = i
  BY ChainPlaced
<1>2. \A j \in 1 .. i - 1 : j \in DOMAIN Chain(d, key) /\ j # i
  BY ChainPlaced
<1>3. \A j \in 1 .. i - 1 : Chain(d, key)[j].key # key
  BY <1>1, <1>2
<1>4. At(d, key) = i
  BY <1>1, <1>3 DEF At
<1>5. Has(d, key)
  BY DEF Has
<1>. QED  BY <1>4, <1>5 DEF dictFind

LEMMA FindHeld ==
    ASSUME NEW d, IsDict(d), Placed(d), NEW key \in Keys
    PROVE  /\ \A val : Holds(d, key, val) => Has(d, key) /\ dictFind(d, key) = val
           /\ Has(d, key) => /\ At(d, key) \in 1 .. Len(Chain(d, key))
                             /\ Chain(d, key)[At(d, key)].key = key
                             /\ dictFind(d, key) \in Nat \ {0}
                             /\ Holds(d, key, dictFind(d, key))
           /\ ~Has(d, key) => dictFind(d, key) = 0
<1>1. ASSUME NEW val, Holds(d, key, val)
      PROVE  Has(d, key) /\ dictFind(d, key) = val
  <2>1. PICK i \in DOMAIN Chain(d, key) : Chain(d, key)[i] = [key |-> key, val |-> val]
    BY <1>1 DEF Holds
  <2>2. Chain(d, key)[i].key = key /\ Chain(d, key)[i].val = val
    BY <2>1
  <2>. QED  BY <2>2, FoundAt
<1>2. ASSUME Has(d, key)
      PROVE  /\ At(d, key) \in 1 .. Len(Chain(d, key))
             /\ Chain(d, key)[At(d, key)].key = key
             /\ dictFind(d, key) \in Nat \ {0}
             /\ Holds(d, key, dictFind(d, key))
  <2>1. PICK i \in DOMAIN Chain(d, key) : Chain(d, key)[i].key = key
    BY <1>2 DEF Has
  <2>2. At(d, key) = i /\ dictFind(d, key) = Chain(d, key)[i].val
    BY <2>1, FoundAt
  <2>3. i \in 1 .. Len(Chain(d, key)) /\ Chain(d, key)[i] \in Entry
    BY ChainPlaced
  <2>4. /\ Chain(d, key)[i].val \in Nat \ {0}
        /\ Chain(d, key)[i] = [key |-> Chain(d, key)[i].key, val |-> Chain(d, key)[i].val]
    BY <2>3 DEF Entry
  <2>. QED  BY <2>1, <2>2, <2>3, <2>4 DEF Holds
<1>3. ~Has(d, key) => dictFind(d, key) = 0
  BY DEF dictFind
<1>. QED  BY <1>1, <1>2, <1>3

\* Dictionaries that hold the same find the same, and hold the same keys.
LEMMA HoldSame ==
    ASSUME NEW d, IsDict(d), Placed(d), NEW e, IsDict(e), Placed(e),
           \A key \in Keys : \A val : Holds(e, key, val) <=> Holds(d, key, val)
    PROVE  /\ Held(e) = Held(d)
           /\ \A key \in Keys : (Has(e, key) <=> Has(d, key)) /\ dictFind(e, key) = dictFind(d, key)
<1>1. ASSUME NEW key \in Keys
      PROVE  (Has(e, key) <=> Has(d, key)) /\ dictFind(e, key) = dictFind(d, key)
  <2>1. CASE Has(d, key)
    BY <2>1, FindHeld
  <2>2. CASE ~Has(d, key)
    BY <2>2, FindHeld
  <2>. QED  BY <2>1, <2>2
<1>. QED  BY <1>1 DEF Held

\* An entry that is linked to the head of its chain.
LEMMA LinkedAt ==
    ASSUME NEW d, IsDict(d), d.size # 0, NEW entry \in Entry
    PROVE  LET b == Bucket(d, entry.key)
           IN  /\ b \in 0 .. d.size - 1
               /\ Linked(d, entry) = WithChain(d, b, <<entry>> \o d.table[b], d.used)
               /\ <<entry>> \o d.table[b] \in Seq(Entry)
               /\ Len(<<entry>> \o d.table[b]) = 1 + Len(d.table[b])
               /\ (<<entry>> \o d.table[b])[1] = entry
               /\ \A i \in 2 .. 1 + Len(d.table[b]) :
                     i - 1 \in DOMAIN d.table[b] /\ (<<entry>> \o d.table[b])[i] = d.table[b][i - 1]
<1>. DEFINE b == Bucket(d, entry.key)
<1>1. b \in 0 .. d.size - 1
  BY BucketInTable DEF Entry
<1>2. Linked(d, entry) = WithChain(d, b, <<entry>> \o d.table[b], d.used)
  <2>. DEFINE t == [d.table EXCEPT ![b] = <<entry>> \o d.table[b]]
  <2>1. /\ d = [size |-> d.size, used |-> d.used, table |-> d.table]
        /\ DOMAIN d.table = 0 .. d.size - 1
    BY DictParts
  <2>2. Linked(d, entry) = [d EXCEPT !.table = t]
    BY <1>1, <2>1 DEF Linked
  <2>. HIDE DEF t
  <2>3. [d EXCEPT !.table = t] = [size |-> d.size, used |-> d.used, table |-> t]
    BY <2>1
  <2>. QED  BY <2>2, <2>3 DEF WithChain, t
<1>3. d.table[b] \in Seq(Entry) /\ <<entry>> \in Seq(Entry)
  BY <1>1, DictParts
<1>. HIDE DEF b
<1>4. <<entry>> \o d.table[b] \in Seq(Entry)
  BY <1>3, ConcatProperties
<1>5. /\ Len(<<entry>> \o d.table[b]) = 1 + Len(d.table[b])
      /\ \A i \in 1 .. 1 + Len(d.table[b]) :
            (<<entry>> \o d.table[b])[i] = IF i <= 1 THEN <<entry>>[i] ELSE d.table[b][i - 1]
  BY <1>3, ConcatProperties
<1>6. DOMAIN d.table[b] = 1 .. Len(d.table[b]) /\ Len(d.table[b]) \in Nat
  BY <1>3, LenProperties
<1>7. \A i \in 2 .. 1 + Len(d.table[b]) :
          i - 1 \in DOMAIN d.table[b] /\ (<<entry>> \o d.table[b])[i] = d.table[b][i - 1]
  BY <1>5, <1>6
<1>8. (<<entry>> \o d.table[b])[1] = entry
  BY <1>5, <1>6
<1>. QED  BY <1>1, <1>2, <1>4, <1>5, <1>7, <1>8 DEF b

LEMMA LinkedType ==
    ASSUME NEW d, IsDict(d), d.size # 0, NEW entry \in Entry
    PROVE  IsDict(Linked(d, entry)) /\ Linked(d, entry).size = d.size
<1>1. PICK b \in 0 .. d.size - 1, chain \in Seq(Entry) : Linked(d, entry) = WithChain(d, b, chain, d.used)
  BY LinkedAt
<1>2. d.used \in Nat
  BY DictParts
<1>3. PICK e : e = Linked(d, entry)
  OBVIOUS
<1>4. IsDict(e) /\ e.size = d.size
  BY <1>1, <1>2, <1>3, ChainChanged
<1>. QED  BY <1>3, <1>4

LEMMA LinkedHolds ==
    ASSUME NEW d, IsDict(d), d.size # 0, Placed(d),
           NEW entry \in Entry, ~Has(d, entry.key)
    PROVE  LET e == Linked(d, entry)
           IN  /\ IsDict(e) /\ e.size = d.size /\ e.used = d.used /\ Placed(e)
               /\ \A key \in Keys : \A val :
                     Holds(e, key, val) <=> Holds(d, key, val) \/ entry = [key |-> key, val |-> val]
<1>. DEFINE b == Bucket(d, entry.key)
            chain == <<entry>> \o d.table[b]
            e == Linked(d, entry)
<1>1. /\ b \in 0 .. d.size - 1 /\ e = WithChain(d, b, chain, d.used) /\ chain \in Seq(Entry)
      /\ Len(chain) = 1 + Len(d.table[b]) /\ chain[1] = entry
      /\ \A i \in 2 .. 1 + Len(d.table[b]) : i - 1 \in DOMAIN d.table[b] /\ chain[i] = d.table[b][i - 1]
  BY LinkedAt
<1>2. d.used \in Nat /\ d.table[b] \in Seq(Entry)
  BY <1>1, DictParts
<1>3. entry.key \in Keys /\ entry.val \in Nat \ {0} /\ entry = [key |-> entry.key, val |-> entry.val]
  BY DEF Entry
<1>4. /\ Chain(d, entry.key) = d.table[b]
      /\ \A i \in DOMAIN d.table[b] : d.table[b][i].key # entry.key
  BY DEF Chain, Has
<1>5. /\ DOMAIN chain = 1 .. 1 + Len(d.table[b]) /\ Len(d.table[b]) \in Nat
      /\ DOMAIN d.table[b] = 1 .. Len(d.table[b])
  BY <1>1, <1>2, LenProperties
<1>. HIDE DEF b, chain, e
<1>6. /\ IsDict(e) /\ e.size = d.size /\ e.used = d.used
      /\ \A key \in Keys : /\ Bucket(e, key) = Bucket(d, key)
                           /\ Chain(e, key) = IF Bucket(d, key) = b THEN chain ELSE Chain(d, key)
      /\ \A x \in 0 .. d.size - 1 : e.table[x] = IF x = b THEN chain ELSE d.table[x]
  BY <1>1, <1>2, ChainChanged
<1>7. \A i \in DOMAIN chain :
        i = 1 \/ (i # 1 /\ i - 1 \in DOMAIN d.table[b] /\ chain[i] = d.table[b][i - 1])
  BY <1>1, <1>5
<1>8. Placed(e)
  <2>1. SUFFICES ASSUME NEW x \in 0 .. d.size - 1, NEW i \in DOMAIN e.table[x]
                 PROVE  /\ Bucket(e, e.table[x][i].key) = x
                        /\ \A j \in DOMAIN e.table[x] : e.table[x][i].key = e.table[x][j].key => i = j
    BY <1>6 DEF Placed
  <2>2. CASE x # b
    <3>1. e.table[x] = d.table[x] /\ d.table[x] \in Seq(Entry)
      BY <2>2, <1>6, DictParts
    <3>2. d.table[x][i].key \in Keys
      <4>1. i \in 1 .. Len(d.table[x])
        BY <3>1, <2>1, LenProperties
      <4>2. d.table[x][i] \in Entry
        BY <3>1, <4>1, ElementOfSeq
      <4>. QED  BY <4>2 DEF Entry
    <3>. QED  BY <3>1, <3>2, <1>6, <2>1 DEF Placed
  <2>3. CASE x = b
    <3>1. e.table[x] = chain /\ chain[i] \in Entry
      BY <2>3, <1>6, <1>1, ElementOfSeq, LenProperties
    <3>2. chain[i].key \in Keys
      BY <3>1 DEF Entry
    <3>3. Bucket(d, chain[i].key) = b
      <4>1. i \in DOMAIN chain
        BY <3>1
      <4>2. CASE i = 1
        BY <4>2, <1>1 DEF b
      <4>3. CASE i # 1
        <5>1. i - 1 \in DOMAIN d.table[b] /\ chain[i] = d.table[b][i - 1]
          BY <4>1, <4>3, <1>7
        <5>. QED  BY <5>1, <1>1 DEF Placed
      <4>. QED  BY <4>2, <4>3
    <3>4. \A j \in DOMAIN chain : chain[i].key = chain[j].key => i = j
      <4>1. TAKE j \in DOMAIN chain
      <4>2. HAVE chain[i].key = chain[j].key
      <4>3. CASE i = 1 \/ j = 1
        <5>1. \A k \in DOMAIN chain : k # 1 => chain[k].key # entry.key
          BY <1>4, <1>7
        <5>2. i \in DOMAIN chain /\ chain[1].key = entry.key
          BY <3>1, <1>1
        <5>. QED  BY <4>2, <4>3, <5>1, <5>2
      <4>4. CASE i # 1 /\ j # 1
        <5>1. /\ i - 1 \in DOMAIN d.table[b] /\ chain[i] = d.table[b][i - 1]
              /\ j - 1 \in DOMAIN d.table[b] /\ chain[j] = d.table[b][j - 1]
          BY <4>4, <1>7, <3>1
        <5>2. i - 1 = j - 1
          BY <5>1, <4>2, <1>1 DEF Placed
        <5>. QED  BY <5>2, <1>5, <3>1
      <4>. QED  BY <4>3, <4>4
    <3>. QED  BY <2>3, <3>1, <3>2, <3>3, <3>4, <1>6
  <2>. QED  BY <2>2, <2>3
<1>9. ASSUME NEW key \in Keys, NEW val
      PROVE  Holds(e, key, val) <=> Holds(d, key, val) \/ entry = [key |-> key, val |-> val]
  <2>1. CASE Bucket(d, key) # b
    <3>1. Chain(e, key) = Chain(d, key)
      BY <2>1, <1>6
    <3>2. entry # [key |-> key, val |-> val]
      BY <2>1, <1>3 DEF b
    <3>. QED  BY <3>1, <3>2 DEF Holds
  <2>2. CASE Bucket(d, key) = b
    <3>1. Chain(e, key) = chain /\ Chain(d, key) = d.table[b]
      BY <2>2, <1>6 DEF Chain
    <3>2. \A i \in DOMAIN d.table[b] : i + 1 \in DOMAIN chain /\ chain[i + 1] = d.table[b][i]
      <4>1. TAKE i \in DOMAIN d.table[b]
      <4>2. i + 1 \in 2 .. 1 + Len(d.table[b]) /\ (i + 1) - 1 = i
        BY <1>5
      <4>. QED  BY <4>2, <1>1, <1>5
    <3>3. 1 \in DOMAIN chain
      BY <1>5
    <3>4. ASSUME Holds(e, key, val)
          PROVE  Holds(d, key, val) \/ entry = [key |-> key, val |-> val]
      <4>1. PICK i \in DOMAIN chain : chain[i] = [key |-> key, val |-> val]
        BY <3>4, <3>1 DEF Holds
      <4>. QED  BY <4>1, <3>1, <1>7, <1>1 DEF Holds
    <3>5. ASSUME Holds(d, key, val) \/ entry = [key |-> key, val |-> val]
          PROVE  Holds(e, key, val)
      BY <3>5, <3>1, <3>2, <3>3, <1>1 DEF Holds
    <3>. QED  BY <3>4, <3>5
  <2>. QED  BY <2>1, <2>2
<1>. QED  BY <1>6, <1>8, <1>9 DEF e

(***************************************************************************)
(* The entries in the order of the table, and their move to another one.   *)
(***************************************************************************)
Among(x, list) == \E i \in 1 .. Len(list) : list[i] = x
Distinct(list) == \A i, j \in 1 .. Len(list) : list[i].key = list[j].key => i = j
PassedFrom(d) ==
    CHOOSE f : f = [b \in 0..d.size |-> IF b = 0 THEN <<>> ELSE f[b - 1] \o d.table[b - 1]]

LEMMA PassedRecursion ==
    ASSUME NEW d, IsDict(d)
    PROVE  /\ PassedFrom(d)[0] = <<>>
           /\ \A b \in 1 .. d.size : PassedFrom(d)[b] = PassedFrom(d)[b - 1] \o d.table[b - 1]
           /\ Entries(d) = PassedFrom(d)[d.size]
<1>. DEFINE step == [b \in 1 .. d.size |-> [s \in Seq(Entry) |-> s \o d.table[b - 1]]]
            F(f) == [b \in 0..d.size |-> IF b = 0 THEN <<>> ELSE f[b - 1] \o d.table[b - 1]]
<1>0. PICK n \in Nat : n = d.size
  BY DictParts
<1>1. d.size \in Nat /\ \A b \in 1 .. d.size : d.table[b - 1] \in Seq(Entry)
  BY <1>0, DictParts
<1>2. \A b \in 1 .. d.size, s \in Seq(Entry) : s \o d.table[b - 1] \in Seq(Entry)
  BY <1>1, ConcatProperties
<1>3. step \in [1 .. d.size -> [Seq(Entry) -> Seq(Entry)]]
  BY <1>2
<1>4. \A b \in 1 .. d.size, s \in Seq(Entry) : step[b][s] = s \o d.table[b - 1]
  OBVIOUS
<1>5. PICK g \in [0..d.size -> Seq(Entry)] :
          g[0] = <<>> /\ \A b \in 1 .. d.size : g[b] = step[b][g[b - 1]]
  <2>1. <<>> \in Seq(Entry)
    BY EmptySeq
  <2>. HIDE DEF step
  <2>2. Walk(Seq(Entry), <<>>, step, d.size)
    BY <1>1, <1>3, <2>1, StepByStep
  <2>. QED  BY <2>2 DEF Walk
<1>6. \A b \in 1 .. d.size : g[b] = g[b - 1] \o d.table[b - 1]
  <2>1. \A b \in 1 .. d.size : b - 1 \in 0 .. d.size
    BY <1>1
  <2>. HIDE DEF step
  <2>. QED  BY <2>1, <1>4, <1>5
<1>7. g = F(g)
  <2>1. \A b \in 0 .. n : b = 0 \/ b \in 1 .. n
    OBVIOUS
  <2>2. \A b \in 0 .. d.size : g[b] = IF b = 0 THEN <<>> ELSE g[b - 1] \o d.table[b - 1]
    BY <2>1, <1>0, <1>5, <1>6
  <2>. QED  BY <2>2
<1>8. PassedFrom(d) = F(PassedFrom(d))
  BY <1>7 DEF PassedFrom
<1>9. \A b \in 0 .. d.size :
          PassedFrom(d)[b] = IF b = 0 THEN <<>> ELSE PassedFrom(d)[b - 1] \o d.table[b - 1]
  BY <1>8
<1>10. Entries(d) = PassedFrom(d)[d.size]
  BY DEF Entries, PassedFrom
<1>11. 0 \in 0 .. d.size /\ \A b \in 1 .. d.size : b \in 0 .. d.size /\ b # 0
  BY <1>0
<1>. QED  BY <1>9, <1>10, <1>11

LEMMA AmongConcat ==
    ASSUME NEW s \in Seq(Entry), NEW t \in Seq(Entry)
    PROVE  /\ \A x : Among(x, s \o t) <=> Among(x, s) \/ Among(x, t)
           /\ Distinct(s) /\ Distinct(t)
              /\ (\A i \in 1 .. Len(s), j \in 1 .. Len(t) : s[i].key # t[j].key)
                  => Distinct(s \o t)
<1>1. /\ Len(s \o t) = Len(s) + Len(t) /\ Len(s) \in Nat /\ Len(t) \in Nat
      /\ \A i \in 1 .. Len(s) + Len(t) :
             (s \o t)[i] = IF i <= Len(s) THEN s[i] ELSE t[i - Len(s)]
  BY ConcatProperties, LenProperties
<1>2. \A i \in 1 .. Len(s) : i \in 1 .. Len(s \o t) /\ (s \o t)[i] = s[i]
  BY <1>1
<1>3. \A j \in 1 .. Len(t) : Len(s) + j \in 1 .. Len(s \o t) /\ (s \o t)[Len(s) + j] = t[j]
  <2>1. TAKE j \in 1 .. Len(t)
  <2>2. Len(s) + j \in 1 .. Len(s) + Len(t) /\ ~(Len(s) + j <= Len(s)) /\ (Len(s) + j) - Len(s) = j
    BY <1>1
  <2>. QED  BY <1>1, <2>2
<1>4. \A i \in 1 .. Len(s \o t) :
          \/ i \in 1 .. Len(s) /\ (s \o t)[i] = s[i]
          \/ i - Len(s) \in 1 .. Len(t) /\ (s \o t)[i] = t[i - Len(s)]
  BY <1>1
<1>5. ASSUME NEW x
      PROVE  Among(x, s \o t) <=> Among(x, s) \/ Among(x, t)
  BY <1>2, <1>3, <1>4 DEF Among
<1>6. ASSUME Distinct(s), Distinct(t), \A i \in 1 .. Len(s), j \in 1 .. Len(t) : s[i].key # t[j].key
      PROVE  Distinct(s \o t)
  <2>1. SUFFICES ASSUME NEW i \in 1 .. Len(s \o t), NEW j \in 1 .. Len(s \o t),
                        (s \o t)[i].key = (s \o t)[j].key
                 PROVE  i = j
    BY DEF Distinct
  <2>2. CASE i \in 1 .. Len(s) /\ (s \o t)[i] = s[i]
    <3>1. j \in 1 .. Len(s) /\ (s \o t)[j] = s[j]
      BY <1>4, <1>6, <2>1, <2>2
    <3>. QED  BY <3>1, <1>6, <2>1, <2>2 DEF Distinct
  <2>3. CASE i - Len(s) \in 1 .. Len(t) /\ (s \o t)[i] = t[i - Len(s)]
    <3>1. j - Len(s) \in 1 .. Len(t) /\ (s \o t)[j] = t[j - Len(s)]
      BY <1>4, <1>6, <2>1, <2>3
    <3>2. i - Len(s) = j - Len(s)
      BY <3>1, <1>6, <2>1, <2>3 DEF Distinct
    <3>. QED  BY <3>2, <1>1
  <2>. QED  BY <1>4, <2>2, <2>3
<1>. QED  BY <1>5, <1>6

LEMMA EntriesOf ==
    ASSUME NEW d, IsDict(d), Placed(d)
    PROVE  /\ Entries(d) \in Seq(Entry) /\ Distinct(Entries(d))
           /\ \A key \in Keys : \A val :
                 Holds(d, key, val) <=> Among([key |-> key, val |-> val], Entries(d))
<1>. DEFINE p == PassedFrom(d)
            Good(b) == /\ p[b] \in Seq(Entry) /\ Distinct(p[b])
                       /\ \A x : Among(x, p[b]) <=> \E c \in 0 .. b - 1 : Among(x, d.table[c])
            T == {b \in Nat : b <= d.size => Good(b)}
<1>0. PICK n \in Nat : n = d.size
  BY DictParts
<1>1. /\ p[0] = <<>> /\ \A b \in 1 .. d.size : p[b] = p[b - 1] \o d.table[b - 1]
      /\ Entries(d) = p[d.size] /\ d.size \in Nat
      /\ \A b \in 0 .. d.size - 1 : d.table[b] \in Seq(Entry)
  BY PassedRecursion, DictParts
<1>2. \A b \in 0 .. d.size - 1 : /\ DOMAIN d.table[b] = 1 .. Len(d.table[b])
                                 /\ \A i \in 1 .. Len(d.table[b]) : d.table[b][i].key \in Keys
  <2>1. TAKE b \in 0 .. d.size - 1
  <2>2. \A i \in 1 .. Len(d.table[b]) : d.table[b][i] \in Entry
    BY <1>1, ElementOfSeq
  <2>. QED  BY <1>1, <2>2, LenProperties DEF Entry
<1>. HIDE DEF p
<1>3. Good(0)
  <2>1. p[0] \in Seq(Entry) /\ Len(p[0]) = 0
    BY <1>1, EmptySeq
  <2>2. 1 .. 0 = {} /\ 0 .. (0 - 1) = {}
    OBVIOUS
  <2>. QED  BY <2>1, <2>2 DEF Distinct, Among
<1>4. ASSUME NEW b \in Nat, b + 1 <= d.size, Good(b)
      PROVE  Good(b + 1)
  <2>1. /\ b \in 0 .. d.size - 1 /\ b + 1 \in 1 .. d.size /\ (b + 1) - 1 = b
        /\ 0 .. ((b + 1) - 1) = (0 .. (b - 1)) \union {b}
        /\ \A c \in 0 .. (b - 1) : c \in 0 .. d.size - 1 /\ c # b
    BY <1>0, <1>4
  <2>2. p[b + 1] = p[b] \o d.table[b] /\ d.table[b] \in Seq(Entry)
    BY <1>1, <2>1
  <2>3. Distinct(d.table[b])
    BY <1>2, <2>1 DEF Placed, Distinct
  <2>4. \A i \in 1 .. Len(p[b]), j \in 1 .. Len(d.table[b]) : p[b][i].key # d.table[b][j].key
    <3>1. SUFFICES ASSUME NEW i \in 1 .. Len(p[b]), NEW j \in 1 .. Len(d.table[b])
                   PROVE  p[b][i].key # d.table[b][j].key
      OBVIOUS
    <3>2. Among(p[b][i], p[b])
      BY DEF Among
    <3>3. PICK c \in 0 .. b - 1 : Among(p[b][i], d.table[c])
      BY <3>2, <1>4
    <3>4. PICK k \in 1 .. Len(d.table[c]) : d.table[c][k] = p[b][i]
      BY <3>3 DEF Among
    <3>5. c \in 0 .. d.size - 1 /\ c # b
      BY <2>1
    <3>6. k \in DOMAIN d.table[c] /\ j \in DOMAIN d.table[b]
      BY <1>2, <3>5, <2>1
    <3>7. Bucket(d, d.table[c][k].key) = c /\ Bucket(d, d.table[b][j].key) = b
      BY <3>5, <3>6, <2>1 DEF Placed
    <3>. QED  BY <3>4, <3>5, <3>7
  <2>5. PICK s \in Seq(Entry), t \in Seq(Entry) : s = p[b] /\ t = d.table[b]
    BY <1>4, <2>2
  <2>6. Distinct(s \o t) /\ \A x : Among(x, s \o t) <=> Among(x, s) \/ Among(x, t)
    BY <1>4, <2>3, <2>4, <2>5, AmongConcat
  <2>7. s \o t \in Seq(Entry)
    BY ConcatProperties
  <2>8. p[b + 1] = s \o t
    BY <2>2, <2>5
  <2>. QED  BY <1>4, <2>1, <2>5, <2>6, <2>7, <2>8
<1>5. Nat \subseteq T
  <2>. HIDE DEF Good
  <2>1. 0 \in T /\ \A b \in Nat : b \in T => b + 1 \in T
    BY <1>1, <1>3, <1>4
  <2>. HIDE DEF T
  <2>. QED  BY <2>1, Steps
<1>6. Good(d.size)
  <2>. HIDE DEF Good
  <2>. QED  BY <1>0, <1>5
<1>7. ASSUME NEW key \in Keys, NEW val
      PROVE  Holds(d, key, val) <=> Among([key |-> key, val |-> val], Entries(d))
  <2>. DEFINE x == [key |-> key, val |-> val]
  <2>1. Among(x, Entries(d)) <=> \E c \in 0 .. d.size - 1 : Among(x, d.table[c])
    BY <1>1, <1>6
  <2>2. ASSUME Holds(d, key, val)
        PROVE  \E c \in 0 .. d.size - 1 : Among(x, d.table[c])
    <3>1. PICK i \in DOMAIN Chain(d, key) : Chain(d, key)[i] = x
      BY <2>2 DEF Holds
    <3>2. d.size # 0
      BY <3>1 DEF Chain
    <3>3. Bucket(d, key) \in 0 .. d.size - 1 /\ Chain(d, key) = d.table[Bucket(d, key)]
      BY <3>2, BucketInTable DEF Chain
    <3>. QED  BY <3>1, <3>3, <1>2 DEF Among
  <2>3. ASSUME NEW c \in 0 .. d.size - 1, Among(x, d.table[c])
        PROVE  Holds(d, key, val)
    <3>1. PICK i \in 1 .. Len(d.table[c]) : d.table[c][i] = x
      BY <2>3 DEF Among
    <3>2. i \in DOMAIN d.table[c] /\ d.table[c][i].key = key
      BY <3>1, <1>2
    <3>3. Bucket(d, key) = c
      BY <3>2 DEF Placed
    <3>4. Chain(d, key) = d.table[c]
      BY <3>3, <1>1 DEF Chain
    <3>. QED  BY <3>1, <3>2, <3>4 DEF Holds
  <2>. QED  BY <2>1, <2>2, <2>3
<1>. QED  BY <1>1, <1>6, <1>7

MovedFrom(entries, new) ==
    CHOOSE f : f = [n \in 0..Len(entries) |-> IF n = 0 THEN new ELSE Linked(f[n - 1], entries[n])]

LEMMA MovedRecursion ==
    ASSUME NEW size \in Nat \ {0}, NEW new \in DictsOf(size), NEW entries \in Seq(Entry)
    PROVE  /\ MovedFrom(entries, new)[0] = new
           /\ \A n \in 1 .. Len(entries) :
                 MovedFrom(entries, new)[n] = Linked(MovedFrom(entries, new)[n - 1], entries[n])
           /\ Moved(entries, new) = MovedFrom(entries, new)[Len(entries)]
<1>. DEFINE step == [n \in 1 .. Len(entries) |-> [d \in DictsOf(size) |-> Linked(d, entries[n])]]
            F(f) == [n \in 0..Len(entries) |-> IF n = 0 THEN new ELSE Linked(f[n - 1], entries[n])]
<1>0. PICK l \in Nat : l = Len(entries)
  BY LenProperties
<1>1. \A n \in 1 .. l : entries[n] \in Entry
  BY <1>0, ElementOfSeq
<1>2. ASSUME NEW d \in DictsOf(size), NEW entry \in Entry
      PROVE  Linked(d, entry) \in DictsOf(size)
  <2>1. d.size = size /\ IsDict(d)
    BY DEF IsDict, DictsOf
  <2>2. IsDict(Linked(d, entry)) /\ Linked(d, entry).size = size
    BY <2>1, LinkedType
  <2>. QED  BY <2>2 DEF IsDict
<1>3. step \in [1 .. l -> [DictsOf(size) -> DictsOf(size)]]
  BY <1>0, <1>1, <1>2
<1>4. \A n \in 1 .. l, d \in DictsOf(size) : step[n][d] = Linked(d, entries[n])
  BY <1>0
<1>5. PICK g \in [0..l -> DictsOf(size)] : g[0] = new /\ \A n \in 1 .. l : g[n] = step[n][g[n - 1]]
  <2>. HIDE DEF step
  <2>1. Walk(DictsOf(size), new, step, l)
    BY <1>3, StepByStep
  <2>. QED  BY <2>1 DEF Walk
<1>6. \A n \in 1 .. l : g[n] = Linked(g[n - 1], entries[n])
  <2>1. \A n \in 1 .. l : n - 1 \in 0 .. l
    OBVIOUS
  <2>. HIDE DEF step
  <2>. QED  BY <2>1, <1>4, <1>5
<1>7. g = F(g)
  <2>1. \A n \in 0 .. l : n = 0 \/ n \in 1 .. l
    OBVIOUS
  <2>2. \A n \in 0 .. l : g[n] = IF n = 0 THEN new ELSE Linked(g[n - 1], entries[n])
    BY <2>1, <1>5, <1>6
  <2>. QED  BY <2>2, <1>0
<1>8. MovedFrom(entries, new) = F(MovedFrom(entries, new))
  BY <1>7 DEF MovedFrom
<1>9. \A n \in 0 .. Len(entries) : MovedFrom(entries, new)[n] =
          IF n = 0 THEN new ELSE Linked(MovedFrom(entries, new)[n - 1], entries[n])
  BY <1>8
<1>10. Moved(entries, new) = MovedFrom(entries, new)[Len(entries)]
  BY DEF Moved, MovedFrom
<1>11. 0 \in 0 .. Len(entries) /\ \A n \in 1 .. Len(entries) : n \in 0 .. Len(entries) /\ n # 0
  BY <1>0
<1>. QED  BY <1>9, <1>10, <1>11

LEMMA NewTableHolds ==
    ASSUME NEW size \in Nat, NEW used \in Nat
    PROVE  LET new == NewTable(size, used)
           IN  /\ IsDict(new) /\ new.size = size /\ new.used = used /\ Placed(new)
               /\ \A key \in Keys : ~Has(new, key) /\ \A val : ~Holds(new, key, val)
<1>. DEFINE t == [i \in 0 .. size - 1 |-> <<>>]
            new == NewTable(size, used)
<1>1. t \in [0 .. size - 1 -> Seq(Entry)]
  BY EmptySeq
<1>2. new = [size |-> size, used |-> used, table |-> t]
  BY DEF NewTable
<1>3. /\ new.size = size /\ new.used = used /\ IsDict(new)
      /\ \A i \in 0 .. size - 1 : new.table[i] = <<>>
  <2>1. \A i \in 0 .. size - 1 : t[i] = <<>>
    OBVIOUS
  <2>. HIDE DEF t
  <2>2. IsDict([size |-> size, used |-> used, table |-> t])
    BY <1>1, DictMade
  <2>3. new.size = size /\ new.used = used /\ new.table = t /\ IsDict(new)
    BY <1>2, <2>2
  <2>. QED  BY <2>1, <2>3
<1>. HIDE DEF new
<1>4. DOMAIN <<>> = {}
  OBVIOUS
<1>5. Placed(new)
  BY <1>3, <1>4 DEF Placed
<1>6. ASSUME NEW key \in Keys
      PROVE  Chain(new, key) = <<>>
  BY <1>3, BucketInTable DEF Chain
<1>. QED  BY <1>3, <1>4, <1>5, <1>6 DEF new, Holds, Has

\* dictExpand loses no entry, and places every one.
LEMMA ExpandHolds ==
    ASSUME NEW d, IsDict(d), Placed(d), NEW size \in Nat \ {0}
    PROVE  LET e == dictExpand(d, size)
           IN  /\ IsDict(e) /\ e.size = size /\ e.used = d.used /\ Placed(e)
               /\ \A key \in Keys : \A val : Holds(e, key, val) <=> Holds(d, key, val)
<1>. DEFINE entries == Entries(d)
            new == NewTable(size, d.used)
            m == MovedFrom(entries, new)
            Good(n) == /\ IsDict(m[n]) /\ m[n].size = size /\ m[n].used = d.used /\ Placed(m[n])
                       /\ \A key \in Keys : \A val : Holds(m[n], key, val) <=>
                             \E i \in 1 .. n : entries[i] = [key |-> key, val |-> val]
            T == {n \in Nat : n <= Len(entries) => Good(n)}
<1>1. /\ entries \in Seq(Entry) /\ Distinct(entries)
      /\ \A key \in Keys : \A val : Holds(d, key, val) <=> Among([key |-> key, val |-> val], entries)
  BY EntriesOf
<1>2. d.used \in Nat
  BY DictParts
<1>3. /\ IsDict(new) /\ new.size = size /\ new.used = d.used /\ Placed(new)
      /\ \A key \in Keys : \A val : ~Holds(new, key, val)
  BY <1>2, NewTableHolds
<1>. HIDE DEF entries, new
<1>4. new \in DictsOf(size)
  BY <1>3 DEF IsDict
<1>5. /\ m[0] = new /\ \A n \in 1 .. Len(entries) : m[n] = Linked(m[n - 1], entries[n])
      /\ dictExpand(d, size) = m[Len(entries)]
  BY <1>1, <1>4, MovedRecursion DEF dictExpand, entries, new
<1>6. PICK l \in Nat : l = Len(entries) /\ \A i \in 1 .. l : entries[i] \in Entry
  BY <1>1, LenProperties, ElementOfSeq
<1>. HIDE DEF m
<1>7. Good(0)
  <2>1. 1 .. 0 = {}
    OBVIOUS
  <2>. QED  BY <1>3, <1>5, <2>1
<1>8. ASSUME NEW n \in Nat, n + 1 <= l, Good(n)
      PROVE  Good(n + 1)
  <2>1. /\ n + 1 \in 1 .. l /\ (n + 1) - 1 = n /\ 1 .. (n + 1) = (1 .. n) \union {n + 1}
        /\ \A i \in 1 .. n : i \in 1 .. l /\ i # n + 1
    BY <1>8
  <2>2. m[n + 1] = Linked(m[n], entries[n + 1]) /\ entries[n + 1] \in Entry
    BY <2>1, <1>5, <1>6
  <2>3. ~Has(m[n], entries[n + 1].key)
    <3>1. SUFFICES ASSUME Has(m[n], entries[n + 1].key) PROVE FALSE
      OBVIOUS
    <3>2. entries[n + 1].key \in Keys
      BY <2>2 DEF Entry
    <3>3. PICK val : Holds(m[n], entries[n + 1].key, val)
      BY <1>8, <3>1, <3>2, FindHeld
    <3>4. PICK i \in 1 .. n : entries[i] = [key |-> entries[n + 1].key, val |-> val]
      BY <3>2, <3>3, <1>8
    <3>5. entries[i].key = entries[n + 1].key
      BY <3>4
    <3>. QED  BY <3>5, <2>1, <1>1, <1>6 DEF Distinct
  <2>4. PICK e : e = m[n]
    OBVIOUS
  <2>5. /\ IsDict(Linked(e, entries[n + 1])) /\ Linked(e, entries[n + 1]).size = e.size
        /\ Linked(e, entries[n + 1]).used = e.used /\ Placed(Linked(e, entries[n + 1]))
        /\ \A key \in Keys : \A val : Holds(Linked(e, entries[n + 1]), key, val) <=>
              Holds(e, key, val) \/ entries[n + 1] = [key |-> key, val |-> val]
    BY <1>8, <2>2, <2>3, <2>4, LinkedHolds
  <2>. QED  BY <1>8, <2>1, <2>2, <2>4, <2>5
<1>9. Nat \subseteq T
  <2>. HIDE DEF Good
  <2>1. 0 \in T /\ \A n \in Nat : n \in T => n + 1 \in T
    BY <1>6, <1>7, <1>8
  <2>. HIDE DEF T
  <2>. QED  BY <2>1, Steps
<1>10. Good(l)
  <2>. HIDE DEF Good
  <2>. QED  BY <1>6, <1>9
<1>11. /\ IsDict(m[l]) /\ m[l].size = size /\ m[l].used = d.used /\ Placed(m[l])
       /\ \A key \in Keys : \A val : Holds(m[l], key, val) <=> Holds(d, key, val)
  BY <1>1, <1>6, <1>10 DEF Among
<1>. QED  BY <1>5, <1>6, <1>11

(***************************************************************************)
(* What dictReplace and dictDelete do to a dictionary that is as it        *)
(* should be.                                                              *)
(***************************************************************************)
Sound(d) == IsDict(d) /\ DictOK(d) /\ IsFiniteSet(Held(d))

LEMMA SoundParts ==
    ASSUME NEW d, IsDict(d)
    PROVE  Sound(d) <=> /\ Placed(d) /\ IsFiniteSet(Held(d))
                        /\ d.used = Cardinality(Held(d)) /\ d.used <= d.size
  BY DEF Sound, DictOK, Placed

LEMMA CreateSound == Sound(dictCreate) /\ \A key \in Keys : dictFind(dictCreate, key) = 0
<1>1. /\ IsDict(dictCreate) /\ dictCreate.size = 0 /\ dictCreate.used = 0 /\ Placed(dictCreate)
      /\ \A key \in Keys : ~Has(dictCreate, key)
  BY NewTableHolds DEF dictCreate
<1>2. Held(dictCreate) = {}
  BY <1>1 DEF Held
<1>3. Sound(dictCreate)
  BY <1>1, <1>2, SoundParts, FS_EmptySet
<1>. QED  BY <1>1, <1>3 DEF dictFind

\* The chain of a bucket is changed: the others hold what they held.
LEMMA ChainHolds ==
    ASSUME NEW d, IsDict(d), Placed(d), NEW b \in 0 .. d.size - 1, NEW u \in Nat,
           NEW chain \in Seq(Entry), Distinct(chain),
           \A i \in 1 .. Len(chain) : Bucket(d, chain[i].key) = b
    PROVE  LET e == WithChain(d, b, chain, u)
           IN  /\ IsDict(e) /\ e.size = d.size /\ e.used = u /\ Placed(e)
               /\ \A key \in Keys : \A val : Holds(e, key, val) <=>
                     IF Bucket(d, key) = b THEN Among([key |-> key, val |-> val], chain)
                     ELSE Holds(d, key, val)
<1>. DEFINE e == WithChain(d, b, chain, u)
<1>1. /\ IsDict(e) /\ e.size = d.size /\ e.used = u
      /\ \A key \in Keys : /\ Bucket(e, key) = Bucket(d, key)
                           /\ Chain(e, key) = IF Bucket(d, key) = b THEN chain ELSE Chain(d, key)
      /\ \A x \in 0 .. d.size - 1 : e.table[x] = IF x = b THEN chain ELSE d.table[x]
  BY ChainChanged
<1>2. DOMAIN chain = 1 .. Len(chain) /\ \A i \in DOMAIN chain : chain[i] \in Entry
  BY LenProperties, ElementOfSeq
<1>. HIDE DEF e
<1>3. Placed(e)
  <2>1. SUFFICES ASSUME NEW x \in 0 .. d.size - 1, NEW i \in DOMAIN e.table[x]
                 PROVE  /\ Bucket(e, e.table[x][i].key) = x
                        /\ \A j \in DOMAIN e.table[x] : e.table[x][i].key = e.table[x][j].key => i = j
    BY <1>1 DEF Placed
  <2>2. CASE x # b
    <3>1. e.table[x] = d.table[x] /\ d.table[x] \in Seq(Entry)
      BY <2>2, <1>1, DictParts
    <3>2. d.table[x][i].key \in Keys
      <4>1. i \in 1 .. Len(d.table[x])
        BY <3>1, <2>1, LenProperties
      <4>2. d.table[x][i] \in Entry
        BY <3>1, <4>1, ElementOfSeq
      <4>. QED  BY <4>2 DEF Entry
    <3>. QED  BY <3>1, <3>2, <1>1, <2>1 DEF Placed
  <2>3. CASE x = b
    <3>1. e.table[x] = chain /\ i \in 1 .. Len(chain) /\ chain[i].key \in Keys
      BY <2>1, <2>3, <1>1, <1>2 DEF Entry
    <3>. QED  BY <2>3, <3>1, <1>1, <1>2 DEF Distinct
  <2>. QED  BY <2>2, <2>3
<1>4. ASSUME NEW key \in Keys, NEW val
      PROVE  Holds(e, key, val) <=> IF Bucket(d, key) = b THEN Among([key |-> key, val |-> val], chain)
                                    ELSE Holds(d, key, val)
  BY <1>1, <1>2 DEF Holds, Among
<1>. QED  BY <1>1, <1>3, <1>4 DEF e

\* Before an entry is added there is room for it, and nothing is lost.
LEMMA GrownSound ==
    ASSUME NEW d, Sound(d)
    PROVE  LET e == dictExpandIfNeeded(d)
           IN  /\ IsDict(e) /\ Placed(e) /\ e.size # 0 /\ e.used = d.used /\ e.used + 1 <= e.size
               /\ Held(e) = Held(d)
               /\ \A key \in Keys : \A val : Holds(e, key, val) <=> Holds(d, key, val)
<1>. DEFINE e == dictExpandIfNeeded(d)
<1>1. /\ IsDict(d) /\ Placed(d) /\ d.used <= d.size
  BY SoundParts DEF Sound
<1>2. PICK s \in Nat, u \in Nat : s = d.size /\ u = d.used
  BY <1>1, DictParts
<1>3. ASSUME NEW n \in Nat \ {0}, u + 1 <= n, e = dictExpand(d, n)
      PROVE  /\ IsDict(e) /\ Placed(e) /\ e.size # 0 /\ e.used = d.used /\ e.used + 1 <= e.size
             /\ \A key \in Keys : \A val : Holds(e, key, val) <=> Holds(d, key, val)
  <2>1. /\ IsDict(dictExpand(d, n)) /\ dictExpand(d, n).size = n /\ dictExpand(d, n).used = d.used
        /\ Placed(dictExpand(d, n))
        /\ \A key \in Keys : \A val : Holds(dictExpand(d, n), key, val) <=> Holds(d, key, val)
    BY <1>1, ExpandHolds
  <2>. QED  BY <1>2, <1>3, <2>1
<1>4. /\ IsDict(e) /\ Placed(e) /\ e.size # 0 /\ e.used = d.used /\ e.used + 1 <= e.size
      /\ \A key \in Keys : \A val : Holds(e, key, val) <=> Holds(d, key, val)
  <2>1. CASE s = 0
    <3>1. e = dictExpand(d, InitialSize)
      BY <1>2, <2>1 DEF dictExpandIfNeeded
    <3>2. InitialSize \in Nat \ {0} /\ u + 1 <= InitialSize
      <4>. HIDE DEF e
      <4>. QED  BY <1>1, <1>2, <2>1, DictAssumption
    <3>. QED  BY <3>1, <3>2, <1>3
  <2>2. CASE s # 0 /\ u = s
    <3>1. e = dictExpand(d, s * 2) /\ s * 2 \in Nat \ {0} /\ u + 1 <= s * 2
      BY <1>2, <2>2 DEF dictExpandIfNeeded
    <3>. QED  BY <3>1, <1>3
  <2>3. CASE s # 0 /\ u # s
    <3>1. e = d
      BY <1>2, <2>3 DEF dictExpandIfNeeded
    <3>. QED  BY <3>1, <1>1, <1>2, <2>3
  <2>. QED  BY <2>1, <2>2, <2>3
<1>. HIDE DEF e
<1>5. Held(e) = Held(d)
  BY <1>1, <1>4, HoldSame
<1>. QED  BY <1>4, <1>5, Zenon DEF e

\* dictReplace binds the key to the value, grown or not, there or not, and leaves every
\* other key as it was; each entry stays in the bucket of its hash, no key comes in
\* twice and the count stays exact (dict.c lines 80-178).
THEOREM ReplaceSound ==
    ASSUME NEW d, Sound(d), NEW key \in Keys, NEW val \in Nat \ {0}
    PROVE  LET e == dictReplace(d, key, val)
           IN  /\ Sound(e)
               /\ \A k \in Keys : dictFind(e, k) = IF k = key THEN val ELSE dictFind(d, k)
<1>. DEFINE e == dictReplace(d, key, val)
            entry == [key |-> key, val |-> val]
<1>1. PICK g : g = dictExpandIfNeeded(d)
  OBVIOUS
<1>2. /\ IsDict(g) /\ Placed(g) /\ g.size # 0 /\ g.used = d.used /\ g.used + 1 <= g.size
      /\ Held(g) = Held(d)
      /\ \A k \in Keys : \A v : Holds(g, k, v) <=> Holds(d, k, v)
  BY <1>1, GrownSound
<1>3. /\ IsDict(d) /\ Placed(d) /\ IsFiniteSet(Held(d)) /\ d.used = Cardinality(Held(d))
  BY SoundParts DEF Sound
<1>4. \A k \in Keys : dictFind(g, k) = dictFind(d, k)
  BY <1>2, <1>3, HoldSame
<1>5. entry \in Entry /\ entry.key = key /\ entry.val = val
  BY DEF Entry
<1>6. g.used \in Nat /\ g.size \in Nat
  BY <1>2, DictParts
<1>7. /\ IsDict(e) /\ Placed(e) /\ e.size = g.size
      /\ e.used = IF Has(g, key) THEN g.used ELSE g.used + 1
      /\ \A k \in Keys : \A v : Holds(e, k, v) <=> IF k = key THEN v = val ELSE Holds(g, k, v)
  <2>1. CASE ~Has(g, key)
    <3>1. PICK h : h = Linked(g, entry)
      OBVIOUS
    <3>2. e = [h EXCEPT !.used = @ + 1]
      BY <1>1, <2>1, <3>1 DEF dictReplace
    <3>3. /\ IsDict(h) /\ h.size = g.size /\ h.used = g.used /\ Placed(h)
          /\ \A k \in Keys : \A v :
                Holds(h, k, v) <=> Holds(g, k, v) \/ entry = [key |-> k, val |-> v]
      BY <1>2, <1>5, <2>1, <3>1, LinkedHolds
    <3>4. /\ h = [size |-> h.size, used |-> h.used, table |-> h.table]
          /\ h.size \in Nat /\ h.used \in Nat /\ h.table \in [0 .. h.size - 1 -> Seq(Entry)]
      BY <3>3, DictParts
    <3>5. e = [size |-> h.size, used |-> h.used + 1, table |-> h.table]
      BY <3>2, <3>4
    <3>. HIDE DEF e
    <3>6. e.size = h.size /\ e.used = h.used + 1 /\ e.table = h.table
      BY <3>5
    <3>7. IsDict(e)
      <4>1. h.used + 1 \in Nat
        BY <3>4
      <4>. QED  BY <3>4, <3>5, <4>1, DictMade, Zenon
    <3>8. \A k : Chain(e, k) = Chain(h, k) /\ Bucket(e, k) = Bucket(h, k)
      BY <3>6 DEF Chain, Bucket
    <3>9. Placed(e)
      BY <3>3, <3>6, <3>8 DEF Placed
    <3>10. \A k \in Keys : \A v : Holds(e, k, v) <=> Holds(g, k, v) \/ (k = key /\ v = val)
      BY <3>3, <3>8 DEF Holds
    <3>11. \A v : ~Holds(g, key, v)
      BY <1>2, <2>1, FindHeld
    <3>. QED  BY <2>1, <3>3, <3>6, <3>7, <3>9, <3>10, <3>11
  <2>2. CASE Has(g, key)
    <3>. DEFINE b == Bucket(g, key)
                i == At(g, key)
                chain == [g.table[b] EXCEPT ![i] = entry]
    <3>1. b \in 0 .. g.size - 1 /\ g.table[b] \in Seq(Entry) /\ Chain(g, key) = g.table[b]
      BY <1>2, BucketInTable, DictParts DEF Chain
    <3>2. i \in 1 .. Len(g.table[b]) /\ g.table[b][i].key = key
      BY <1>2, <2>2, <3>1, FindHeld
    <3>3. /\ g.table[b][i] \in Entry
          /\ g.table[b][i] = [key |-> key, val |-> g.table[b][i].val]
      <4>1. g.table[b][i] \in Entry
        BY <3>1, <3>2, ElementOfSeq
      <4>. HIDE DEF b, i
      <4>. QED  BY <4>1, <3>2 DEF Entry
    <3>4. /\ g = [size |-> g.size, used |-> g.used, table |-> g.table]
          /\ g.table \in [0 .. g.size - 1 -> Seq(Entry)]
      BY <1>2, DictParts
    <3>5. DOMAIN g.table[b] = 1 .. Len(g.table[b])
      BY <3>1, LenProperties
    <3>6. e = WithChain(g, b, chain, g.used)
      <4>1. e = [g EXCEPT !.table[b][i].val = val]
        BY <1>1, <2>2 DEF dictReplace
      <4>2. [g.table[b][i] EXCEPT !.val = val] = entry
        BY <3>3
      <4>3. [g EXCEPT !.table[b][i].val = val] = [g EXCEPT !.table[b][i] = entry]
        BY <3>1, <3>2, <3>4, <3>5, <4>2
      <4>. HIDE DEF entry, b, i
      <4>4. [g EXCEPT !.table[b][i] = entry] = [g EXCEPT !.table = [g.table EXCEPT ![b] = chain]]
        BY <3>1, <3>4
      <4>5. \A t : [g EXCEPT !.table = t] = [size |-> g.size, used |-> g.used, table |-> t]
        BY <3>4
      <4>. QED  BY <4>1, <4>3, <4>4, <4>5 DEF WithChain
    <3>7. /\ chain \in Seq(Entry) /\ Len(chain) = Len(g.table[b])
          /\ \A j \in 1 .. Len(g.table[b]) : chain[j] = IF j = i THEN entry ELSE g.table[b][j]
      BY <3>1, <3>2, <1>5, ExceptSeq
    <3>8. \A j \in 1 .. Len(chain) : chain[j].key = g.table[b][j].key
      BY <3>2, <3>7, <1>5
    <3>. HIDE DEF chain, e, b, i, entry
    <3>9. Distinct(chain) /\ \A j \in 1 .. Len(chain) : Bucket(g, chain[j].key) = b
      BY <1>2, <3>1, <3>5, <3>7, <3>8 DEF Placed, Distinct
    <3>10. /\ IsDict(e) /\ e.size = g.size /\ e.used = g.used /\ Placed(e)
           /\ \A k \in Keys : \A v : Holds(e, k, v) <=>
                 IF Bucket(g, k) = b THEN Among([key |-> k, val |-> v], chain) ELSE Holds(g, k, v)
      BY <1>2, <1>6, <3>1, <3>6, <3>7, <3>9, ChainHolds
    <3>11. ASSUME NEW k \in Keys, NEW v, Bucket(g, k) = b
           PROVE  Among([key |-> k, val |-> v], chain) <=> IF k = key THEN v = val ELSE Holds(g, k, v)
      <4>1. Chain(g, k) = g.table[b]
        BY <3>11, <1>2 DEF Chain
      <4>2. CASE k = key
        <5>1. \A j \in 1 .. Len(chain) : chain[j].key = key => j = i
          BY <3>2, <3>7, <3>8, <3>9 DEF Distinct
        <5>2. i \in 1 .. Len(chain) /\ chain[i] = entry
          BY <3>2, <3>7
        <5>. QED  BY <4>2, <5>1, <5>2, <1>5 DEF Among, entry
      <4>3. CASE k # key
        <5>1. [key |-> k, val |-> v].key = k
          OBVIOUS
        <5>. QED  BY <4>1, <4>3, <5>1, <3>2, <3>5, <3>7, <1>5 DEF Among, Holds
      <4>. QED  BY <4>2, <4>3
    <3>. QED  BY <2>2, <3>10, <3>11 DEF b
  <2>. QED  BY <2>1, <2>2
<1>. HIDE DEF e
<1>8. \A k \in Keys : dictFind(e, k) = IF k = key THEN val ELSE dictFind(d, k)
  <2>1. TAKE k \in Keys
  <2>2. CASE k = key
    BY <2>2, <1>7, FindHeld
  <2>3. CASE k # key
    <3>1. \A v : Holds(e, k, v) <=> Holds(g, k, v)
      BY <2>3, <1>7
    <3>2. dictFind(e, k) = dictFind(g, k)
      BY <3>1, <1>2, <1>7, FindHeld
    <3>. QED  BY <2>3, <3>2, <1>4
  <2>. QED  BY <2>2, <2>3
<1>9. Held(e) = Held(g) \union {key}
  <2>1. ASSUME NEW k \in Keys
        PROVE  Has(e, k) <=> k = key \/ Has(g, k)
    BY <1>2, <1>7, FindHeld
  <2>. QED  BY <2>1 DEF Held
<1>10. IsFiniteSet(Held(e)) /\ e.used = Cardinality(Held(e)) /\ e.used <= e.size
  <2>1. Has(g, key) <=> key \in Held(g)
    BY DEF Held
  <2>. QED  BY <1>2, <1>3, <1>6, <1>7, <1>9, <2>1, FS_AddElement, FS_CardinalityType
<1>11. Sound(e)
  BY <1>7, <1>10, SoundParts
<1>. QED  BY <1>8, <1>11, Zenon DEF e

LEMMA WithoutProperties ==
    ASSUME NEW chain \in Seq(Entry), NEW i \in 1 .. Len(chain)
    PROVE  /\ Without(chain, i) \in Seq(Entry) /\ Len(Without(chain, i)) = Len(chain) - 1
           /\ \A j \in 1 .. Len(chain) - 1 :
                 Without(chain, i)[j] = IF j < i THEN chain[j] ELSE chain[j + 1]
<1>1. PICK l \in Nat : l = Len(chain) /\ \A j \in 1 .. l : chain[j] \in Entry
  BY LenProperties, ElementOfSeq
<1>2. PICK s : s = SubSeq(chain, 1, i - 1)
  OBVIOUS
<1>3. PICK t : t = SubSeq(chain, i + 1, l)
  OBVIOUS
<1>4. /\ s \in Seq(Entry) /\ Len(s) = i - 1
      /\ \A j \in 1 .. i - 1 : s[j] = chain[j]
  <2>1. 1 \in Int /\ i - 1 \in Int /\ \A j \in 1 .. i - 1 : j \in 1 .. l
    BY <1>1
  <2>2. /\ SubSeq(chain, 1, i - 1) \in Seq(Entry)
        /\ Len(SubSeq(chain, 1, i - 1)) = IF 1 <= i - 1 THEN (i - 1) - 1 + 1 ELSE 0
        /\ \A j \in 1 .. (i - 1) - 1 + 1 : SubSeq(chain, 1, i - 1)[j] = chain[1 + j - 1]
    BY <1>1, <2>1, SubSeqProperties
  <2>3. (i - 1) - 1 + 1 = i - 1 /\ \A j \in 1 .. i - 1 : 1 + j - 1 = j
    BY <1>1
  <2>. QED  BY <1>1, <1>2, <2>2, <2>3
<1>5. /\ t \in Seq(Entry) /\ Len(t) = l - i
      /\ \A j \in 1 .. l - i : t[j] = chain[i + j]
  <2>1. i + 1 \in Int /\ l \in Int /\ \A j \in i + 1 .. l : j \in 1 .. l
    BY <1>1
  <2>2. /\ SubSeq(chain, i + 1, l) \in Seq(Entry)
        /\ Len(SubSeq(chain, i + 1, l)) = IF i + 1 <= l THEN l - (i + 1) + 1 ELSE 0
        /\ \A j \in 1 .. l - (i + 1) + 1 : SubSeq(chain, i + 1, l)[j] = chain[(i + 1) + j - 1]
    BY <1>1, <2>1, SubSeqProperties
  <2>3. l - (i + 1) + 1 = l - i /\ \A j \in 1 .. l - i : (i + 1) + j - 1 = i + j
    BY <1>1
  <2>. QED  BY <1>1, <1>3, <2>2, <2>3
<1>6. Without(chain, i) = s \o t
  BY <1>1, <1>2, <1>3 DEF Without
<1>7. /\ s \o t \in Seq(Entry) /\ Len(s \o t) = Len(s) + Len(t)
      /\ \A j \in 1 .. Len(s) + Len(t) : (s \o t)[j] = IF j <= Len(s) THEN s[j] ELSE t[j - Len(s)]
  BY <1>4, <1>5, ConcatProperties
<1>8. ASSUME NEW j \in 1 .. l - 1
      PROVE  (s \o t)[j] = IF j < i THEN chain[j] ELSE chain[j + 1]
  <2>1. CASE j < i
    <3>1. j \in 1 .. Len(s) + Len(t) /\ j <= Len(s) /\ j \in 1 .. i - 1
      BY <1>1, <1>4, <1>5, <2>1
    <3>. QED  BY <3>1, <2>1, <1>4, <1>7
  <2>2. CASE ~(j < i)
    <3>1. /\ j \in 1 .. Len(s) + Len(t) /\ ~(j <= Len(s)) /\ j - Len(s) \in 1 .. l - i
          /\ i + (j - Len(s)) = j + 1
      BY <1>1, <1>4, <1>5, <2>2
    <3>2. t[j - Len(s)] = chain[j + 1]
      BY <3>1, <1>5
    <3>. QED  BY <3>1, <3>2, <2>2, <1>7
  <2>. QED  BY <2>1, <2>2
<1>. QED  BY <1>1, <1>4, <1>5, <1>6, <1>7, <1>8

\* dictDelete takes the binding of the key away, wherever it is in its chain, and no other
\* (dict.c lines 181-210).
THEOREM DeleteSound ==
    ASSUME NEW d, Sound(d), NEW key \in Keys
    PROVE  LET e == dictDelete(d, key)
           IN  /\ Sound(e)
               /\ \A k \in Keys : dictFind(e, k) = IF k = key THEN 0 ELSE dictFind(d, k)
<1>. DEFINE e == dictDelete(d, key)
<1>1. /\ IsDict(d) /\ Placed(d) /\ IsFiniteSet(Held(d)) /\ d.used = Cardinality(Held(d))
      /\ d.used <= d.size
  BY SoundParts DEF Sound
<1>2. CASE ~Has(d, key)
  <2>1. e = d
    BY <1>2 DEF dictDelete
  <2>. QED  BY <1>2, <2>1 DEF dictFind
<1>3. CASE Has(d, key)
  <2>. DEFINE b == Bucket(d, key)
              i == At(d, key)
              chain == Without(d.table[b], i)
  <2>1. d.size # 0
    <3>1. DOMAIN <<>> = {}
      OBVIOUS
    <3>. QED  BY <1>3, <3>1 DEF Has, Chain
  <2>2. b \in 0 .. d.size - 1 /\ d.table[b] \in Seq(Entry) /\ Chain(d, key) = d.table[b]
    BY <1>1, <2>1, BucketInTable, DictParts DEF Chain
  <2>3. i \in 1 .. Len(d.table[b]) /\ d.table[b][i].key = key
    BY <1>1, <1>3, <2>2, FindHeld
  <2>4. /\ d = [size |-> d.size, used |-> d.used, table |-> d.table]
        /\ d.table \in [0 .. d.size - 1 -> Seq(Entry)]
        /\ d.used \in Nat /\ d.size \in Nat
    BY <1>1, DictParts
  <2>5. PICK l \in Nat : l = Len(d.table[b]) /\ DOMAIN d.table[b] = 1 .. l
    BY <2>2, LenProperties
  <2>6. e = WithChain(d, b, chain, d.used - 1)
    <3>. DEFINE t == [d.table EXCEPT ![b] = chain]
    <3>1. e = [[d EXCEPT !.table[b] = chain] EXCEPT !.used = @ - 1]
      BY <1>3, <2>2, <2>4 DEF dictDelete
    <3>. HIDE DEF chain, b, i
    <3>2. [d EXCEPT !.table[b] = chain] = [d EXCEPT !.table = t]
      BY <2>2, <2>4
    <3>. HIDE DEF t
    <3>3. [d EXCEPT !.table = t] = [size |-> d.size, used |-> d.used, table |-> t]
      BY <2>4
    <3>4. [[size |-> d.size, used |-> d.used, table |-> t] EXCEPT !.used = @ - 1]
              = [size |-> d.size, used |-> d.used - 1, table |-> t]
      OBVIOUS
    <3>. QED  BY <3>1, <3>2, <3>3, <3>4 DEF WithChain, t
  <2>7. /\ chain \in Seq(Entry) /\ Len(chain) = l - 1
        /\ \A j \in 1 .. l - 1 : chain[j] = IF j < i THEN d.table[b][j] ELSE d.table[b][j + 1]
    BY <2>2, <2>3, <2>5, WithoutProperties
  <2>8. Held(d) # {} /\ d.used - 1 \in Nat
    <3>1. key \in Held(d)
      BY <1>3 DEF Held
    <3>. QED  BY <3>1, <1>1, <2>4, FS_EmptySet, FS_CardinalityType
  <2>. HIDE DEF chain, e, b, i
  <2>9. \A j, k \in 1 .. l : d.table[b][j].key = d.table[b][k].key => j = k
    BY <1>1, <2>2, <2>5 DEF Placed
  <2>10. \A j \in 1 .. l : Bucket(d, d.table[b][j].key) = b
    BY <1>1, <2>2, <2>5 DEF Placed
  <2>11. \A j \in 1 .. l - 1 : \E k \in 1 .. l : k # i /\ chain[j] = d.table[b][k]
                                                 /\ k = IF j < i THEN j ELSE j + 1
    <3>1. TAKE j \in 1 .. l - 1
    <3>2. CASE j < i
      BY <3>2, <2>3, <2>5, <2>7
    <3>3. CASE ~(j < i)
      <4>1. j + 1 \in 1 .. l /\ j + 1 # i
        BY <3>3, <2>3, <2>5
      <4>. QED  BY <3>3, <4>1, <2>7
    <3>. QED  BY <3>2, <3>3
  <2>12. \A k \in 1 .. l : k # i => \E j \in 1 .. l - 1 : chain[j] = d.table[b][k]
    <3>1. SUFFICES ASSUME NEW k \in 1 .. l, k # i PROVE \E j \in 1 .. l - 1 : chain[j] = d.table[b][k]
      OBVIOUS
    <3>2. CASE k < i
      <4>1. k \in 1 .. l - 1
        BY <3>2, <2>3, <2>5
      <4>. QED  BY <3>2, <4>1, <2>7
    <3>3. CASE ~(k < i)
      <4>1. k - 1 \in 1 .. l - 1 /\ ~(k - 1 < i) /\ (k - 1) + 1 = k
        BY <3>1, <3>3, <2>3, <2>5
      <4>. QED  BY <4>1, <2>7
    <3>. QED  BY <3>2, <3>3
  <2>13. Distinct(chain) /\ \A j \in 1 .. Len(chain) : Bucket(d, chain[j].key) = b
    <3>1. \A j \in 1 .. l - 1 : Bucket(d, chain[j].key) = b
      BY <2>10, <2>11
    <3>2. ASSUME NEW j \in 1 .. l - 1, NEW k \in 1 .. l - 1, chain[j].key = chain[k].key
          PROVE  j = k
      <4>1. PICK x \in 1 .. l : chain[j] = d.table[b][x] /\ x = IF j < i THEN j ELSE j + 1
        BY <2>11
      <4>2. PICK y \in 1 .. l : chain[k] = d.table[b][y] /\ y = IF k < i THEN k ELSE k + 1
        BY <2>11
      <4>3. x = y
        BY <4>1, <4>2, <3>2, <2>9
      <4>. QED  BY <4>1, <4>2, <4>3, <2>3, <2>5
    <3>. QED  BY <3>1, <3>2, <2>7 DEF Distinct
  <2>14. /\ IsDict(e) /\ e.size = d.size /\ e.used = d.used - 1 /\ Placed(e)
         /\ \A k \in Keys : \A v : Holds(e, k, v) <=>
               IF Bucket(d, k) = b THEN Among([key |-> k, val |-> v], chain) ELSE Holds(d, k, v)
    BY <1>1, <2>2, <2>6, <2>7, <2>8, <2>13, ChainHolds
  <2>15. \A k \in Keys : \A v : Holds(e, k, v) <=> k # key /\ Holds(d, k, v)
    <3>1. ASSUME NEW k \in Keys, NEW v, Bucket(d, k) = b
          PROVE  Among([key |-> k, val |-> v], chain) <=> k # key /\ Holds(d, k, v)
      <4>1. Chain(d, k) = d.table[b] /\ [key |-> k, val |-> v].key = k
        BY <2>1, <3>1 DEF Chain
      <4>2. Holds(d, k, v) <=> \E j \in 1 .. l : d.table[b][j] = [key |-> k, val |-> v]
        BY <4>1, <2>5 DEF Holds
      <4>3. \A j \in 1 .. l : d.table[b][j] = [key |-> k, val |-> v] => (j = i <=> k = key)
        BY <4>1, <2>3, <2>5, <2>9
      <4>4. ASSUME Among([key |-> k, val |-> v], chain)
            PROVE  k # key /\ Holds(d, k, v)
        <5>1. PICK j \in 1 .. l - 1 : chain[j] = [key |-> k, val |-> v]
          BY <4>4, <2>7 DEF Among
        <5>2. PICK x \in 1 .. l : x # i /\ chain[j] = d.table[b][x]
          BY <2>11
        <5>. QED  BY <5>1, <5>2, <4>2, <4>3
      <4>5. ASSUME k # key, Holds(d, k, v)
            PROVE  Among([key |-> k, val |-> v], chain)
        <5>1. PICK x \in 1 .. l : d.table[b][x] = [key |-> k, val |-> v]
          BY <4>2, <4>5
        <5>2. PICK j \in 1 .. l - 1 : chain[j] = d.table[b][x]
          BY <5>1, <4>3, <4>5, <2>12
        <5>. QED  BY <5>1, <5>2, <2>7 DEF Among
      <4>. QED  BY <4>4, <4>5
    <3>. QED  BY <2>14, <3>1 DEF b
  <2>16. \A k \in Keys : dictFind(e, k) = IF k = key THEN 0 ELSE dictFind(d, k)
    <3>1. TAKE k \in Keys
    <3>2. CASE k = key
      BY <3>2, <2>14, <2>15, FindHeld
    <3>3. CASE k # key
      <4>1. \A v : Holds(e, k, v) <=> Holds(d, k, v)
        BY <3>3, <2>15
      <4>2. dictFind(e, k) = dictFind(d, k)
        BY <4>1, <1>1, <2>14, FindHeld
      <4>. QED  BY <3>3, <4>2
    <3>. QED  BY <3>2, <3>3
  <2>17. Held(e) = Held(d) \ {key}
    <3>1. ASSUME NEW k \in Keys
          PROVE  Has(e, k) <=> k # key /\ Has(d, k)
      BY <1>1, <2>14, <2>15, FindHeld
    <3>. QED  BY <3>1 DEF Held
  <2>18. IsFiniteSet(Held(e)) /\ e.used = Cardinality(Held(e)) /\ e.used <= e.size
    <3>1. key \in Held(d)
      BY <1>3 DEF Held
    <3>2. IsFiniteSet(Held(e)) /\ Cardinality(Held(e)) = Cardinality(Held(d)) - 1
      BY <3>1, <1>1, <2>17, FS_RemoveElement
    <3>. QED  BY <3>2, <1>1, <2>4, <2>14
  <2>19. Sound(e)
    BY <2>14, <2>18, SoundParts
  <2>. QED  BY <2>16, <2>19, Zenon DEF e
<1>. QED  BY <1>2, <1>3

\* The first entry of the iterator is in the dictionary; when there is none, nothing is.
LEMMA EntriesFound ==
    ASSUME NEW d, Sound(d)
    PROVE  /\ Entries(d) = <<>> => \A key \in Keys : dictFind(d, key) = 0
           /\ Entries(d) # <<>> => /\ Head(Entries(d)) \in Entry
                                   /\ dictFind(d, Head(Entries(d)).key) = Head(Entries(d)).val
<1>1. IsDict(d) /\ Placed(d)
  BY SoundParts DEF Sound
<1>2. PICK list \in Seq(Entry) : list = Entries(d)
  BY <1>1, EntriesOf
<1>3. \A key \in Keys : \A val : Holds(d, key, val) <=> Among([key |-> key, val |-> val], list)
  BY <1>1, <1>2, EntriesOf
<1>4. ASSUME list = <<>>, NEW key \in Keys
      PROVE  dictFind(d, key) = 0
  <2>1. \A val : ~Holds(d, key, val)
    BY <1>3, <1>4, EmptySeq DEF Among
  <2>. QED  BY <2>1, <1>1, FindHeld
<1>5. ASSUME list # <<>>
      PROVE  Head(list) \in Entry /\ dictFind(d, Head(list).key) = Head(list).val
  <2>1. PICK x \in Entry : x = list[1] /\ x = Head(list)
    BY <1>5, EmptySeq, ElementOfSeq, HeadTailProperties
  <2>2. Len(list) \in Nat \ {0} /\ x.key \in Keys /\ x = [key |-> x.key, val |-> x.val]
    BY <1>5, EmptySeq DEF Entry
  <2>3. 1 \in 1 .. Len(list)
    BY <2>2
  <2>4. Holds(d, x.key, x.val)
    BY <1>3, <2>1, <2>2, <2>3 DEF Among
  <2>. QED  BY <2>1, <2>2, <2>4, <1>1, FindHeld
<1>. QED  BY <1>2, <1>4, <1>5

Dicts == UNION {DictsOf(n) : n \in Nat}
BoundFrom(d, list, cb) ==
    CHOOSE f : f = [n \in 0..Len(list) |-> IF n = 0 THEN d ELSE dictReplace(f[n - 1], list[n], cb)]

LEMMA BoundSound ==
    ASSUME NEW d, Sound(d), NEW list \in Seq(Keys), NEW cb \in Nat \ {0}
    PROVE  LET e == Bound(d, list, cb)
           IN  /\ Sound(e)
               /\ \A k \in Keys : dictFind(e, k) = IF k \in Range(list) THEN cb ELSE dictFind(d, k)
<1>. DEFINE S == {e \in Dicts : Sound(e)}
            step == [n \in 1 .. Len(list) |-> [e \in S |-> dictReplace(e, list[n], cb)]]
            F(f) == [n \in 0..Len(list) |-> IF n = 0 THEN d ELSE dictReplace(f[n - 1], list[n], cb)]
            m == BoundFrom(d, list, cb)
<1>1. PICK l \in Nat : l = Len(list) /\ \A n \in 1 .. l : list[n] \in Keys
  BY LenProperties, ElementOfSeq
<1>2. \A e : e \in S <=> Sound(e)
  BY DEF Dicts, Sound, IsDict
<1>. HIDE DEF S
<1>3. \A n \in 1 .. l, e \in S : dictReplace(e, list[n], cb) \in S
  <2>1. TAKE n \in 1 .. l, e \in S
  <2>2. Sound(e) /\ list[n] \in Keys
    BY <1>1, <1>2
  <2>3. Sound(dictReplace(e, list[n], cb))
    BY <2>2, ReplaceSound
  <2>. QED  BY <2>3, <1>2
<1>4. step \in [1 .. l -> [S -> S]]
  BY <1>1, <1>3
<1>5. \A n \in 1 .. l, e \in S : step[n][e] = dictReplace(e, list[n], cb)
  BY <1>1
<1>6. PICK g \in [0..l -> S] : g[0] = d /\ \A n \in 1 .. l : g[n] = step[n][g[n - 1]]
  <2>. HIDE DEF step
  <2>1. d \in S
    BY <1>2
  <2>2. Walk(S, d, step, l)
    BY <1>4, <2>1, StepByStep
  <2>. QED  BY <2>2 DEF Walk
<1>7. \A n \in 1 .. l : g[n] = dictReplace(g[n - 1], list[n], cb)
  <2>1. \A n \in 1 .. l : n - 1 \in 0 .. l
    OBVIOUS
  <2>. HIDE DEF step
  <2>. QED  BY <2>1, <1>5, <1>6
<1>8. g = F(g)
  <2>1. \A n \in 0 .. l : n = 0 \/ n \in 1 .. l
    OBVIOUS
  <2>2. \A n \in 0 .. l : g[n] = IF n = 0 THEN d ELSE dictReplace(g[n - 1], list[n], cb)
    BY <2>1, <1>6, <1>7
  <2>. QED  BY <2>2, <1>1
<1>9. m = F(m)
  BY <1>8 DEF BoundFrom
<1>. HIDE DEF m
<1>10. m[0] = d /\ \A n \in 1 .. l : m[n] = dictReplace(m[n - 1], list[n], cb)
  <2>1. 0 \in 0 .. l /\ \A n \in 1 .. l : n \in 0 .. l /\ n # 0
    OBVIOUS
  <2>2. \A n \in 0 .. l : m[n] = IF n = 0 THEN d ELSE dictReplace(m[n - 1], list[n], cb)
    BY <1>1, <1>9
  <2>. QED  BY <2>1, <2>2
<1>. DEFINE Good(n) == /\ Sound(m[n])
                       /\ \A k \in Keys : dictFind(m[n], k) =
                             IF \E i \in 1 .. n : list[i] = k THEN cb ELSE dictFind(d, k)
            T == {n \in Nat : n <= l => Good(n)}
<1>11. Good(0)
  <2>1. 1 .. 0 = {}
    OBVIOUS
  <2>. QED  BY <2>1, <1>10
<1>12. ASSUME NEW n \in Nat, n + 1 <= l, Good(n)
       PROVE  Good(n + 1)
  <2>1. n + 1 \in 1 .. l /\ (n + 1) - 1 = n /\ 1 .. (n + 1) = (1 .. n) \union {n + 1}
    BY <1>12
  <2>2. PICK e : e = m[n]
    OBVIOUS
  <2>3. m[n + 1] = dictReplace(e, list[n + 1], cb) /\ list[n + 1] \in Keys
    BY <2>1, <2>2, <1>1, <1>10
  <2>4. /\ Sound(dictReplace(e, list[n + 1], cb))
        /\ \A k \in Keys : dictFind(dictReplace(e, list[n + 1], cb), k) =
              IF k = list[n + 1] THEN cb ELSE dictFind(e, k)
    <3>1. Sound(e)
      BY <1>12, <2>2
    <3>2. PICK key \in Keys : key = list[n + 1]
      BY <2>3
    <3>3. /\ Sound(dictReplace(e, key, cb))
          /\ \A k \in Keys : dictFind(dictReplace(e, key, cb), k) =
                IF k = key THEN cb ELSE dictFind(e, k)
      BY <3>1, ReplaceSound
    <3>. QED  BY <3>2, <3>3
  <2>5. \A k \in Keys : (\E i \in 1 .. (n + 1) : list[i] = k)
                            <=> k = list[n + 1] \/ \E i \in 1 .. n : list[i] = k
    BY <2>1
  <2>6. \A k \in Keys : dictFind(e, k) = IF \E i \in 1 .. n : list[i] = k THEN cb ELSE dictFind(d, k)
    BY <1>12, <2>2
  <2>7. \A k \in Keys : dictFind(m[n + 1], k) =
              IF \E i \in 1 .. (n + 1) : list[i] = k THEN cb ELSE dictFind(d, k)
    BY <2>3, <2>4, <2>5, <2>6
  <2>. QED  BY <2>3, <2>4, <2>7
<1>13. Nat \subseteq T
  <2>. HIDE DEF Good
  <2>1. 0 \in T /\ \A n \in Nat : n \in T => n + 1 \in T
    BY <1>11, <1>12
  <2>. HIDE DEF T
  <2>. QED  BY <2>1, Steps
<1>14. Good(l)
  <2>. HIDE DEF Good
  <2>. QED  BY <1>13
<1>15. Bound(d, list, cb) = m[l]
  BY <1>1 DEF Bound, BoundFrom, m
<1>16. \A k : k \in Range(list) <=> \E i \in 1 .. l : list[i] = k
  BY <1>1, LenProperties DEF Range
<1>. QED  BY <1>14, <1>15, <1>16

(***************************************************************************)
(* The types of the context, and finite sets of channels.                  *)
(***************************************************************************)
LEMMA FiniteChannels ==
    /\ IsFiniteSet(Channels) /\ IsFiniteSet(Variants \X Channels) /\ Channels \subseteq Keys
    /\ \A list \in Lists : list \in Seq(Channels) /\ list \in Seq(Keys) /\ Range(list) \subseteq Channels
<1>1. ASSUME NEW list \in Lists
      PROVE  /\ list \in Seq(Channels) /\ list \in Seq(Keys)
             /\ Range(list) \subseteq Channels /\ Range(list) \subseteq Keys
             /\ IsFiniteSet(Range(list))
  <2>1. list \in Seq(Keys)
    BY AsyncAssumption
  <2>2. PICK l \in Nat : l = Len(list) /\ DOMAIN list = 1 .. l /\ \A i \in 1 .. l : list[i] \in Keys
    BY <2>1, LenProperties, ElementOfSeq
  <2>3. Range(list) \subseteq Channels /\ Range(list) \subseteq Keys
    BY <2>2 DEF Channels, Range
  <2>4. list \in [1 .. l -> Range(list)]
    BY <2>1, <2>2, LenProperties DEF Range
  <2>5. list \in Surjection(1 .. l, Range(list))
    BY <2>2, <2>4 DEF Surjection, Range
  <2>6. IsFiniteSet(Range(list))
    BY <2>5, FS_Interval, FS_Surjection
  <2>7. list \in Seq(Channels)
    BY <2>1, <2>3, SeqOfRange, SeqMonotonic
  <2>. QED  BY <2>1, <2>3, <2>6, <2>7
<1>2. Channels \subseteq Keys
  BY <1>1 DEF Channels
<1>3. IsFiniteSet({Range(list) : list \in Lists})
  <2>. DEFINE R == {Range(list) : list \in Lists}
              f == [list \in Lists |-> Range(list)]
  <2>1. f \in Surjection(Lists, R)
    BY DEF Surjection
  <2>. HIDE DEF f, R
  <2>2. IsFiniteSet(R)
    BY <2>1, AsyncAssumption, FS_Surjection
  <2>. QED  BY <2>2 DEF R
<1>4. IsFiniteSet(Channels)
  <2>1. \A T \in {Range(list) : list \in Lists} : IsFiniteSet(T)
    BY <1>1
  <2>. QED  BY <2>1, <1>3, FS_UNION DEF Channels
<1>5. IsFiniteSet(Variants)
  <2>1. Variants = ({} \union {"channels"}) \union {"patterns"}
    BY DEF Variants
  <2>. QED  BY <2>1, FS_EmptySet, FS_AddElement
<1>6. IsFiniteSet(Variants \X Channels)
  BY <1>4, <1>5, FS_Product
<1>. QED  BY <1>1, <1>2, <1>4, <1>6

Answers == [type : {"reply", "error"}, id : Nat, v : {""}, channel : {""}, left : {0}]
Pushes  == [type : {"message", "subscribe", "unsubscribe"}, id : Nat,
            v : Variants, channel : Channels, left : Nat]
Replies == Answers \union Pushes
Given   == Replies \union {NullReply}
Commands ==
    [op : {"command"}, id : Nat, v : {""}, list : {<<>>}]
      \union [op : {"subscribe", "unsubscribe"}, id : Nat, v : Variants, list : Lists]

Types ==
    /\ pc \in {"loop", "process", "callback", "freeing", "nullreply", "freed", "aborted", "undefined"}
    /\ connected \in BOOLEAN /\ disconnecting \in BOOLEAN /\ freeing \in BOOLEAN
    /\ subscribed \in BOOLEAN /\ err \in BOOLEAN /\ wantRead \in BOOLEAN /\ wantWrite \in BOOLEAN
    /\ closed \in BOOLEAN
    /\ messages \in 0..MaxMessages /\ faults \in 0..MaxFaults
    /\ replies \in Seq(Nat \ {0}) /\ invalid \in Seq(Nat \ {0})
    /\ cmds \in Seq(Commands) /\ ran \in Seq(Seq(Given)) /\ Len(ran) = Len(cmds)
    /\ obuf \in Seq(Commands) /\ requests \in Seq(Commands)
    /\ wire \in Seq(Replies) /\ inbox \in Seq(Replies)
    /\ owner \in [Variants -> [Channels -> Nat]]
    /\ serving \subseteq Variants \X Channels
    /\ subs \in [Variants -> Dicts] /\ \A v \in Variants : Sound(subs[v])

LEMMA CommandTypes ==
    ASSUME NEW id \in Nat
    PROVE  /\ [op |-> "command", id |-> id, v |-> "", list |-> <<>>] \in Commands
           /\ \A op \in {"subscribe", "unsubscribe"}, v \in Variants, list \in Lists :
                 [op |-> op, id |-> id, v |-> v, list |-> list] \in Commands
  BY DEF Commands

LEMMA TakenApart ==
    ASSUME NEW S, NEW s \in Seq(S), NEW n \in 0 .. Len(s)
    PROVE  /\ SubSeq(s, 1, n) \in Seq(S) /\ SubSeq(s, n + 1, Len(s)) \in Seq(S)
           /\ SubSeq(s, 1, n) \o SubSeq(s, n + 1, Len(s)) = s
<1>1. Len(s) \in Nat /\ \A i \in 1 .. Len(s) : s[i] \in S
  BY LenProperties, ElementOfSeq
<1>2. /\ SubSeq(s, 1, n) \in Seq(S)
      /\ SubSeq(s, n + 1, Len(s)) \in Seq(S)
  <2>1. \A i \in 1 .. n : s[i] \in S
    BY <1>1
  <2>2. \A i \in n + 1 .. Len(s) : s[i] \in S
    BY <1>1
  <2>3. 1 \in Int /\ n \in Int /\ n + 1 \in Int /\ Len(s) \in Int
    BY <1>1
  <2>. QED  BY <2>1, <2>2, <2>3, SubSeqProperties
<1>3. 1 \in 1 .. Len(s) + 1 /\ n \in 1 - 1 .. Len(s) /\ Len(s) \in n .. Len(s)
  BY <1>1
<1>4. SubSeq(s, 1, n) \o SubSeq(s, n + 1, Len(s)) = SubSeq(s, 1, Len(s))
  BY <1>3, ConcatAdjacentSubSeq
<1>. QED  BY <1>2, <1>4, SubSeqFull

LEMMA RanChanged ==
    ASSUME Types, NEW cb, NEW reply \in Given
    PROVE  LET r == [ran EXCEPT ![cb] = Append(@, reply)]
           IN  /\ r \in Seq(Seq(Given)) /\ Len(r) = Len(ran) /\ DOMAIN r = DOMAIN ran
               /\ \A i \in DOMAIN ran : r[i] = IF i = cb THEN Append(ran[i], reply) ELSE ran[i]
<1>1. ran \in Seq(Seq(Given))
  BY DEF Types
<1>2. DOMAIN ran = 1 .. Len(ran) /\ \A i \in 1 .. Len(ran) : ran[i] \in Seq(Given)
  BY <1>1, LenProperties, ElementOfSeq
<1>3. CASE cb \in 1 .. Len(ran)
  <2>1. Append(ran[cb], reply) \in Seq(Given)
    BY <1>2, <1>3, AppendProperties
  <2>2. PICK x \in Seq(Given) : x = Append(ran[cb], reply)
    BY <2>1
  <2>3. [ran EXCEPT ![cb] = Append(@, reply)] = [ran EXCEPT ![cb] = x]
    BY <2>2
  <2>4. /\ [ran EXCEPT ![cb] = x] \in Seq(Seq(Given))
        /\ Len([ran EXCEPT ![cb] = x]) = Len(ran)
        /\ \A i \in 1 .. Len(ran) : [ran EXCEPT ![cb] = x][i] = IF i = cb THEN x ELSE ran[i]
    BY <1>1, <1>3, ExceptSeq
  <2>. QED  BY <1>2, <2>2, <2>3, <2>4
<1>4. CASE cb \notin 1 .. Len(ran)
  <2>1. [ran EXCEPT ![cb] = Append(@, reply)] = ran
    BY <1>1, <1>2, <1>4
  <2>. QED  BY <1>1, <1>2, <1>4, <2>1
<1>. QED  BY <1>3, <1>4

LEMMA NullGiven == NullReply \in Given
  BY DEF Given

LEMMA TypesHold ==
    Init => Types
<1>. SUFFICES ASSUME Init PROVE Types
  OBVIOUS
<1>1. /\ Sound(dictCreate) /\ dictCreate \in Dicts
  BY CreateSound DEF Sound, IsDict, Dicts
<1>2. \A S : <<>> \in Seq(S)
  BY EmptySeq
<1>3. 0 \in 0..MaxMessages /\ 0 \in 0..MaxFaults
  BY AsyncAssumption
<1>. QED  BY <1>1, <1>2, <1>3 DEF Init, Types

LEMMA AcceptTypes ==
    ASSUME Types, NEW cmd \in Commands, Accept(cmd)
    PROVE  /\ cmds' = Append(cmds, cmd) /\ cmds' \in Seq(Commands) /\ Len(cmds') = Len(cmds) + 1
           /\ ran' \in Seq(Seq(Given)) /\ Len(ran') = Len(ran) + 1
           /\ obuf' = Append(obuf, cmd) /\ obuf' \in Seq(Commands)
           /\ wantWrite' = TRUE
           /\ UNCHANGED <<pc, connected, disconnecting, freeing, err, wantRead, requests, wire,
                          closed, serving, inbox, messages, faults>>
<1>1. /\ cmds \in Seq(Commands) /\ obuf \in Seq(Commands) /\ ran \in Seq(Seq(Given))
      /\ <<>> \in Seq(Given)
  BY EmptySeq DEF Types
<1>2. /\ cmds' = Append(cmds, cmd) /\ obuf' = Append(obuf, cmd) /\ ran' = Append(ran, <<>>)
      /\ wantWrite' = TRUE
      /\ UNCHANGED <<pc, connected, disconnecting, freeing, err, wantRead, server, inbox, counts>>
  BY DEF Accept
<1>. QED  BY <1>1, <1>2, AppendProperties DEF server, counts

LEMMA CmdTypes ==
    ASSUME Types
    PROVE  /\ Len(cmds) \in Nat /\ Len(cmds) + 1 \in Nat \ {0}
           /\ Cmd("command", "", <<>>) \in Commands
           /\ \A op \in {"subscribe", "unsubscribe"}, v \in Variants, list \in Lists :
                 Cmd(op, v, list) \in Commands
<1>1. PICK id \in Nat \ {0} : id = Len(cmds) + 1 /\ Len(cmds) \in Nat
  BY LenProperties DEF Types
<1>. QED  BY <1>1, CommandTypes DEF Cmd

LEMMA CommandStepTypes ==
    ASSUME Types, Command
    PROVE  Types'
<1>. DEFINE cmd == Cmd("command", "", <<>>)
<1>2. cmd \in Commands /\ Accept(cmd)
  BY CmdTypes DEF Command
<1>4. replies' \in Seq(Nat \ {0}) /\ invalid' \in Seq(Nat \ {0})
  <2>1. PICK id \in Nat \ {0} : id = Len(cmds) + 1
    BY CmdTypes
  <2>2. replies \in Seq(Nat \ {0}) /\ invalid \in Seq(Nat \ {0})
    BY DEF Types
  <2>3. Append(replies, id) \in Seq(Nat \ {0}) /\ Append(invalid, id) \in Seq(Nat \ {0})
    BY <2>2, AppendProperties
  <2>. QED  BY <2>1, <2>2, <2>3 DEF Command
<1>5. UNCHANGED <<subscribed, subs, owner>>
  BY DEF Command
<1>. HIDE DEF cmd
<1>6. /\ cmds' \in Seq(Commands) /\ Len(ran') = Len(cmds')
      /\ ran' \in Seq(Seq(Given)) /\ obuf' \in Seq(Commands) /\ wantWrite' = TRUE
      /\ UNCHANGED <<pc, connected, disconnecting, freeing, err, wantRead, requests, wire,
                     closed, serving, inbox, messages, faults>>
  BY <1>2, AcceptTypes DEF Types
<1>. QED  BY <1>4, <1>5, <1>6 DEF Types

LEMMA SubscribeStepTypes ==
    ASSUME Types, NEW v \in Variants, NEW list \in Lists, Subscribe(v, list)
    PROVE  /\ Types'
           /\ \A w \in Variants, k \in Keys : dictFind(subs'[w], k) =
                 IF w = v /\ k \in Range(list) THEN Len(cmds) + 1 ELSE dictFind(subs[w], k)
<1>. DEFINE cmd == Cmd("subscribe", v, list)
<1>2. cmd \in Commands /\ Accept(cmd)
  BY CmdTypes DEF Subscribe
<1>3. PICK id \in Nat \ {0} : id = Len(cmds) + 1
  BY CmdTypes
<1>4. subs \in [Variants -> Dicts] /\ Sound(subs[v])
  BY DEF Types
<1>5. PICK e : e = Bound(subs[v], list, id)
  OBVIOUS
<1>6. /\ Sound(e)
      /\ \A k \in Keys : dictFind(e, k) = IF k \in Range(list) THEN id ELSE dictFind(subs[v], k)
  BY <1>4, <1>5, BoundSound, FiniteChannels
<1>7. subs' = [subs EXCEPT ![v] = e]
  BY <1>3, <1>5 DEF Subscribe
<1>8. e \in Dicts
  BY <1>6 DEF Sound, IsDict, Dicts
<1>9. subs' \in [Variants -> Dicts] /\ \A w \in Variants : subs'[w] = IF w = v THEN e ELSE subs[w]
  BY <1>4, <1>7, <1>8
<1>10. \A w \in Variants : Sound(subs'[w])
  BY <1>6, <1>9 DEF Types
<1>11. owner' \in [Variants -> [Channels -> Nat]]
  <2>1. owner' = [owner EXCEPT ![v] = [c \in Channels |-> IF c \in Range(list) THEN id ELSE owner[v][c]]]
    BY <1>3 DEF Subscribe
  <2>2. [c \in Channels |-> IF c \in Range(list) THEN id ELSE owner[v][c]] \in [Channels -> Nat]
    BY DEF Types
  <2>. QED  BY <2>1, <2>2 DEF Types
<1>12. subscribed' = TRUE /\ UNCHANGED <<replies, invalid>>
  BY DEF Subscribe
<1>. HIDE DEF cmd
<1>13. Types'
  BY <1>2, <1>9, <1>10, <1>11, <1>12, AcceptTypes DEF Types
<1>. QED  BY <1>3, <1>6, <1>9, <1>13

LEMMA UnsubscribeStepTypes ==
    ASSUME Types, NEW v \in Variants, NEW list \in Lists, Unsubscribe(v, list)
    PROVE  Types'
<1>. DEFINE cmd == Cmd("unsubscribe", v, list)
<1>2. cmd \in Commands /\ Accept(cmd)
  BY CmdTypes DEF Unsubscribe
<1>3. UNCHANGED <<subscribed, replies, invalid, subs, owner>>
  BY DEF Unsubscribe, cbs
<1>. HIDE DEF cmd
<1>4. /\ cmds' \in Seq(Commands) /\ Len(ran') = Len(cmds')
      /\ ran' \in Seq(Seq(Given)) /\ obuf' \in Seq(Commands) /\ wantWrite' = TRUE
      /\ UNCHANGED <<pc, connected, disconnecting, freeing, err, wantRead, requests, wire,
                     closed, serving, inbox, messages, faults>>
  BY <1>2, AcceptTypes DEF Types
<1>. QED  BY <1>3, <1>4 DEF Types

\* The steps of the client and the event loop that leave all but flags alone.
LEMMA FlagStepTypes ==
    ASSUME Types, ClientDisconnects \/ ClientFrees \/ HandleConnect \/ ReadEnd \/ IOFails
                  \/ ProcessNone \/ CallbackReturns \/ Freed
    PROVE  /\ Types'
           /\ UNCHANGED <<replies, invalid, subs, cmds, ran, owner, obuf, requests, wire, inbox,
                          serving, closed, subscribed>>
<1>1. UNCHANGED <<replies, invalid, subs, cmds, ran, owner, obuf, requests, wire, inbox, serving,
                  closed, subscribed, messages>>
  BY DEF ClientDisconnects, ClientFrees, HandleConnect, ReadEnd, IOFails, ProcessNone,
         CallbackReturns, Freed, cbs, record, server, counts, flags, events
<1>2. faults' \in 0..MaxFaults
  <2>1. faults' = faults \/ Fault
    BY DEF ClientDisconnects, ClientFrees, HandleConnect, ReadEnd, IOFails, ProcessNone,
           CallbackReturns, Freed, counts
  <2>2. MaxFaults \in Nat /\ faults \in 0..MaxFaults
    BY AsyncAssumption DEF Types
  <2>. QED  BY <2>1, <2>2 DEF Fault
<1>3. /\ pc' \in {"loop", "process", "callback", "freeing", "nullreply", "freed", "aborted", "undefined"}
      /\ connected' \in BOOLEAN /\ disconnecting' \in BOOLEAN /\ freeing' \in BOOLEAN
      /\ err' \in BOOLEAN /\ wantRead' \in BOOLEAN /\ wantWrite' \in BOOLEAN
  BY DEF ClientDisconnects, ClientFrees, HandleConnect, ReadEnd, IOFails, ProcessNone,
         CallbackReturns, Freed, flags, events, Disconnect, Types
<1>. QED  BY <1>1, <1>2, <1>3 DEF Types

\* Reads and writes move what is under way, and lose none of it.
LEMMA TransferStepTypes ==
    ASSUME Types, (\E n \in 0..Len(wire) : Read(n)) \/ (\E n \in 0..Len(obuf) : Write(n))
    PROVE  /\ Types'
           /\ inbox' \o wire' = inbox \o wire /\ requests' \o obuf' = requests \o obuf
           /\ UNCHANGED <<replies, invalid, subs, cmds, ran, owner, serving, closed, subscribed,
                          disconnecting, freeing>>
<1>1. CASE \E n \in 0..Len(wire) : Read(n)
  <2>1. PICK n \in 0..Len(wire) : Read(n)
    BY <1>1
  <2>2. /\ inbox' = inbox \o SubSeq(wire, 1, n) /\ wire' = SubSeq(wire, n + 1, Len(wire))
        /\ pc' = "process"
        /\ UNCHANGED <<flags, events, cbs, obuf, requests, closed, serving, counts, record>>
    BY <2>1 DEF Read
  <2>3. PICK a \in Seq(Replies), b \in Seq(Replies) :
            a = SubSeq(wire, 1, n) /\ b = SubSeq(wire, n + 1, Len(wire)) /\ a \o b = wire
    <3>1. wire \in Seq(Replies)
      BY DEF Types
    <3>2. /\ SubSeq(wire, 1, n) \in Seq(Replies) /\ SubSeq(wire, n + 1, Len(wire)) \in Seq(Replies)
          /\ SubSeq(wire, 1, n) \o SubSeq(wire, n + 1, Len(wire)) = wire
      BY <2>1, <3>1, TakenApart
    <3>. QED  BY <3>2, Zenon
  <2>4. inbox \in Seq(Replies) /\ inbox \o a \in Seq(Replies) /\ (inbox \o a) \o b = inbox \o (a \o b)
    <3>1. inbox \in Seq(Replies)
      BY DEF Types
    <3>2. inbox \o a \in Seq(Replies)
      BY <3>1, ConcatProperties
    <3>3. (inbox \o a) \o b = inbox \o (a \o b)
      BY <3>1, ConcatAssociative
    <3>. QED  BY <3>1, <3>2, <3>3
  <2>5. inbox' = inbox \o a /\ wire' = b
    BY <2>2, <2>3
  <2>6. /\ Types'
        /\ UNCHANGED <<replies, invalid, subs, cmds, ran, owner, serving, closed, subscribed,
                       disconnecting, freeing, requests, obuf>>
    BY <2>2, <2>4, <2>5 DEF Types, flags, events, cbs, counts, record
  <2>7. inbox' \o wire' = inbox \o wire
    BY <2>3, <2>4, <2>5
  <2>. QED  BY <2>6, <2>7
<1>2. CASE \E n \in 0..Len(obuf) : Write(n)
  <2>1. PICK n \in 0..Len(obuf) : Write(n)
    BY <1>2
  <2>2. /\ requests' = requests \o SubSeq(obuf, 1, n) /\ obuf' = SubSeq(obuf, n + 1, Len(obuf))
        /\ wantWrite' \in BOOLEAN /\ wantRead' = TRUE
        /\ UNCHANGED <<pc, flags, err, cbs, wire, closed, serving, inbox, counts, record>>
    BY <2>1 DEF Write
  <2>3. PICK a \in Seq(Commands), b \in Seq(Commands) :
            a = SubSeq(obuf, 1, n) /\ b = SubSeq(obuf, n + 1, Len(obuf)) /\ a \o b = obuf
    <3>1. obuf \in Seq(Commands)
      BY DEF Types
    <3>2. /\ SubSeq(obuf, 1, n) \in Seq(Commands) /\ SubSeq(obuf, n + 1, Len(obuf)) \in Seq(Commands)
          /\ SubSeq(obuf, 1, n) \o SubSeq(obuf, n + 1, Len(obuf)) = obuf
      BY <2>1, <3>1, TakenApart
    <3>. QED  BY <3>2, Zenon
  <2>4. /\ requests \in Seq(Commands) /\ requests \o a \in Seq(Commands)
        /\ (requests \o a) \o b = requests \o (a \o b)
    <3>1. requests \in Seq(Commands)
      BY DEF Types
    <3>2. requests \o a \in Seq(Commands)
      BY <3>1, ConcatProperties
    <3>3. (requests \o a) \o b = requests \o (a \o b)
      BY <3>1, ConcatAssociative
    <3>. QED  BY <3>1, <3>2, <3>3
  <2>5. requests' = requests \o a /\ obuf' = b
    BY <2>2, <2>3
  <2>6. /\ Types'
        /\ UNCHANGED <<replies, invalid, subs, cmds, ran, owner, serving, closed, subscribed,
                       disconnecting, freeing, wire, inbox>>
    BY <2>2, <2>4, <2>5 DEF Types, flags, cbs, counts, record
  <2>7. requests' \o obuf' = requests \o obuf
    BY <2>3, <2>4, <2>5
  <2>. QED  BY <2>6, <2>7
<1>. QED  BY <1>1, <1>2

LEMMA TakenTypes ==
    ASSUME Types, Taken
    PROVE  /\ inbox # <<>> /\ Head(inbox) \in Replies /\ inbox' = Tail(inbox) /\ inbox' \in Seq(Replies)
           /\ pc = "process"
           /\ UNCHANGED <<connected, freeing, wantRead, wantWrite, obuf, requests, wire, closed,
                          serving, messages, faults, cmds>>
<1>1. inbox # <<>> /\ inbox' = Tail(inbox) /\ inbox \in Seq(Replies)
  BY DEF Taken, Types
<1>. QED  BY <1>1, HeadTailProperties DEF Taken, server, counts

LEMMA ProcessReplyTypes ==
    ASSUME Types, ProcessReply
    PROVE  /\ Types'
           /\ replies # <<>> /\ pc' = "callback" /\ replies' = Tail(replies)
           /\ ran' = [ran EXCEPT ![Head(replies)] = Append(@, Head(inbox))]
           /\ UNCHANGED <<disconnecting, subscribed, err, invalid, subs, owner>>
<1>1. /\ replies # <<>> /\ pc' = "callback" /\ replies' = Tail(replies)
      /\ ran' = [ran EXCEPT ![Head(replies)] = Append(@, Head(inbox))]
      /\ UNCHANGED <<disconnecting, subscribed, err, invalid, subs, owner>> /\ Taken
  BY DEF ProcessReply, Run, NextCallback
<1>2. Head(inbox) \in Given
  BY <1>1, TakenTypes DEF Given
<1>3. ran' \in Seq(Seq(Given)) /\ Len(ran') = Len(ran)
  BY <1>1, <1>2, RanChanged
<1>4. replies' \in Seq(Nat \ {0})
  BY <1>1, HeadTailProperties DEF Types
<1>. QED  BY <1>1, <1>3, <1>4, TakenTypes DEF Types

LEMMA ProcessErrorTypes ==
    ASSUME Types, ProcessError
    PROVE  Types' /\ pc' = "freeing" /\ disconnecting'
           /\ UNCHANGED <<freeing, subscribed, replies, invalid, subs, ran, owner, cmds>>
<1>1. /\ Taken /\ pc' = "freeing" /\ disconnecting' = TRUE /\ err' = TRUE
      /\ UNCHANGED <<subscribed, replies, invalid, subs, ran, owner>>
  BY DEF ProcessError, Disconnect, cbs, Types
<1>. QED  BY <1>1, TakenTypes DEF Types

\* The callback that ProcessMessage runs, 0 for none.
MessageCallback ==
    LET reply == Head(inbox)
        stray == reply.type = "reply"
    IN  CASE subscribed /\ stray /\ invalid # <<>> -> Head(invalid)
          [] subscribed /\ ~stray -> dictFind(subs[reply.v], reply.channel)
          [] OTHER -> 0

LEMMA ProcessMessageTypes ==
    ASSUME Types, ProcessMessage
    PROVE  /\ Types' /\ Taken /\ replies = <<>> /\ Head(inbox).type # "error"
           /\ UNCHANGED <<disconnecting, err, replies>>
           /\ MessageCallback = 0 => /\ pc' = IF subscribed THEN "undefined" ELSE "aborted"
                                     /\ UNCHANGED <<subscribed, invalid, subs, ran, owner>>
           /\ MessageCallback # 0 =>
                /\ pc' = "callback" /\ subscribed' = ~LastUnsubscribe(Head(inbox))
                /\ ran' = [ran EXCEPT ![MessageCallback] = Append(@, Head(inbox))]
                /\ invalid' = IF Head(inbox).type = "reply" THEN Tail(invalid) ELSE invalid
                /\ Head(inbox).type # "unsubscribe" => UNCHANGED <<subs, owner>>
                /\ Head(inbox).type = "unsubscribe" =>
                     /\ Head(inbox).v \in Variants /\ Head(inbox).channel \in Channels
                     /\ owner' = [owner EXCEPT ![Head(inbox).v][Head(inbox).channel] = 0]
                     /\ \A w \in Variants, k \in Keys : dictFind(subs'[w], k) =
                           IF w = Head(inbox).v /\ k = Head(inbox).channel THEN 0
                           ELSE dictFind(subs[w], k)
<1>1. /\ Taken /\ replies = <<>> /\ Head(inbox).type # "error"
      /\ UNCHANGED <<disconnecting, err, replies>>
  BY DEF ProcessMessage
<1>2. PICK reply \in Replies : reply = Head(inbox)
  BY <1>1, TakenTypes
<1>3. PICK cb : cb = MessageCallback
  OBVIOUS
<1>4. IF cb = 0
      THEN /\ pc' = IF subscribed THEN "undefined" ELSE "aborted"
           /\ UNCHANGED <<subscribed, invalid, subs, ran, owner>>
      ELSE /\ Run(cb, reply, "callback")
           /\ invalid' = IF reply.type = "reply" THEN Tail(invalid) ELSE invalid
           /\ subscribed' = ~LastUnsubscribe(reply)
           /\ IF reply.type = "unsubscribe"
              THEN /\ subs' = [subs EXCEPT ![reply.v] = dictDelete(@, reply.channel)]
                   /\ owner' = [owner EXCEPT ![reply.v][reply.channel] = 0]
              ELSE UNCHANGED <<subs, owner>>
  BY <1>2, <1>3 DEF ProcessMessage, MessageCallback
<1>5. CASE cb = 0
  <2>1. Types'
    BY <1>1, <1>4, <1>5, TakenTypes DEF Types
  <2>. QED  BY <1>1, <1>3, <1>4, <1>5, <2>1
<1>6. CASE cb # 0
  <2>1. /\ pc' = "callback" /\ subscribed' = ~LastUnsubscribe(reply)
        /\ ran' = [ran EXCEPT ![cb] = Append(@, reply)]
        /\ invalid' = IF reply.type = "reply" THEN Tail(invalid) ELSE invalid
    BY <1>4, <1>6 DEF Run
  <2>2. ran' \in Seq(Seq(Given)) /\ Len(ran') = Len(ran)
    BY <1>2, <2>1, RanChanged DEF Given
  <2>3. reply.type = "reply" => invalid # <<>>
    BY <1>2, <1>3, <1>6 DEF MessageCallback
  <2>4. invalid' \in Seq(Nat \ {0})
    BY <2>1, <2>3, HeadTailProperties DEF Types
  <2>5. subscribed' \in BOOLEAN
    BY <2>1 DEF LastUnsubscribe
  <2>6. CASE reply.type # "unsubscribe"
    <3>1. UNCHANGED <<subs, owner>>
      BY <1>4, <1>6, <2>6
    <3>2. Types'
      BY <1>1, <2>1, <2>2, <2>4, <2>5, <3>1, TakenTypes DEF Types
    <3>. QED  BY <1>1, <1>2, <1>3, <1>6, <2>1, <2>6, <3>1, <3>2
  <2>7. CASE reply.type = "unsubscribe"
    <3>1. reply.v \in Variants /\ reply.channel \in Channels
      BY <2>7 DEF Replies, Answers, Pushes
    <3>2. /\ subs' = [subs EXCEPT ![reply.v] = dictDelete(@, reply.channel)]
          /\ owner' = [owner EXCEPT ![reply.v][reply.channel] = 0]
      BY <1>4, <1>6, <2>7
    <3>3. PICK e : e = dictDelete(subs[reply.v], reply.channel)
      OBVIOUS
    <3>4. /\ Sound(e)
          /\ \A k \in Keys : dictFind(e, k) = IF k = reply.channel THEN 0 ELSE dictFind(subs[reply.v], k)
      <4>1. Sound(subs[reply.v]) /\ reply.channel \in Keys
        BY <3>1, FiniteChannels DEF Types
      <4>. QED  BY <3>3, <4>1, DeleteSound
    <3>5. e \in Dicts /\ subs \in [Variants -> Dicts]
      BY <3>4 DEF Sound, IsDict, Dicts, Types
    <3>6. subs' \in [Variants -> Dicts] /\ \A w \in Variants : subs'[w] = IF w = reply.v THEN e ELSE subs[w]
      BY <3>1, <3>2, <3>3, <3>5
    <3>7. \A w \in Variants : Sound(subs'[w])
      BY <3>4, <3>6 DEF Types
    <3>8. owner' \in [Variants -> [Channels -> Nat]]
      BY <3>1, <3>2 DEF Types
    <3>9. Types'
      BY <1>1, <2>1, <2>2, <2>4, <2>5, <3>6, <3>7, <3>8, TakenTypes DEF Types
    <3>10. \A w \in Variants, k \in Keys : dictFind(subs'[w], k) =
               IF w = reply.v /\ k = reply.channel THEN 0 ELSE dictFind(subs[w], k)
      BY <3>4, <3>6
    <3>. QED  BY <1>1, <1>2, <1>3, <1>6, <2>1, <2>7, <3>1, <3>2, <3>9, <3>10
  <2>. QED  BY <2>6, <2>7
<1>. QED  BY <1>5, <1>6

LEMMA CommandParts ==
    ASSUME NEW cmd \in Commands
    PROVE  /\ cmd.op \in {"command", "subscribe", "unsubscribe"} /\ cmd.id \in Nat
           /\ cmd.op # "command" =>
                /\ cmd.v \in Variants /\ cmd.list \in Lists
                /\ Len(cmd.list) \in Nat \ {0} /\ DOMAIN cmd.list = 1 .. Len(cmd.list)
                /\ \A i \in 1 .. Len(cmd.list) : cmd.list[i] \in Channels
<1>1. /\ cmd.op \in {"command", "subscribe", "unsubscribe"} /\ cmd.id \in Nat
      /\ cmd.op # "command" => cmd.v \in Variants /\ cmd.list \in Lists
  BY DEF Commands
<1>2. ASSUME cmd.op # "command"
      PROVE  /\ Len(cmd.list) \in Nat \ {0} /\ DOMAIN cmd.list = 1 .. Len(cmd.list)
             /\ \A i \in 1 .. Len(cmd.list) : cmd.list[i] \in Channels
  <2>1. PICK list \in Lists : list = cmd.list
    BY <1>1, <1>2
  <2>2. list \in Seq(Channels) /\ list # <<>>
    BY FiniteChannels, AsyncAssumption
  <2>3. Len(list) \in Nat \ {0} /\ DOMAIN list = 1 .. Len(list)
    BY <2>2, LenProperties, EmptySeq
  <2>4. \A i \in 1 .. Len(list) : list[i] \in Channels
    BY <2>2, ElementOfSeq
  <2>. QED  BY <2>1, <2>3, <2>4
<1>. QED  BY <1>1, <1>2

LEMMA AcksTypes ==
    ASSUME NEW cmd \in Commands, cmd.op # "command", NEW still \in SUBSET (Variants \X Channels)
    PROVE  /\ Acks(cmd, still) \in Seq(Replies) /\ Len(Acks(cmd, still)) = Len(cmd.list)
           /\ \A i \in 1 .. Len(cmd.list) :
                /\ Acks(cmd, still)[i].type = cmd.op /\ Acks(cmd, still)[i].v = cmd.v
                /\ Acks(cmd, still)[i].channel = cmd.list[i]
                /\ cmd.op = "unsubscribe" =>
                      (Acks(cmd, still)[i].left = 0 <=> still = {} /\ i = Len(cmd.list))
<1>. DEFINE Rest(i) == IF cmd.op = "subscribe" THEN {<<cmd.v, cmd.list[j]>> : j \in 1..i}
                       ELSE {<<cmd.v, cmd.list[j]>> : j \in i + 1 .. Len(cmd.list)}
            left(i) == Cardinality(still \union Rest(i))
            acks == Acks(cmd, still)
<1>1. PICK l \in Nat \ {0} : /\ l = Len(cmd.list) /\ DOMAIN cmd.list = 1 .. l
                             /\ \A i \in 1 .. l : cmd.list[i] \in Channels
  BY CommandParts
<1>2. cmd.v \in Variants /\ cmd.op \in {"subscribe", "unsubscribe"} /\ cmd.id \in Nat
  BY CommandParts
<1>3. ASSUME NEW i \in 1 .. l
      PROVE  /\ IsFiniteSet(still \union Rest(i)) /\ left(i) \in Nat
             /\ cmd.op = "unsubscribe" => (left(i) = 0 <=> still = {} /\ i = l)
  <2>1. Rest(i) \subseteq Variants \X Channels
    <3>1. \A j \in i + 1 .. l : j \in 1 .. l
      OBVIOUS
    <3>2. \A j \in 1 .. i : j \in 1 .. l
      OBVIOUS
    <3>. QED  BY <1>1, <1>2, <3>1, <3>2
  <2>. HIDE DEF Rest
  <2>2. still \union Rest(i) \in SUBSET (Variants \X Channels)
    BY <2>1
  <2>3. IsFiniteSet(still \union Rest(i))
    BY <2>2, FiniteChannels, FS_Subset
  <2>4. left(i) \in Nat /\ (left(i) = 0 <=> still \union Rest(i) = {})
    BY <2>3, FS_CardinalityType, FS_EmptySet
  <2>5. ASSUME cmd.op = "unsubscribe"
        PROVE  Rest(i) = {} <=> i = l
    <3>1. Rest(i) = {<<cmd.v, cmd.list[j]>> : j \in i + 1 .. l}
      BY <2>5, <1>1 DEF Rest
    <3>2. i + 1 .. l = {} <=> i = l
      OBVIOUS
    <3>. QED  BY <3>1, <3>2
  <2>. QED  BY <2>3, <2>4, <2>5
<1>4. \A i \in 1 .. l : acks[i] = Reply(cmd.op, cmd.id, cmd.v, cmd.list[i], left(i))
  BY <1>1 DEF Acks
<1>5. acks = [i \in 1 .. l |-> acks[i]]
  BY <1>1 DEF Acks
<1>. HIDE DEF acks, left, Rest
<1>6. ASSUME NEW i \in 1 .. l
      PROVE  /\ acks[i] \in Replies
             /\ acks[i].type = cmd.op /\ acks[i].v = cmd.v /\ acks[i].channel = cmd.list[i]
             /\ acks[i].left = left(i)
  <2>1. acks[i] = [type |-> cmd.op, id |-> cmd.id, v |-> cmd.v, channel |-> cmd.list[i],
                   left |-> left(i)]
    BY <1>4 DEF Reply
  <2>2. left(i) \in Nat /\ cmd.list[i] \in Channels
    BY <1>1, <1>3
  <2>3. acks[i] \in Pushes
    BY <2>1, <2>2, <1>2 DEF Pushes
  <2>. QED  BY <2>1, <2>3 DEF Replies
<1>7. acks \in [1 .. l -> Replies]
  BY <1>5, <1>6
<1>8. acks \in Seq(Replies) /\ Len(acks) = l
  <2>1. acks \in Seq(Replies)
    BY <1>7, SeqDef
  <2>2. Len(acks) \in Nat /\ DOMAIN acks = 1 .. Len(acks)
    BY <2>1, LenProperties
  <2>3. DOMAIN acks = 1 .. l
    BY <1>7
  <2>4. PICK k \in Nat : k = Len(acks)
    BY <2>2
  <2>5. l \in 1 .. k /\ l \in Nat \ {0}
    BY <1>1, <2>2, <2>3, <2>4
  <2>6. k \in 1 .. l
    BY <1>1, <2>2, <2>3, <2>4, <2>5
  <2>. QED  BY <2>1, <2>4, <2>5, <2>6
<1>. QED  BY <1>1, <1>3, <1>6, <1>8 DEF acks

LEMMA FreeReplyTypes ==
    ASSUME Types, FreeReply
    PROVE  /\ Types' /\ replies \o invalid # <<>>
           /\ ran' = [ran EXCEPT ![Head(replies \o invalid)] = Append(@, NullReply)]
           /\ IF replies # <<>> THEN replies' = Tail(replies) /\ UNCHANGED invalid
              ELSE invalid # <<>> /\ invalid' = Tail(invalid) /\ UNCHANGED replies
           /\ pc' = "nullreply" /\ UNCHANGED <<flags, subs, cmds, owner>>
<1>1. /\ replies \o invalid # <<>>
      /\ ran' = [ran EXCEPT ![Head(replies \o invalid)] = Append(@, NullReply)]
      /\ IF replies # <<>> THEN replies' = Tail(replies) /\ UNCHANGED invalid
                           ELSE invalid' = Tail(invalid) /\ UNCHANGED replies
      /\ pc' = "nullreply"
      /\ UNCHANGED <<flags, events, subs, obuf, server, inbox, counts, cmds, owner>>
  BY DEF FreeReply, Run
<1>2. replies \in Seq(Nat \ {0}) /\ invalid \in Seq(Nat \ {0})
  BY DEF Types
<1>3. replies = <<>> => invalid # <<>>
  BY <1>1, <1>2, ConcatEmptySeq
<1>4. ran' \in Seq(Seq(Given)) /\ Len(ran') = Len(ran)
  BY <1>1, NullGiven, RanChanged
<1>5. replies' \in Seq(Nat \ {0}) /\ invalid' \in Seq(Nat \ {0})
  <2>1. replies # <<>> => Tail(replies) \in Seq(Nat \ {0})
    BY <1>2, HeadTailProperties
  <2>2. invalid # <<>> => Tail(invalid) \in Seq(Nat \ {0})
    BY <1>2, HeadTailProperties
  <2>. QED  BY <1>1, <1>2, <1>3, <2>1, <2>2
<1>6. UNCHANGED <<connected, disconnecting, freeing, subscribed, err, wantRead, wantWrite, subs, obuf,
                  requests, wire, closed, serving, inbox, messages, faults, cmds, owner>>
  BY <1>1 DEF flags, events, server, counts
<1>7. Types'
  BY <1>1, <1>4, <1>5, <1>6 DEF Types
<1>. QED  BY <1>1, <1>3, <1>7

LEMMA FreeSubscriptionTypes ==
    ASSUME Types, FreeSubscription
    PROVE  /\ Types' /\ pc' = "nullreply"
           /\ UNCHANGED <<flags, replies, invalid, cmds, owner>>
           /\ \E v \in Variants, k \in Keys, cb \in Nat \ {0} :
                /\ dictFind(subs[v], k) = cb
                /\ ran' = [ran EXCEPT ![cb] = Append(@, NullReply)]
                /\ \A w \in Variants, x \in Keys : dictFind(subs'[w], x) =
                      IF w = v /\ x = k THEN 0 ELSE dictFind(subs[w], x)
<1>1. PICK v \in Variants : /\ Entries(subs[v]) # <<>>
                            /\ Run(Head(Entries(subs[v])).val, NullReply, "nullreply")
                            /\ subs' = [subs EXCEPT ![v] = dictDelete(@, Head(Entries(subs[v])).key)]
  BY DEF FreeSubscription
<1>2. UNCHANGED <<flags, events, replies, invalid, obuf, server, inbox, counts, cmds, owner>>
  BY DEF FreeSubscription
<1>3. Sound(subs[v]) /\ subs \in [Variants -> Dicts]
  BY <1>1 DEF Types
<1>4. PICK k \in Keys, cb \in Nat \ {0} : /\ k = Head(Entries(subs[v])).key
                                          /\ cb = Head(Entries(subs[v])).val
                                          /\ dictFind(subs[v], k) = cb
  BY <1>1, <1>3, EntriesFound DEF Entry
<1>5. PICK e : e = dictDelete(subs[v], k)
  OBVIOUS
<1>6. /\ Sound(e)
      /\ \A x \in Keys : dictFind(e, x) = IF x = k THEN 0 ELSE dictFind(subs[v], x)
  BY <1>3, <1>5, DeleteSound
<1>7. e \in Dicts
  BY <1>6 DEF Sound, IsDict, Dicts
<1>8. subs' \in [Variants -> Dicts] /\ \A w \in Variants : subs'[w] = IF w = v THEN e ELSE subs[w]
  BY <1>1, <1>3, <1>4, <1>5, <1>7
<1>9. \A w \in Variants : Sound(subs'[w])
  BY <1>6, <1>8 DEF Types
<1>10. ran' = [ran EXCEPT ![cb] = Append(@, NullReply)] /\ pc' = "nullreply"
  BY <1>1, <1>4 DEF Run
<1>11. ran' \in Seq(Seq(Given)) /\ Len(ran') = Len(ran)
  BY <1>10, NullGiven, RanChanged
<1>12. Types'
  BY <1>2, <1>8, <1>9, <1>10, <1>11 DEF Types, flags, events, server, counts
<1>13. \A w \in Variants, x \in Keys : dictFind(subs'[w], x) =
           IF w = v /\ x = k THEN 0 ELSE dictFind(subs[w], x)
  BY <1>6, <1>8
<1>. QED  BY <1>1, <1>2, <1>4, <1>10, <1>12, <1>13

\* The server: what it appends to the wire.
LEMMA ExecuteTypes ==
    ASSUME Types, Execute
    PROVE  /\ Types' /\ ~closed /\ requests # <<>> /\ requests' = Tail(requests)
           /\ Head(requests) \in Commands
           /\ \/ /\ Head(requests).op = "command" /\ serving' = serving
                 /\ \E type \in {"reply", "error"} :
                       wire' = Append(wire, Reply(type, Head(requests).id, "", "", 0))
              \/ /\ Head(requests).op # "command"
                 /\ LET cmd == Head(requests)
                        args == {<<cmd.v, c>> : c \in Range(cmd.list)}
                        still == IF cmd.op = "subscribe" THEN serving ELSE serving \ args
                    IN  /\ wire' = wire \o Acks(cmd, still)
                        /\ serving' = IF cmd.op = "subscribe" THEN serving \union args
                                      ELSE serving \ args
           /\ UNCHANGED <<Client, closed>>
<1>1. PICK cmd : cmd = Head(requests)
  OBVIOUS
<1>2. ~closed /\ requests # <<>> /\ requests' = Tail(requests) /\ requests \in Seq(Commands)
  BY DEF Execute, Types
<1>3. cmd \in Commands /\ requests' \in Seq(Commands)
  BY <1>1, <1>2, HeadTailProperties
<1>4. UNCHANGED <<Client, closed, counts>>
  BY DEF Execute
<1>. DEFINE args == {<<cmd.v, c>> : c \in Range(cmd.list)}
            still == IF cmd.op = "subscribe" THEN serving ELSE serving \ args
<1>5. wire \in Seq(Replies) /\ serving \subseteq Variants \X Channels
  BY DEF Types
<1>6. CASE /\ cmd.op = "command" /\ serving' = serving
           /\ \E type \in {"reply", "error"} : wire' = Append(wire, Reply(type, cmd.id, "", "", 0))
  <2>1. PICK type \in {"reply", "error"} : wire' = Append(wire, Reply(type, cmd.id, "", "", 0))
    BY <1>6
  <2>2. Reply(type, cmd.id, "", "", 0) \in Replies
    BY <1>3, CommandParts DEF Reply, Replies, Answers
  <2>3. wire' \in Seq(Replies)
    <3>1. PICK x \in Replies : x = Reply(type, cmd.id, "", "", 0)
      BY <2>2
    <3>2. wire' = Append(wire, x)
      BY <2>1, <3>1
    <3>. QED  BY <1>5, <3>2, AppendProperties
  <2>4. UNCHANGED <<pc, connected, disconnecting, freeing, subscribed, err, wantRead, wantWrite, replies,
                    invalid, subs, obuf, inbox, cmds, ran, owner, closed, messages, faults>>
    BY <1>4 DEF Client, flags, events, cbs, record, counts
  <2>5. serving' = serving
    BY <1>6
  <2>6. Types'
    BY <1>3, <2>3, <2>4, <2>5 DEF Types
  <2>. QED  BY <1>1, <1>2, <1>3, <1>4, <1>6, <2>6
<1>7. CASE /\ cmd.op # "command"
           /\ wire' = wire \o Acks(cmd, still)
           /\ serving' = IF cmd.op = "subscribe" THEN serving \union args ELSE serving \ args
  <2>1. still \in SUBSET (Variants \X Channels)
    BY <1>5
  <2>2. Acks(cmd, still) \in Seq(Replies)
    BY <1>3, <1>7, <2>1, AcksTypes
  <2>3. wire' \in Seq(Replies)
    BY <1>5, <1>7, <2>2, ConcatProperties
  <2>4. args \subseteq Variants \X Channels
    BY <1>3, <1>7, CommandParts, FiniteChannels
  <2>5. serving' \subseteq Variants \X Channels
    BY <1>5, <1>7, <2>4
  <2>6. Types'
    BY <1>3, <1>4, <2>3, <2>5 DEF Types, Client, flags, events, cbs, record, counts
  <2>. QED  BY <1>1, <1>2, <1>3, <1>4, <1>7, <2>6
<1>8. \/ /\ cmd.op = "command" /\ serving' = serving
         /\ \E type \in {"reply", "error"} : wire' = Append(wire, Reply(type, cmd.id, "", "", 0))
      \/ /\ cmd.op # "command"
         /\ wire' = wire \o Acks(cmd, still)
         /\ serving' = IF cmd.op = "subscribe" THEN serving \union args ELSE serving \ args
  BY <1>1 DEF Execute
<1>. QED  BY <1>6, <1>7, <1>8

LEMMA PublishTypes ==
    ASSUME Types, Publish
    PROVE  /\ Types' /\ ~closed
           /\ \E s \in serving : /\ wire' = Append(wire, Reply("message", 0, s[1], s[2], 0))
                                 /\ Reply("message", 0, s[1], s[2], 0) \in Replies
           /\ UNCHANGED <<Client, requests, closed, serving>>
<1>1. PICK s \in serving : wire' = Append(wire, Reply("message", 0, s[1], s[2], 0))
  BY DEF Publish
<1>2. /\ ~closed /\ messages' = messages + 1 /\ messages < MaxMessages
      /\ UNCHANGED <<Client, requests, closed, serving, faults>>
  BY DEF Publish
<1>3. Reply("message", 0, s[1], s[2], 0) \in Replies
  BY <1>1 DEF Types, Reply, Replies, Pushes
<1>4. wire' \in Seq(Replies)
  BY <1>1, <1>3, AppendProperties DEF Types
<1>5. messages' \in 0..MaxMessages
  <2>1. MaxMessages \in Nat /\ messages \in 0..MaxMessages
    BY AsyncAssumption DEF Types
  <2>. QED  BY <1>2, <2>1
<1>6. Types'
  BY <1>2, <1>4, <1>5 DEF Types, Client, flags, events, cbs, record
<1>. QED  BY <1>1, <1>2, <1>3, <1>6

LEMMA CloseTypes ==
    ASSUME Types, Close
    PROVE  /\ Types' /\ ~closed /\ closed'
           /\ \/ wire' = wire
              \/ requests = <<>> /\ wire = <<>> /\ wire' = <<Reply("error", 0, "", "", 0)>>
           /\ UNCHANGED <<Client, requests, serving>>
<1>1. /\ ~closed /\ closed' = TRUE /\ Fault
      /\ wire' \in {wire} \union
             IF requests \o wire = <<>> THEN {<<Reply("error", 0, "", "", 0)>>} ELSE {}
      /\ UNCHANGED <<Client, requests, serving, messages>>
  BY DEF Close
<1>2. faults' \in 0..MaxFaults
  <2>1. MaxFaults \in Nat /\ faults \in 0..MaxFaults
    BY AsyncAssumption DEF Types
  <2>2. faults < MaxFaults /\ faults' = faults + 1
    BY <1>1 DEF Fault
  <2>. QED  BY <2>1, <2>2
<1>3. requests \in Seq(Commands) /\ wire \in Seq(Replies)
  BY DEF Types
<1>4. requests \o wire = <<>> => requests = <<>> /\ wire = <<>>
  <2>1. requests \in Seq(Commands \union Replies) /\ wire \in Seq(Commands \union Replies)
    BY <1>3, SeqMonotonic
  <2>. QED  BY <2>1, ConcatEqualIffEmpty
<1>5. \/ wire' = wire
      \/ requests = <<>> /\ wire = <<>> /\ wire' = <<Reply("error", 0, "", "", 0)>>
  BY <1>1, <1>4
<1>6. wire' \in Seq(Replies)
  <2>1. Reply("error", 0, "", "", 0) \in Replies
    BY DEF Reply, Replies, Answers
  <2>2. PICK x \in Replies : x = Reply("error", 0, "", "", 0)
    BY <2>1
  <2>3. <<x>> \in Seq(Replies)
    OBVIOUS
  <2>. QED  BY <1>3, <1>5, <2>2, <2>3
<1>7. Types'
  BY <1>1, <1>2, <1>6 DEF Types, Client, flags, events, cbs, record
<1>. QED  BY <1>1, <1>5, <1>7

(***************************************************************************)
(* The inductive invariant.  In is what is under way to the client, Out    *)
(* what is under way to the server, Waiting the callbacks that wait for an *)
(* answer, and Owned what the client is subscribed to.                     *)
(***************************************************************************)
In == inbox \o wire
Out == requests \o obuf
Waiting == replies \o invalid
Owned == {s \in Variants \X Channels : owner[s[1]][s[2]] # 0}

On(x)   == <<x.v, x.channel>>
Args(x) == {<<x.v, c>> : c \in Range(x.list)}

IsAnswer(x)  == x.type \in {"reply", "error"} /\ x.id # 0
IsPush(x)    == x.type \in {"message", "subscribe", "unsubscribe"}
IsUnsub(x)   == x.type = "unsubscribe"
IsRefusal(x) == x.type = "error" /\ x.id = 0

\* The callbacks wait in the order of their commands.
Queue ==
    /\ \A i, k \in 1 .. Len(Waiting) : i < k => Waiting[i] < Waiting[k]
    /\ \A i \in 1 .. Len(Waiting) : Waiting[i] \in 1 .. Len(cmds) /\ cmds[Waiting[i]].op = "command"

\* Of two replies under way, what may come after what.
Follows(x, y) ==
    /\ IsUnsub(x) => /\ ~IsAnswer(y)
                     /\ IsPush(y) => On(y) # On(x)
                     /\ x.left = 0 => ~IsUnsub(y)
    /\ IsAnswer(x) /\ IsAnswer(y) => x.id < y.id
    /\ IsPush(x) /\ IsAnswer(y) => ~Among(y.id, replies)
    /\ ~IsRefusal(x)
InOrder == \A i, k \in 1 .. Len(In) : i < k => Follows(In[i], In[k])

\* A push finds its callback, an answer its own; the last reply to an UNSUBSCRIBE
\* finds nothing else under way.
Expected(x) ==
    /\ x.type = "reply" => x.id # 0
    /\ IsPush(x) => On(x) \in Owned
    /\ IsAnswer(x) => Among(x.id, Waiting) /\ \A j \in 1 .. Len(Out) : x.id < Out[j].id
    /\ IsUnsub(x) => Out = <<>> /\ On(x) \notin serving /\ (x.left = 0 => serving = {})
    /\ IsRefusal(x) => closed
AllExpected == \A i \in 1 .. Len(In) : Expected(In[i])

\* The reply that leaves nothing subscribed comes.
LastTold ==
    \A i \in 1 .. Len(In) : IsUnsub(In[i]) /\ In[i].left # 0 =>
        serving # {} \/ \E k \in 1 .. Len(In) : i < k /\ IsUnsub(In[k])

\* A request under way.
Requested(j) ==
    /\ Out[j].id \in 1 .. Len(cmds) /\ Out[j].op = cmds[Out[j].id].op
    /\ Out[j].op # "command" => Args(Out[j]) \subseteq Owned
    /\ Out[j].op = "unsubscribe" =>
          /\ j = Len(Out)
          /\ \A a, b \in 1 .. Len(Out[j].list) : Out[j].list[a] = Out[j].list[b] => a = b
    /\ Out[j].op = "command" /\ ~closed => Among(Out[j].id, Waiting)
    /\ Among(Out[j].id, replies) =>
          /\ serving = {} /\ \A i \in 1 .. Len(In) : ~IsPush(In[i])
          /\ \A k \in 1 .. Len(Out) : k < j => Out[k].op # "subscribe"
    /\ \A k \in 1 .. Len(Out) : j < k => Out[j].id < Out[k].id
AllRequested == \A j \in 1 .. Len(Out) : Requested(j)

\* Nobody waits in vain.
Awaited ==
    \A q \in 1 .. Len(Waiting) :
        \/ \E i \in 1 .. Len(In) : IsAnswer(In[i]) /\ In[i].id = Waiting[q]
        \/ \E j \in 1 .. Len(Out) : Out[j].id = Waiting[q]

\* What the client is subscribed to: what the server serves, what it was left without
\* knowing it yet, and what it asked for.
Leaving(s) == \E i \in 1 .. Len(In) : IsUnsub(In[i]) /\ On(In[i]) = s
Coming(s)  == \E j \in 1 .. Len(Out) : Out[j].op = "subscribe" /\ s \in Args(Out[j])
Subscriptions ==
    /\ \A s \in Variants \X Channels : s \in Owned <=> s \in serving \/ Leaving(s) \/ Coming(s)
    /\ subscribed <=> Owned # {}
    /\ ~subscribed => invalid = <<>>

Flow == /\ InOrder /\ AllExpected /\ LastTold /\ AllRequested /\ Awaited /\ Subscriptions

Running == pc \in {"loop", "process", "callback"}
Over    == pc \in {"freeing", "nullreply", "freed"}

\* A context is freed when the client, or an error, asked for it.
Ending == Over => disconnecting \/ freeing

\* What the callback of each command was given.
Told ==
    /\ \A id \in 1 .. Len(cmds) : cmds[id].op = "command" =>
        /\ IF Among(id, Waiting) THEN ran[id] = <<>> ELSE Len(ran[id]) = 1
        /\ \A i \in 1 .. Len(ran[id]) : ran[id][i].id \in {id, 0}
    /\ pc = "freed" => Waiting = <<>>

\* The subscriptions, and what each of them was told at the end.
Owners ==
    \A v \in Variants, c \in Channels : owner[v][c] # 0 =>
        owner[v][c] \in 1 .. Len(cmds) /\ cmds[owner[v][c]].op = "subscribe"
Found ==
    \A v \in Variants, k \in Keys : dictFind(subs[v], k) # 0 =>
        k \in Channels /\ dictFind(subs[v], k) = owner[v][k]
Nulls(id)   == {i \in 1 .. Len(ran[id]) : ran[id][i].type = "null"}
BoundTo(id) == {s \in Variants \X Channels : dictFind(subs[s[1]], s[2]) = id}
OwnedBy(id) == {s \in Variants \X Channels : owner[s[1]][s[2]] = id}
Ended ==
    /\ \A id \in 1 .. Len(cmds) : cmds[id].op = "subscribe" =>
          IF Over THEN Cardinality(Nulls(id)) + Cardinality(BoundTo(id)) = Cardinality(OwnedBy(id))
          ELSE Nulls(id) = {}
    /\ pc = "freed" => \A v \in Variants, k \in Keys : dictFind(subs[v], k) = 0

Consistent ==
    /\ Types /\ BoundToLast /\ Ending /\ Queue /\ Told /\ Owners /\ Found /\ Ended
    /\ RepliesExpected
    /\ Running => Flow

(***************************************************************************)
(* Queues: what is taken from the front and put at the end.                *)
(***************************************************************************)
LEMMA TakenFirst ==
    ASSUME NEW S, NEW s \in Seq(S), s # <<>>
    PROVE  /\ Len(s) \in Nat \ {0} /\ Head(s) = s[1] /\ Head(s) \in S /\ 1 \in 1 .. Len(s)
           /\ Tail(s) \in Seq(S) /\ Len(Tail(s)) = Len(s) - 1
           /\ \A i \in 1 .. Len(Tail(s)) : i + 1 \in 1 .. Len(s) /\ Tail(s)[i] = s[i + 1]
           /\ \A i \in 1 .. Len(s) : i # 1 => i - 1 \in 1 .. Len(Tail(s)) /\ Tail(s)[i - 1] = s[i]
<1>1. PICK l \in Nat \ {0} : l = Len(s)
  BY EmptySeq
<1>2. /\ Head(s) = s[1] /\ Head(s) \in S
      /\ Tail(s) \in Seq(S) /\ Len(Tail(s)) = l - 1
      /\ \A i \in 1 .. Len(Tail(s)) : Tail(s)[i] = s[i + 1]
  BY <1>1, HeadTailProperties
<1>3. \A i \in 1 .. l : i # 1 => i - 1 \in 1 .. l - 1 /\ (i - 1) + 1 = i
  BY <1>1
<1>. QED  BY <1>1, <1>2, <1>3

LEMMA PutLast ==
    ASSUME NEW S, NEW s \in Seq(S), NEW x \in S
    PROVE  /\ Append(s, x) \in Seq(S) /\ Len(s) \in Nat /\ Len(Append(s, x)) = Len(s) + 1
           /\ \A i \in 1 .. Len(s) : i \in 1 .. Len(s) + 1 /\ Append(s, x)[i] = s[i]
           /\ Len(s) + 1 \in 1 .. Len(s) + 1 /\ Append(s, x)[Len(s) + 1] = x
           /\ \A i \in 1 .. Len(s) + 1 : i \in 1 .. Len(s) \/ i = Len(s) + 1
<1>1. PICK l \in Nat : l = Len(s)
  BY LenProperties
<1>. QED  BY <1>1, AppendProperties

LEMMA Joined ==
    ASSUME NEW S, NEW s \in Seq(S), NEW t \in Seq(S)
    PROVE  /\ s \o t \in Seq(S) /\ Len(s) \in Nat /\ Len(t) \in Nat /\ Len(s \o t) = Len(s) + Len(t)
           /\ \A i \in 1 .. Len(s) : i \in 1 .. Len(s \o t) /\ (s \o t)[i] = s[i]
           /\ \A i \in 1 .. Len(t) : Len(s) + i \in 1 .. Len(s \o t) /\ (s \o t)[Len(s) + i] = t[i]
           /\ \A i \in 1 .. Len(s \o t) : \/ i \in 1 .. Len(s)
                                          \/ \E j \in 1 .. Len(t) : i = Len(s) + j
<1>1. PICK l \in Nat, m \in Nat : l = Len(s) /\ m = Len(t)
  BY LenProperties
<1>2. /\ s \o t \in Seq(S) /\ Len(s \o t) = l + m
      /\ \A i \in 1 .. l + m : (s \o t)[i] = IF i <= l THEN s[i] ELSE t[i - l]
  BY <1>1, ConcatProperties
<1>3. \A i \in 1 .. m : l + i \in 1 .. l + m /\ ~(l + i <= l) /\ (l + i) - l = i
  OBVIOUS
<1>4. \A i \in 1 .. l + m : i \in 1 .. l \/ (i - l \in 1 .. m /\ i = l + (i - l))
  OBVIOUS
<1>5. \A i \in 1 .. l : i \in 1 .. l + m /\ i <= l
  OBVIOUS
<1>. QED  BY <1>1, <1>2, <1>3, <1>4, <1>5

\* What is in a queue.
LEMMA AmongPut ==
    ASSUME NEW S, NEW s \in Seq(S), NEW x \in S
    PROVE  \A y : Among(y, Append(s, x)) <=> Among(y, s) \/ y = x
<1>. QED  BY PutLast DEF Among

LEMMA AmongTail ==
    ASSUME NEW S, NEW s \in Seq(S), s # <<>>
    PROVE  /\ Among(Head(s), s)
           /\ \A y : Among(y, Tail(s)) => Among(y, s)
           /\ \A y : Among(y, s) => y = Head(s) \/ Among(y, Tail(s))
<1>1. PICK t : t = Tail(s)
  OBVIOUS
<1>2. /\ Head(s) = s[1] /\ 1 \in 1 .. Len(s)
      /\ \A i \in 1 .. Len(t) : i + 1 \in 1 .. Len(s) /\ t[i] = s[i + 1]
      /\ \A i \in 1 .. Len(s) : i # 1 => i - 1 \in 1 .. Len(t) /\ t[i - 1] = s[i]
  BY <1>1, TakenFirst
<1>3. \A y : Among(y, t) => Among(y, s)
  BY <1>2 DEF Among
<1>4. \A y : Among(y, s) => y = Head(s) \/ Among(y, t)
  BY <1>2 DEF Among
<1>. QED  BY <1>1, <1>2, <1>3, <1>4 DEF Among

LEMMA AmongJoined ==
    ASSUME NEW S, NEW s \in Seq(S), NEW t \in Seq(S)
    PROVE  \A y : Among(y, s \o t) <=> Among(y, s) \/ Among(y, t)
<1>1. PICK u : u = s \o t
  OBVIOUS
<1>2. /\ \A i \in 1 .. Len(s) : i \in 1 .. Len(u) /\ u[i] = s[i]
      /\ \A i \in 1 .. Len(t) : Len(s) + i \in 1 .. Len(u) /\ u[Len(s) + i] = t[i]
      /\ \A i \in 1 .. Len(u) : i \in 1 .. Len(s) \/ \E j \in 1 .. Len(t) : i = Len(s) + j
  BY <1>1, Joined
<1>3. \A y : Among(y, u) => Among(y, s) \/ Among(y, t)
  <2>1. SUFFICES ASSUME NEW i \in 1 .. Len(u) PROVE Among(u[i], s) \/ Among(u[i], t)
    BY DEF Among
  <2>2. CASE i \in 1 .. Len(s)
    BY <1>2, <2>2 DEF Among
  <2>3. ASSUME NEW j \in 1 .. Len(t), i = Len(s) + j PROVE Among(u[i], t)
    BY <1>2, <2>3 DEF Among
  <2>. QED  BY <1>2, <2>2, <2>3
<1>4. \A y : Among(y, s) => Among(y, u)
  BY <1>2 DEF Among
<1>5. \A y : Among(y, t) => Among(y, u)
  BY <1>2 DEF Among
<1>. QED  BY <1>1, <1>3, <1>4, <1>5

\* Both ends of a queue of two parts.
LEMMA HeadJoined ==
    ASSUME NEW S, NEW s \in Seq(S), NEW t \in Seq(S)
    PROVE  /\ s # <<>> => s \o t # <<>> /\ Head(s \o t) = Head(s) /\ Tail(s \o t) = Tail(s) \o t
           /\ s = <<>> => s \o t = t
           /\ t = <<>> => s \o t = s
<1>1. CASE s # <<>>
  <2>1. PICK x \in S : x = Head(s)
    BY <1>1, HeadTailProperties
  <2>2. PICK u \in Seq(S) : u = Tail(s)
    BY <1>1, HeadTailProperties
  <2>3. s = <<x>> \o u
    BY <1>1, <2>1, <2>2
  <2>. QED  BY <1>1, <2>1, <2>2, <2>3, ConcatEmptySeq
<1>2. CASE s = <<>>
  BY <1>2, ConcatEmptySeq
<1>. QED  BY <1>1, <1>2, ConcatEmptySeq

LEMMA AppendJoined ==
    ASSUME NEW S, NEW s \in Seq(S), NEW t \in Seq(S), NEW x \in S
    PROVE  s \o Append(t, x) = Append(s \o t, x)
<1>1. Append(t, x) = t \o <<x>> /\ <<x>> \in Seq(S) /\ s \o t \in Seq(S)
  BY AppendIsConcat, ConcatProperties
<1>2. Append(s \o t, x) = (s \o t) \o <<x>>
  BY <1>1, AppendIsConcat
<1>. QED  BY <1>1, <1>2, ConcatAssociative

LEMMA Queues ==
    ASSUME Types
    PROVE  /\ In \in Seq(Replies) /\ Len(In) \in Nat /\ \A i \in 1 .. Len(In) : In[i] \in Replies
           /\ Out \in Seq(Commands) /\ Len(Out) \in Nat /\ \A j \in 1 .. Len(Out) : Out[j] \in Commands
           /\ Waiting \in Seq(Nat \ {0}) /\ Len(Waiting) \in Nat
           /\ \A q \in 1 .. Len(Waiting) : Waiting[q] \in Nat \ {0}
           /\ inbox \in Seq(Replies) /\ wire \in Seq(Replies)
           /\ requests \in Seq(Commands) /\ obuf \in Seq(Commands)
           /\ replies \in Seq(Nat \ {0}) /\ invalid \in Seq(Nat \ {0})
           /\ cmds \in Seq(Commands) /\ Len(cmds) \in Nat
           /\ \A y : Among(y, Waiting) <=> Among(y, replies) \/ Among(y, invalid)
<1>1. /\ inbox \in Seq(Replies) /\ wire \in Seq(Replies)
      /\ requests \in Seq(Commands) /\ obuf \in Seq(Commands)
      /\ replies \in Seq(Nat \ {0}) /\ invalid \in Seq(Nat \ {0})
      /\ cmds \in Seq(Commands)
  BY DEF Types
<1>2. In \in Seq(Replies)
  BY <1>1, ConcatProperties DEF In
<1>3. Out \in Seq(Commands)
  BY <1>1, ConcatProperties DEF Out
<1>4. Waiting \in Seq(Nat \ {0})
  BY <1>1, ConcatProperties DEF Waiting
<1>5. \A y : Among(y, Waiting) <=> Among(y, replies) \/ Among(y, invalid)
  BY <1>1, AmongJoined DEF Waiting
<1>. QED  BY <1>1, <1>2, <1>3, <1>4, <1>5, LenProperties, ElementOfSeq

\* A reply is one of three, and the kinds exclude one another.
LEMMA Kinds ==
    ASSUME NEW x \in Replies
    PROVE  /\ (x.type = "reply" /\ x.id = 0) \/ IsAnswer(x) \/ IsPush(x) \/ IsRefusal(x)
           /\ IsAnswer(x) => ~IsPush(x) /\ ~IsRefusal(x)
           /\ IsPush(x) => ~IsRefusal(x) /\ On(x) \in Variants \X Channels
           /\ IsUnsub(x) => IsPush(x)
           /\ x.id \in Nat /\ x.left \in Nat
<1>1. CASE x \in Answers
  <2>1. x.type \in {"reply", "error"} /\ x.id \in Nat /\ x.left = 0
    BY <1>1 DEF Answers
  <2>. QED  BY <2>1 DEF IsAnswer, IsPush, IsUnsub, IsRefusal
<1>2. CASE x \in Pushes
  <2>1. /\ x.type \in {"message", "subscribe", "unsubscribe"} /\ x.id \in Nat /\ x.left \in Nat
        /\ x.v \in Variants /\ x.channel \in Channels
    BY <1>2 DEF Pushes
  <2>. QED  BY <2>1 DEF IsAnswer, IsPush, IsUnsub, IsRefusal, On
<1>. QED  BY <1>1, <1>2 DEF Replies

LEMMA ArgsOf ==
    ASSUME NEW x \in Commands, x.op # "command"
    PROVE  /\ Args(x) \subseteq Variants \X Channels /\ Args(x) # {}
           /\ \A s : s \in Args(x) <=> \E i \in 1 .. Len(x.list) : s = <<x.v, x.list[i]>>
<1>1. PICK l \in Nat \ {0} : /\ l = Len(x.list) /\ DOMAIN x.list = 1 .. l /\ x.v \in Variants
                             /\ \A i \in 1 .. l : x.list[i] \in Channels
  BY CommandParts
<1>2. Range(x.list) = {x.list[i] : i \in 1 .. l} /\ 1 \in 1 .. l
  BY <1>1 DEF Range
<1>3. \A s : s \in Args(x) <=> \E i \in 1 .. l : s = <<x.v, x.list[i]>>
  BY <1>2 DEF Args
<1>4. <<x.v, x.list[1]>> \in Args(x)
  BY <1>2, <1>3
<1>5. Args(x) \subseteq Variants \X Channels
  BY <1>1, <1>3
<1>. QED  BY <1>1, <1>3, <1>4, <1>5

(***************************************************************************)
(* What each kind of step does to what is under way.                       *)
(***************************************************************************)
LEMMA FlowKept ==
    ASSUME Flow, UNCHANGED <<In, Out, Waiting, replies, invalid, Owned, serving, closed, subscribed>>,
           \A i \in 1 .. Len(cmds) : i \in 1 .. Len(cmds') /\ cmds'[i] = cmds[i]
    PROVE  Flow'
<1>1. InOrder'
  BY DEF Flow, InOrder, Follows
<1>2. AllExpected'
  BY DEF Flow, AllExpected, Expected
<1>3. LastTold'
  BY DEF Flow, LastTold
<1>4. AllRequested'
  BY DEF Flow, AllRequested, Requested
<1>5. Awaited'
  BY DEF Flow, Awaited
<1>6. Subscriptions'
  BY DEF Flow, Subscriptions, Leaving, Coming
<1>. QED  BY <1>1, <1>2, <1>3, <1>4, <1>5, <1>6 DEF Flow

\* The first answer under way is that of the callback that waits longest.
LEMMA HeadAnswer ==
    ASSUME Types, Queue, Flow, In # <<>>, IsAnswer(In[1])
    PROVE  Waiting # <<>> /\ Head(Waiting) = In[1].id
<1>1. 1 \in 1 .. Len(In) /\ In[1].id \in Nat
  BY Queues, TakenFirst, Kinds
<1>2. Among(In[1].id, Waiting) /\ \A j \in 1 .. Len(Out) : In[1].id < Out[j].id
  BY <1>1 DEF Flow, AllExpected, Expected
<1>3. PICK q \in 1 .. Len(Waiting) : Waiting[q] = In[1].id
  BY <1>2 DEF Among
<1>4. Waiting # <<>>
  BY <1>3, EmptySeq
<1>5. /\ Head(Waiting) = Waiting[1] /\ 1 \in 1 .. Len(Waiting) /\ Len(Waiting) \in Nat
      /\ Waiting[1] \in Nat /\ Waiting[q] \in Nat
  BY <1>4, Queues, TakenFirst
<1>6. 1 < q => Waiting[1] < In[1].id
  BY <1>3, <1>5 DEF Queue
<1>7. CASE \E i \in 1 .. Len(In) : IsAnswer(In[i]) /\ In[i].id = Waiting[1]
  <2>1. PICK i \in 1 .. Len(In) : IsAnswer(In[i]) /\ In[i].id = Waiting[1]
    BY <1>7
  <2>2. i \in Nat /\ (i # 1 => 1 < i)
    OBVIOUS
  <2>3. 1 < i => In[1].id < In[i].id
    BY <1>1, <2>1 DEF Flow, InOrder, Follows
  <2>4. q = 1 \/ 1 < q
    OBVIOUS
  <2>. QED  BY <1>1, <1>3, <1>4, <1>5, <1>6, <2>1, <2>2, <2>3, <2>4
<1>8. CASE \E j \in 1 .. Len(Out) : Out[j].id = Waiting[1]
  <2>1. In[1].id < Waiting[1]
    BY <1>2, <1>8
  <2>2. q = 1 \/ 1 < q
    OBVIOUS
  <2>. QED  BY <1>1, <1>3, <1>5, <1>6, <2>1, <2>2
<1>. QED  BY <1>5, <1>7, <1>8 DEF Flow, Awaited

\* What the library takes from the reader.
LEMMA TailOfFlow ==
    ASSUME Types, In # <<>>, In' = Tail(In)
    PROVE  /\ 1 \in 1 .. Len(In) /\ Len(In) \in Nat /\ Len(In)' \in Nat /\ In[1] \in Replies
           /\ \A i \in 1 .. Len(In)' : i + 1 \in 1 .. Len(In) /\ In'[i] = In[i + 1] /\ 1 < i + 1
           /\ \A i \in 1 .. Len(In) : i # 1 => /\ 1 < i /\ i - 1 \in 1 .. Len(In)'
                                               /\ In'[i - 1] = In[i]
<1>1. In \in Seq(Replies)
  BY Queues
<1>2. Tail(In) \in Seq(Replies) /\ Len(Tail(In)) \in Nat
  BY <1>1, TakenFirst, LenProperties
<1>. QED  BY <1>1, <1>2, TakenFirst, Queues

\* An answer, or the refusal of the server, goes to the callback that waits longest.
LEMMA AnswerTaken ==
    ASSUME Types, Types', Queue, Flow, In # <<>>, In' = Tail(In),
           IsAnswer(In[1]) \/ IsRefusal(In[1]),
           Waiting # <<>>, Waiting' = Tail(Waiting),
           \A y : Among(y, replies') => Among(y, replies),
           invalid = <<>> => invalid' = <<>>,
           UNCHANGED <<Out, Owned, serving, closed, cmds, subscribed>>
    PROVE  Flow'
<1>1. /\ 1 \in 1 .. Len(In) /\ Len(In) \in Nat /\ Len(In)' \in Nat /\ In[1] \in Replies
      /\ \A i \in 1 .. Len(In)' : i + 1 \in 1 .. Len(In) /\ In'[i] = In[i + 1] /\ 1 < i + 1
      /\ \A i \in 1 .. Len(In) : i # 1 => /\ 1 < i /\ i - 1 \in 1 .. Len(In)'
                                          /\ In'[i - 1] = In[i]
  BY TailOfFlow
<1>2. IsAnswer(In[1]) => Head(Waiting) = In[1].id
  BY HeadAnswer
<1>3. IsRefusal(In[1]) => closed /\ \A i \in 1 .. Len(In) : i = 1
  BY <1>1 DEF Flow, AllExpected, Expected, InOrder, Follows
<1>4. ~IsPush(In[1]) /\ ~IsUnsub(In[1]) /\ In[1].id \in Nat
  BY <1>1, Kinds
<1>5. /\ \A y : Among(y, Waiting) => y = Head(Waiting) \/ Among(y, Waiting')
      /\ \A q \in 1 .. Len(Waiting') : /\ q + 1 \in 1 .. Len(Waiting) /\ Waiting'[q] = Waiting[q + 1]
                                       /\ 1 < q + 1
      /\ Head(Waiting) = Waiting[1] /\ 1 \in 1 .. Len(Waiting)
  BY Queues, AmongTail, TakenFirst
<1>6. InOrder'
  <2>1. SUFFICES ASSUME NEW i \in 1 .. Len(In)', NEW k \in 1 .. Len(In)', i < k
                 PROVE  Follows(In[i], In[k])'
    BY DEF InOrder
  <2>2. i + 1 < k + 1
    BY <1>1, <2>1
  <2>3. Follows(In[i + 1], In[k + 1])
    BY <1>1, <2>1, <2>2 DEF Flow, InOrder
  <2>. QED  BY <1>1, <2>3 DEF Follows
<1>7. AllExpected'
  <2>1. SUFFICES ASSUME NEW i \in 1 .. Len(In)' PROVE Expected(In[i])'
    BY DEF AllExpected
  <2>2. Expected(In[i + 1]) /\ Follows(In[1], In[i + 1]) /\ In'[i] = In[i + 1] /\ In[i + 1].id \in Nat
    BY <1>1, Queues, Kinds DEF Flow, AllExpected, InOrder
  <2>3. IsAnswer(In[1])
    BY <2>2 DEF Follows
  <2>4. IsAnswer(In[i + 1]) => Among(In[i + 1].id, Waiting')
    BY <1>2, <1>4, <1>5, <2>2, <2>3 DEF Expected, Follows
  <2>. QED  BY <2>2, <2>4 DEF Expected
<1>8. LastTold'
  <2>1. SUFFICES ASSUME NEW i \in 1 .. Len(In)', IsUnsub(In'[i]), In'[i].left # 0, serving = {}
                 PROVE  \E k \in 1 .. Len(In)' : i < k /\ IsUnsub(In'[k])
    BY DEF LastTold
  <2>2. PICK k \in 1 .. Len(In) : i + 1 < k /\ IsUnsub(In[k])
    BY <1>1, <2>1 DEF Flow, LastTold
  <2>3. k # 1 /\ i < k - 1
    BY <2>2
  <2>. QED  BY <1>1, <2>2, <2>3
<1>9. AllRequested'
  <2>1. SUFFICES ASSUME NEW j \in 1 .. Len(Out) PROVE Requested(j)'
    BY DEF AllRequested
  <2>2. Requested(j)
    BY DEF Flow, AllRequested
  <2>3. ~closed => IsAnswer(In[1]) /\ In[1].id < Out[j].id
    BY <1>1, <1>3 DEF Flow, AllExpected, Expected
  <2>4. Out[j].op = "command" /\ ~closed => Among(Out[j].id, Waiting')
    BY <1>2, <1>4, <1>5, <2>2, <2>3 DEF Requested
  <2>5. (\A i \in 1 .. Len(In) : ~IsPush(In[i])) => \A i \in 1 .. Len(In)' : ~IsPush(In'[i])
    BY <1>1
  <2>. QED  BY <2>2, <2>4, <2>5 DEF Requested
<1>10. Awaited'
  <2>1. SUFFICES ASSUME NEW q \in 1 .. Len(Waiting)'
                 PROVE  \/ \E i \in 1 .. Len(In)' : IsAnswer(In'[i]) /\ In'[i].id = Waiting'[q]
                        \/ \E j \in 1 .. Len(Out) : Out[j].id = Waiting'[q]
    BY DEF Awaited
  <2>2. /\ q + 1 \in 1 .. Len(Waiting) /\ Waiting'[q] = Waiting[q + 1]
        /\ Waiting[1] < Waiting[q + 1] /\ Waiting[1] \in Nat
    BY <1>5, Queues DEF Queue
  <2>3. CASE \E i \in 1 .. Len(In) : IsAnswer(In[i]) /\ In[i].id = Waiting[q + 1]
    <3>1. PICK i \in 1 .. Len(In) : IsAnswer(In[i]) /\ In[i].id = Waiting[q + 1]
      BY <2>3
    <3>2. i # 1
      <4>1. CASE IsRefusal(In[1])
        BY <3>1, <4>1, <1>1, Kinds
      <4>2. CASE IsAnswer(In[1])
        BY <3>1, <4>2, <1>2, <1>5, <2>2
      <4>. QED  BY <4>1, <4>2
    <3>. QED  BY <1>1, <2>2, <3>1, <3>2
  <2>. QED  BY <2>2, <2>3 DEF Flow, Awaited
<1>11. Subscriptions'
  <2>1. \A s : Leaving(s) <=> Leaving(s)'
    <3>1. ASSUME NEW s, NEW i \in 1 .. Len(In), IsUnsub(In[i]), On(In[i]) = s PROVE Leaving(s)'
      BY <1>1, <1>4, <3>1 DEF Leaving
    <3>2. ASSUME NEW s, NEW i \in 1 .. Len(In)', IsUnsub(In'[i]), On(In'[i]) = s PROVE Leaving(s)
      BY <1>1, <3>2 DEF Leaving
    <3>. QED  BY <3>1, <3>2 DEF Leaving
  <2>2. \A s : Coming(s) <=> Coming(s)'
    BY DEF Coming
  <2>. QED  BY <2>1, <2>2 DEF Flow, Subscriptions
<1>. QED  BY <1>6, <1>7, <1>8, <1>9, <1>10, <1>11 DEF Flow

\* A message, or the confirmation of a subscription, goes to the callback of its channel.
LEMMA PushTaken ==
    ASSUME Types, Types', Flow, In # <<>>, In' = Tail(In), IsPush(In[1]), ~IsUnsub(In[1]),
           UNCHANGED <<Out, Waiting, replies, invalid, Owned, serving, closed, cmds, subscribed>>
    PROVE  Flow'
<1>1. /\ 1 \in 1 .. Len(In) /\ Len(In) \in Nat /\ Len(In)' \in Nat /\ In[1] \in Replies
      /\ \A i \in 1 .. Len(In)' : i + 1 \in 1 .. Len(In) /\ In'[i] = In[i + 1] /\ 1 < i + 1
      /\ \A i \in 1 .. Len(In) : i # 1 => /\ 1 < i /\ i - 1 \in 1 .. Len(In)'
                                          /\ In'[i - 1] = In[i]
  BY TailOfFlow
<1>2. ~IsAnswer(In[1])
  BY <1>1, Kinds
<1>3. InOrder'
  <2>1. SUFFICES ASSUME NEW i \in 1 .. Len(In)', NEW k \in 1 .. Len(In)', i < k
                 PROVE  Follows(In[i], In[k])'
    BY DEF InOrder
  <2>2. i + 1 < k + 1
    BY <1>1, <2>1
  <2>3. Follows(In[i + 1], In[k + 1])
    BY <1>1, <2>1, <2>2 DEF Flow, InOrder
  <2>. QED  BY <1>1, <2>3 DEF Follows
<1>4. AllExpected'
  BY <1>1 DEF Flow, AllExpected, Expected
<1>5. LastTold'
  <2>1. SUFFICES ASSUME NEW i \in 1 .. Len(In)', IsUnsub(In'[i]), In'[i].left # 0, serving = {}
                 PROVE  \E k \in 1 .. Len(In)' : i < k /\ IsUnsub(In'[k])
    BY DEF LastTold
  <2>2. PICK k \in 1 .. Len(In) : i + 1 < k /\ IsUnsub(In[k])
    BY <1>1, <2>1 DEF Flow, LastTold
  <2>3. k # 1 /\ i < k - 1
    BY <2>2
  <2>. QED  BY <1>1, <2>2, <2>3
<1>6. AllRequested'
  BY <1>1 DEF Flow, AllRequested, Requested
<1>7. Awaited'
  <2>1. \A i \in 1 .. Len(In) : IsAnswer(In[i]) => \E k \in 1 .. Len(In)' : In'[k] = In[i]
    BY <1>1, <1>2
  <2>2. SUFFICES ASSUME NEW q \in 1 .. Len(Waiting)
                 PROVE  \/ \E i \in 1 .. Len(In)' : IsAnswer(In'[i]) /\ In'[i].id = Waiting[q]
                        \/ \E j \in 1 .. Len(Out) : Out[j].id = Waiting[q]
    BY DEF Awaited
  <2>3. \/ \E i \in 1 .. Len(In) : IsAnswer(In[i]) /\ In[i].id = Waiting[q]
        \/ \E j \in 1 .. Len(Out) : Out[j].id = Waiting[q]
    BY DEF Flow, Awaited
  <2>. QED  BY <2>1, <2>3
<1>8. Subscriptions'
  <2>1. \A s : Leaving(s) <=> Leaving(s)'
    BY <1>1 DEF Leaving
  <2>2. \A s : Coming(s) <=> Coming(s)'
    BY DEF Coming
  <2>. QED  BY <2>1, <2>2 DEF Flow, Subscriptions
<1>. QED  BY <1>3, <1>4, <1>5, <1>6, <1>7, <1>8 DEF Flow

\* The confirmation that a subscription was left takes its binding away.
LEMMA UnsubTaken ==
    ASSUME Types, Types', Queue, Flow, In # <<>>, In' = Tail(In), IsUnsub(In[1]),
           Owned' = Owned \ {On(In[1])}, subscribed' = (In[1].left # 0),
           UNCHANGED <<Out, Waiting, replies, invalid, serving, closed, cmds>>
    PROVE  Flow'
<1>1. /\ 1 \in 1 .. Len(In) /\ Len(In) \in Nat /\ Len(In)' \in Nat /\ In[1] \in Replies
      /\ \A i \in 1 .. Len(In)' : i + 1 \in 1 .. Len(In) /\ In'[i] = In[i + 1] /\ 1 < i + 1
      /\ \A i \in 1 .. Len(In) : i # 1 => /\ 1 < i /\ i - 1 \in 1 .. Len(In)'
                                          /\ In'[i - 1] = In[i]
  BY TailOfFlow
<1>2. /\ Out = <<>> /\ On(In[1]) \notin serving /\ (In[1].left = 0 => serving = {})
      /\ Len(Out) = 0 /\ 1 .. Len(Out) = {}
  BY <1>1, EmptySeq DEF Flow, AllExpected, Expected
<1>3. \A i \in 1 .. Len(In)' : /\ ~IsAnswer(In'[i])
                               /\ IsPush(In'[i]) => On(In'[i]) # On(In[1])
                               /\ In[1].left = 0 => ~IsUnsub(In'[i])
  BY <1>1 DEF Flow, InOrder, Follows
<1>4. IsPush(In[1]) /\ ~IsAnswer(In[1]) /\ On(In[1]) \in Variants \X Channels
  BY <1>1, Kinds
<1>5. Waiting = <<>>
  <2>1. ASSUME NEW q \in 1 .. Len(Waiting)
        PROVE  FALSE
    <3>1. PICK i \in 1 .. Len(In) : IsAnswer(In[i])
      BY <1>2 DEF Flow, Awaited
    <3>2. i # 1
      BY <1>4, <3>1
    <3>3. i - 1 \in 1 .. Len(In)' /\ In'[i - 1] = In[i]
      BY <1>1, <3>2
    <3>. QED  BY <1>3, <3>1, <3>3
  <2>. QED  BY <2>1, Queues, EmptySeq
<1>6. InOrder'
  <2>1. SUFFICES ASSUME NEW i \in 1 .. Len(In)', NEW k \in 1 .. Len(In)', i < k
                 PROVE  Follows(In[i], In[k])'
    BY DEF InOrder
  <2>2. i + 1 < k + 1
    BY <1>1, <2>1
  <2>3. Follows(In[i + 1], In[k + 1])
    BY <1>1, <2>1, <2>2 DEF Flow, InOrder
  <2>. QED  BY <1>1, <2>3 DEF Follows
<1>7. AllExpected'
  BY <1>1, <1>3 DEF Flow, AllExpected, Expected
<1>8. LastTold'
  <2>1. SUFFICES ASSUME NEW i \in 1 .. Len(In)', IsUnsub(In'[i]), In'[i].left # 0, serving = {}
                 PROVE  \E k \in 1 .. Len(In)' : i < k /\ IsUnsub(In'[k])
    BY DEF LastTold
  <2>2. PICK k \in 1 .. Len(In) : i + 1 < k /\ IsUnsub(In[k])
    BY <1>1, <2>1 DEF Flow, LastTold
  <2>3. k # 1 /\ i < k - 1
    BY <2>2
  <2>. QED  BY <1>1, <2>2, <2>3
<1>9. AllRequested'
  BY <1>2 DEF AllRequested
<1>10. Awaited'
  BY <1>5, EmptySeq DEF Awaited
<1>11. Subscriptions'
  <2>1. \A s : ~Coming(s) /\ ~Coming(s)'
    BY <1>2 DEF Coming
  <2>2. \A s : Leaving(s)' <=> Leaving(s) /\ s # On(In[1])
    <3>1. TAKE s
    <3>2. ASSUME Leaving(s)'
          PROVE  Leaving(s) /\ s # On(In[1])
      <4>1. PICK i \in 1 .. Len(In)' : IsUnsub(In'[i]) /\ On(In'[i]) = s
        BY <3>2 DEF Leaving
      <4>2. On(In'[i]) # On(In[1])
        BY <4>1, <1>3 DEF IsUnsub, IsPush
      <4>. QED  BY <1>1, <4>1, <4>2 DEF Leaving
    <3>3. ASSUME Leaving(s), s # On(In[1])
          PROVE  Leaving(s)'
      <4>1. PICK i \in 1 .. Len(In) : IsUnsub(In[i]) /\ On(In[i]) = s
        BY <3>3 DEF Leaving
      <4>2. i # 1
        BY <3>3, <4>1
      <4>. QED  BY <1>1, <4>1, <4>2 DEF Leaving
    <3>. QED  BY <3>2, <3>3
  <2>3. \A s \in Variants \X Channels : s \in Owned' <=> s \in serving \/ Leaving(s)'
    BY <1>2, <2>1, <2>2 DEF Flow, Subscriptions
  <2>4. CASE In[1].left = 0
    <3>1. \A s : ~Leaving(s)'
      BY <2>4, <1>3 DEF Leaving
    <3>2. Owned' = {}
      BY <2>3, <2>4, <3>1, <1>2 DEF Owned
    <3>3. invalid = <<>>
      BY <1>5, Queues, ConcatEqualIffEmpty DEF Waiting
    <3>. QED  BY <2>1, <2>3, <2>4, <3>2, <3>3 DEF Subscriptions
  <2>5. CASE In[1].left # 0
    <3>1. CASE serving # {}
      <4>1. PICK s \in serving : s \in Variants \X Channels
        BY <3>1 DEF Types
      <4>2. s \in Owned'
        BY <2>3, <4>1
      <4>. QED  BY <2>1, <2>3, <2>5, <4>2 DEF Subscriptions
    <3>2. CASE serving = {}
      <4>1. PICK k \in 1 .. Len(In) : 1 < k /\ IsUnsub(In[k])
        BY <1>1, <2>5, <3>2 DEF Flow, LastTold
      <4>2. k # 1 /\ In[k] \in Replies
        BY <4>1, Queues
      <4>3. PICK s \in Variants \X Channels : s = On(In[k])
        BY <4>1, <4>2, Kinds
      <4>4. Leaving(s)'
        <5>1. k - 1 \in 1 .. Len(In)' /\ In'[k - 1] = In[k]
          BY <1>1, <4>2
        <5>. QED  BY <4>1, <4>3, <5>1 DEF Leaving
      <4>5. s \in Owned'
        BY <2>3, <4>3, <4>4
      <4>. QED  BY <2>1, <2>3, <2>5, <4>5 DEF Subscriptions
    <3>. QED  BY <3>1, <3>2
  <2>. QED  BY <2>4, <2>5
<1>. QED  BY <1>6, <1>7, <1>8, <1>9, <1>10, <1>11 DEF Flow

LEMMA InGrown ==
    ASSUME Types, NEW x \in Replies, In' = Append(In, x)
    PROVE  \E l \in Nat : /\ l = Len(In) /\ Len(In') = l + 1 /\ In'[l + 1] = x
                          /\ \A i \in 1 .. l : i \in 1 .. l + 1 /\ In'[i] = In[i]
                          /\ \A i \in 1 .. l + 1 : i \in 1 .. l \/ i = l + 1
                          /\ \A i \in 1 .. l + 1, k \in 1 .. l + 1 : i < k => i \in 1 .. l
                          /\ l + 1 \in 1 .. l + 1
<1>1. In \in Seq(Replies)
  BY Queues
<1>2. PICK l \in Nat : l = Len(In)
  BY <1>1, LenProperties
<1>3. /\ Len(Append(In, x)) = l + 1 /\ Append(In, x)[l + 1] = x
      /\ \A i \in 1 .. l : Append(In, x)[i] = In[i]
  BY <1>1, <1>2, PutLast
<1>4. /\ \A i \in 1 .. l : i \in 1 .. l + 1
      /\ \A i \in 1 .. l + 1 : i \in 1 .. l \/ i = l + 1
      /\ \A i \in 1 .. l + 1, k \in 1 .. l + 1 : i < k => i \in 1 .. l
      /\ l + 1 \in 1 .. l + 1
  OBVIOUS
<1>. QED  BY <1>2, <1>3, <1>4

\* What the server publishes, to what it serves.
LEMMA PublishFlow ==
    ASSUME Types, Flow, ~closed, NEW s \in serving, NEW x \in Replies,
           x = Reply("message", 0, s[1], s[2], 0), In' = Append(In, x),
           UNCHANGED <<Out, Waiting, replies, invalid, Owned, serving, closed, cmds, subscribed>>
    PROVE  Flow'
<1>1. PICK l \in Nat : /\ l = Len(In) /\ Len(In') = l + 1 /\ In'[l + 1] = x
                       /\ \A i \in 1 .. l : i \in 1 .. l + 1 /\ In'[i] = In[i]
                       /\ \A i \in 1 .. l + 1 : i \in 1 .. l \/ i = l + 1
                       /\ \A i \in 1 .. l + 1, k \in 1 .. l + 1 : i < k => i \in 1 .. l
                       /\ l + 1 \in 1 .. l + 1
  BY InGrown
<1>2. s \in Variants \X Channels /\ On(x) = s
  BY DEF Types, Reply, On
<1>3. IsPush(x) /\ ~IsAnswer(x) /\ ~IsUnsub(x) /\ ~IsRefusal(x) /\ x.type # "reply"
  BY DEF Reply, IsPush, IsAnswer, IsUnsub, IsRefusal
<1>4. \A i \in 1 .. l : ~IsRefusal(In[i]) /\ (IsUnsub(In[i]) => On(In[i]) # s)
  BY <1>1 DEF Flow, AllExpected, Expected
<1>5. \A j \in 1 .. Len(Out) : ~Among(Out[j].id, replies)
  BY DEF Flow, AllRequested, Requested
<1>6. InOrder'
  <2>1. SUFFICES ASSUME NEW i \in 1 .. l + 1, NEW k \in 1 .. l + 1, i < k
                 PROVE  Follows(In[i], In[k])'
    BY <1>1 DEF InOrder
  <2>2. i \in 1 .. l /\ In'[i] = In[i]
    BY <1>1, <2>1
  <2>3. CASE k \in 1 .. l
    BY <1>1, <2>1, <2>2, <2>3 DEF Flow, InOrder, Follows
  <2>4. CASE k = l + 1
    BY <1>1, <1>2, <1>3, <1>4, <2>2, <2>4 DEF Follows
  <2>. QED  BY <1>1, <2>3, <2>4
<1>7. AllExpected'
  <2>1. s \in Owned
    BY <1>2 DEF Flow, Subscriptions
  <2>2. Expected(x)'
    BY <1>2, <1>3, <2>1 DEF Expected
  <2>3. SUFFICES ASSUME NEW i \in 1 .. l + 1 PROVE Expected(In[i])'
    BY <1>1 DEF AllExpected
  <2>4. CASE i \in 1 .. l
    BY <1>1, <2>4 DEF Flow, AllExpected, Expected
  <2>5. CASE i = l + 1
    BY <1>1, <2>2, <2>5 DEF Expected
  <2>. QED  BY <1>1, <2>4, <2>5
<1>8. LastTold'
  BY <1>1, <1>3 DEF Flow, LastTold
<1>9. AllRequested'
  BY <1>5 DEF Flow, AllRequested, Requested
<1>10. Awaited'
  <2>1. SUFFICES ASSUME NEW q \in 1 .. Len(Waiting)
                 PROVE  \/ \E i \in 1 .. l + 1 : IsAnswer(In'[i]) /\ In'[i].id = Waiting[q]
                        \/ \E j \in 1 .. Len(Out) : Out[j].id = Waiting[q]
    BY <1>1 DEF Awaited
  <2>2. \/ \E i \in 1 .. l : IsAnswer(In[i]) /\ In[i].id = Waiting[q]
        \/ \E j \in 1 .. Len(Out) : Out[j].id = Waiting[q]
    BY <1>1 DEF Flow, Awaited
  <2>. QED  BY <1>1, <2>2
<1>11. Subscriptions'
  <2>1. \A w : Leaving(w) <=> Leaving(w)'
    BY <1>1, <1>3 DEF Leaving
  <2>2. \A w : Coming(w) <=> Coming(w)'
    BY DEF Coming
  <2>. QED  BY <2>1, <2>2 DEF Flow, Subscriptions
<1>. QED  BY <1>6, <1>7, <1>8, <1>9, <1>10, <1>11 DEF Flow

\* The server ends the connection.
LEMMA CloseFlow ==
    ASSUME Types, Flow, ~closed, closed',
           NEW x \in Replies, x = Reply("error", 0, "", "", 0), In' = In \/ In' = Append(In, x),
           UNCHANGED <<Out, Waiting, replies, invalid, Owned, serving, cmds, subscribed>>
    PROVE  Flow'
<1>1. CASE In' = In
  <2>1. InOrder'
    BY <1>1 DEF Flow, InOrder, Follows
  <2>2. AllExpected'
    BY <1>1 DEF Flow, AllExpected, Expected
  <2>3. LastTold'
    BY <1>1 DEF Flow, LastTold
  <2>4. AllRequested'
    <3>1. SUFFICES ASSUME NEW j \in 1 .. Len(Out) PROVE Requested(j)'
      BY DEF AllRequested
    <3>2. Requested(j)
      BY DEF Flow, AllRequested
    <3>. QED  BY <1>1, <3>2 DEF Requested
  <2>5. Awaited'
    BY <1>1 DEF Flow, Awaited
  <2>6. Subscriptions'
    BY <1>1 DEF Flow, Subscriptions, Leaving, Coming
  <2>. QED  BY <2>1, <2>2, <2>3, <2>4, <2>5, <2>6 DEF Flow
<1>2. CASE In' = Append(In, x)
  <2>1. PICK l \in Nat : /\ l = Len(In) /\ Len(In') = l + 1 /\ In'[l + 1] = x
                         /\ \A i \in 1 .. l : i \in 1 .. l + 1 /\ In'[i] = In[i]
                         /\ \A i \in 1 .. l + 1 : i \in 1 .. l \/ i = l + 1
                         /\ \A i \in 1 .. l + 1, k \in 1 .. l + 1 : i < k => i \in 1 .. l
                         /\ l + 1 \in 1 .. l + 1
    BY <1>2, InGrown
  <2>2. ~IsPush(x) /\ ~IsAnswer(x) /\ ~IsUnsub(x) /\ x.type # "reply"
    BY DEF Reply, IsPush, IsAnswer, IsUnsub
  <2>3. \A i \in 1 .. l : ~IsRefusal(In[i])
    BY <2>1 DEF Flow, AllExpected, Expected
  <2>4. InOrder'
    <3>1. SUFFICES ASSUME NEW i \in 1 .. l + 1, NEW k \in 1 .. l + 1, i < k
                   PROVE  Follows(In[i], In[k])'
      BY <2>1 DEF InOrder
    <3>2. i \in 1 .. l /\ In'[i] = In[i]
      BY <2>1, <3>1
    <3>3. CASE k \in 1 .. l
      BY <2>1, <3>1, <3>2, <3>3 DEF Flow, InOrder, Follows
    <3>4. CASE k = l + 1
      BY <2>1, <2>2, <2>3, <3>2, <3>4 DEF Follows
    <3>. QED  BY <2>1, <3>3, <3>4
  <2>5. AllExpected'
    <3>1. Expected(x)'
      BY <2>2 DEF Expected
    <3>2. SUFFICES ASSUME NEW i \in 1 .. l + 1 PROVE Expected(In[i])'
      BY <2>1 DEF AllExpected
    <3>3. CASE i \in 1 .. l
      BY <2>1, <3>3 DEF Flow, AllExpected, Expected
    <3>4. CASE i = l + 1
      BY <2>1, <3>1, <3>4 DEF Expected
    <3>. QED  BY <2>1, <3>3, <3>4
  <2>6. LastTold'
    BY <2>1, <2>2 DEF Flow, LastTold
  <2>7. AllRequested'
    <3>1. SUFFICES ASSUME NEW j \in 1 .. Len(Out) PROVE Requested(j)'
      BY DEF AllRequested
    <3>2. Requested(j)
      BY DEF Flow, AllRequested
    <3>3. (\A i \in 1 .. l : ~IsPush(In[i])) => \A i \in 1 .. l + 1 : ~IsPush(In'[i])
      BY <2>1, <2>2
    <3>. QED  BY <2>1, <3>2, <3>3 DEF Requested
  <2>8. Awaited'
    BY <2>1 DEF Flow, Awaited
  <2>9. Subscriptions'
    <3>1. \A w : Leaving(w) <=> Leaving(w)'
      BY <2>1, <2>2 DEF Leaving
    <3>2. \A w : Coming(w) <=> Coming(w)'
      BY DEF Coming
    <3>. QED  BY <3>1, <3>2 DEF Flow, Subscriptions
  <2>. QED  BY <2>4, <2>5, <2>6, <2>7, <2>8, <2>9 DEF Flow
<1>. QED  BY <1>1, <1>2

\* A command, with the number that follows.
LEMMA Issued ==
    ASSUME Types, Queue, Flow, NEW cmd \in Commands, cmd.id = Len(cmds) + 1,
           cmds' = Append(cmds, cmd), Out' = Append(Out, cmd)
    PROVE  \E l \in Nat, n \in Nat :
             /\ l = Len(Out) /\ Len(Out') = l + 1 /\ Out'[l + 1] = cmd
             /\ \A j \in 1 .. l : /\ j \in 1 .. l + 1 /\ Out'[j] = Out[j]
                                  /\ Out[j].id \in 1 .. n /\ Out[j].id < n + 1
             /\ \A j \in 1 .. l + 1 : j \in 1 .. l \/ j = l + 1
             /\ \A j \in 1 .. l + 1, k \in 1 .. l + 1 : j < k => j \in 1 .. l
             /\ l + 1 \in 1 .. l + 1
             /\ n = Len(cmds) /\ Len(cmds') = n + 1 /\ cmds'[n + 1] = cmd /\ cmd.id = n + 1
             /\ \A i \in 1 .. n : i \in 1 .. n + 1 /\ cmds'[i] = cmds[i]
             /\ n + 1 \in 1 .. n + 1 /\ n + 1 \notin 1 .. n
             /\ \A y : Among(y, Waiting) => y \in 1 .. n /\ y < n + 1 /\ cmds[y].op = "command"
<1>1. Out \in Seq(Commands) /\ cmds \in Seq(Commands)
  BY Queues
<1>2. PICK l \in Nat, n \in Nat : l = Len(Out) /\ n = Len(cmds)
  BY <1>1, LenProperties
<1>3. /\ Len(Append(Out, cmd)) = l + 1 /\ Append(Out, cmd)[l + 1] = cmd
      /\ \A i \in 1 .. l : Append(Out, cmd)[i] = Out[i]
  BY <1>1, <1>2, PutLast
<1>4. /\ Len(Append(cmds, cmd)) = n + 1 /\ Append(cmds, cmd)[n + 1] = cmd
      /\ \A i \in 1 .. n : Append(cmds, cmd)[i] = cmds[i]
  BY <1>1, <1>2, PutLast
<1>5. /\ \A i \in 1 .. l : i \in 1 .. l + 1
      /\ \A i \in 1 .. l + 1 : i \in 1 .. l \/ i = l + 1
      /\ \A i \in 1 .. l + 1, k \in 1 .. l + 1 : i < k => i \in 1 .. l
      /\ l + 1 \in 1 .. l + 1 /\ n + 1 \in 1 .. n + 1 /\ n + 1 \notin 1 .. n
      /\ \A i \in 1 .. n : i \in 1 .. n + 1 /\ i < n + 1
  OBVIOUS
<1>6. \A j \in 1 .. l : Out[j].id \in 1 .. n
  BY <1>2 DEF Flow, AllRequested, Requested
<1>7. \A y : Among(y, Waiting) => y \in 1 .. n /\ cmds[y].op = "command"
  BY <1>2 DEF Queue, Among
<1>. QED  BY <1>2, <1>3, <1>4, <1>5, <1>6, <1>7

\* The client issues a command when nothing is leaving.
LEMMA IssueFlow ==
    ASSUME Types, Queue, Flow, NEW cmd \in Commands, cmd.id = Len(cmds) + 1,
           cmds' = Append(cmds, cmd), Out' = Append(Out, cmd),
           \A i \in 1 .. Len(In) : ~IsUnsub(In[i]),
           \A j \in 1 .. Len(Out) : Out[j].op # "unsubscribe",
           UNCHANGED <<In, serving, closed>>,
           Owned' = IF cmd.op = "subscribe" THEN Owned \union Args(cmd) ELSE Owned,
           cmd.op = "unsubscribe" =>
               /\ Args(cmd) \subseteq Owned
               /\ \A a, b \in 1 .. Len(cmd.list) : cmd.list[a] = cmd.list[b] => a = b,
           Waiting' = IF cmd.op = "command" THEN Append(Waiting, cmd.id) ELSE Waiting,
           \A y : Among(y, replies') => Among(y, replies) \/ (y = cmd.id /\ ~subscribed),
           subscribed' = (subscribed \/ cmd.op = "subscribe"),
           ~subscribed' /\ invalid = <<>> => invalid' = <<>>
    PROVE  Queue' /\ Flow'
<1>1. PICK l \in Nat, n \in Nat :
             /\ l = Len(Out) /\ Len(Out') = l + 1 /\ Out'[l + 1] = cmd
             /\ \A j \in 1 .. l : /\ j \in 1 .. l + 1 /\ Out'[j] = Out[j]
                                  /\ Out[j].id \in 1 .. n /\ Out[j].id < n + 1
             /\ \A j \in 1 .. l + 1 : j \in 1 .. l \/ j = l + 1
             /\ \A j \in 1 .. l + 1, k \in 1 .. l + 1 : j < k => j \in 1 .. l
             /\ l + 1 \in 1 .. l + 1
             /\ n = Len(cmds) /\ Len(cmds') = n + 1 /\ cmds'[n + 1] = cmd /\ cmd.id = n + 1
             /\ \A i \in 1 .. n : i \in 1 .. n + 1 /\ cmds'[i] = cmds[i]
             /\ n + 1 \in 1 .. n + 1 /\ n + 1 \notin 1 .. n
             /\ \A y : Among(y, Waiting) => y \in 1 .. n /\ y < n + 1 /\ cmds[y].op = "command"
  BY Issued
<1>2. \A y : Among(y, Waiting') <=> Among(y, Waiting) \/ (cmd.op = "command" /\ y = n + 1)
  <2>1. Waiting \in Seq(Nat \ {0}) /\ n + 1 \in Nat \ {0}
    BY Queues
  <2>2. PICK x \in Nat \ {0} : x = n + 1
    BY <2>1
  <2>3. CASE cmd.op = "command"
    <3>1. Waiting' = Append(Waiting, x)
      BY <1>1, <2>2, <2>3
    <3>2. \A y : Among(y, Append(Waiting, x)) <=> Among(y, Waiting) \/ y = x
      <4>1. PICK S : S = Nat \ {0}
        OBVIOUS
      <4>2. Waiting \in Seq(S) /\ x \in S
        BY <2>1, <2>2, <4>1
      <4>. QED  BY <4>2, AmongPut
    <3>. QED  BY <2>2, <2>3, <3>1, <3>2
  <2>. QED  BY <2>3
<1>3. \A i \in 1 .. Len(In) : IsAnswer(In[i]) =>
          /\ Among(In[i].id, Waiting) /\ In[i].id \in 1 .. n /\ In[i].id < n + 1
          /\ \A j \in 1 .. l : In[i].id < Out[j].id
  BY <1>1 DEF Flow, AllExpected, Expected
<1>4. ~Among(n + 1, replies) /\ \A y : y \in 1 .. n => (Among(y, replies') => Among(y, replies))
  BY <1>1, Queues
<1>5. Owned \subseteq Owned'
  OBVIOUS
<1>6. Queue'
  <2>1. CASE cmd.op = "command"
    <3>1. Waiting \in Seq(Nat \ {0}) /\ n + 1 \in Nat \ {0}
      BY Queues
    <3>2. PICK m \in Nat : m = Len(Waiting)
      BY <3>1, LenProperties
    <3>3. /\ Len(Waiting') = m + 1 /\ Waiting'[m + 1] = n + 1
          /\ \A i \in 1 .. m : Waiting'[i] = Waiting[i]
      BY <1>1, <2>1, <3>1, <3>2, PutLast
    <3>4. \A i \in 1 .. m : /\ Among(Waiting[i], Waiting) /\ Waiting[i] \in 1 .. n /\ Waiting[i] < n + 1
                            /\ cmds'[Waiting[i]].op = "command" /\ Waiting[i] \in 1 .. n + 1
      BY <1>1, <3>2 DEF Among
    <3>5. \A i \in 1 .. m + 1, k \in 1 .. m + 1 : i < k => i \in 1 .. m
      OBVIOUS
    <3>6. \A i \in 1 .. m + 1 : i \in 1 .. m \/ i = m + 1
      OBVIOUS
    <3>7. ASSUME NEW i \in 1 .. m + 1, NEW k \in 1 .. m + 1, i < k
          PROVE  Waiting'[i] < Waiting'[k]
      <4>1. CASE k \in 1 .. m
        BY <4>1, <3>2, <3>3, <3>5, <3>7 DEF Queue
      <4>2. CASE k = m + 1
        BY <4>2, <3>3, <3>4, <3>5, <3>7
      <4>. QED  BY <3>6, <4>1, <4>2
    <3>8. ASSUME NEW i \in 1 .. m + 1
          PROVE  Waiting'[i] \in 1 .. n + 1 /\ cmds'[Waiting'[i]].op = "command"
      <4>1. CASE i \in 1 .. m
        BY <4>1, <3>3, <3>4
      <4>2. CASE i = m + 1
        BY <4>2, <1>1, <2>1, <3>3
      <4>. QED  BY <3>6, <4>1, <4>2
    <3>. QED  BY <1>1, <3>3, <3>7, <3>8 DEF Queue
  <2>2. CASE cmd.op # "command"
    BY <2>2, <1>1 DEF Queue
  <2>. QED  BY <2>1, <2>2
<1>7. InOrder'
  <2>1. SUFFICES ASSUME NEW i \in 1 .. Len(In), NEW k \in 1 .. Len(In), i < k
                 PROVE  Follows(In[i], In[k])'
    BY DEF InOrder
  <2>2. Follows(In[i], In[k])
    BY <2>1 DEF Flow, InOrder
  <2>3. IsAnswer(In[k]) /\ Among(In[k].id, replies') => Among(In[k].id, replies)
    BY <1>3, <1>4
  <2>. QED  BY <2>2, <2>3 DEF Follows
<1>8. AllExpected'
  <2>1. SUFFICES ASSUME NEW i \in 1 .. Len(In) PROVE Expected(In[i])'
    BY DEF AllExpected
  <2>2. Expected(In[i]) /\ ~IsUnsub(In[i])
    BY DEF Flow, AllExpected
  <2>3. IsAnswer(In[i]) => /\ Among(In[i].id, Waiting')
                           /\ \A j \in 1 .. Len(Out') : In[i].id < Out'[j].id
    BY <1>1, <1>2, <1>3
  <2>. QED  BY <1>5, <2>2, <2>3 DEF Expected
<1>9. LastTold'
  BY DEF LastTold
<1>10. AllRequested'
  <2>1. ASSUME NEW j \in 1 .. l
        PROVE  Requested(j)'
    <3>1. Requested(j) /\ Out'[j] = Out[j] /\ Out[j].id \in 1 .. n /\ Out[j].id < n + 1
      BY <1>1 DEF Flow, AllRequested
    <3>2. Out[j].id \in 1 .. n + 1 /\ Out[j].op = cmds'[Out[j].id].op
      BY <1>1, <3>1 DEF Requested
    <3>3. Out[j].op # "command" => Args(Out[j]) \subseteq Owned'
      BY <1>5, <3>1 DEF Requested
    <3>4. Out[j].op = "command" /\ ~closed => Among(Out[j].id, Waiting')
      BY <1>2, <3>1 DEF Requested
    <3>5. Among(Out[j].id, replies') =>
              /\ serving = {} /\ \A i \in 1 .. Len(In) : ~IsPush(In[i])
              /\ \A k \in 1 .. l + 1 : k < j => Out'[k].op # "subscribe"
      BY <1>1, <1>4, <3>1 DEF Requested
    <3>6. \A k \in 1 .. l + 1 : j < k => Out[j].id < Out'[k].id
      BY <1>1, <3>1 DEF Requested
    <3>7. Out[j].op # "unsubscribe"
      BY <1>1
    <3>. QED  BY <1>1, <3>1, <3>2, <3>3, <3>4, <3>5, <3>6, <3>7 DEF Requested
  <2>2. ASSUME NEW j, j = l + 1
        PROVE  Requested(j)'
    <3>1. Out'[j] = cmd
      BY <1>1, <2>2
    <3>2. ASSUME Among(cmd.id, replies')
          PROVE  /\ serving = {} /\ \A i \in 1 .. Len(In) : ~IsPush(In[i])
                 /\ \A k \in 1 .. l + 1 : k < j => Out'[k].op # "subscribe"
      <4>1. ~subscribed
        BY <1>1, <1>4, <3>2
      <4>2. Owned = {}
        BY <4>1 DEF Flow, Subscriptions
      <4>3. serving = {}
        BY <4>2 DEF Flow, Subscriptions, Types
      <4>4. \A i \in 1 .. Len(In) : ~IsPush(In[i])
        BY <4>2 DEF Flow, AllExpected, Expected
      <4>5. \A k \in 1 .. l : Out[k].op # "subscribe"
        <5>1. TAKE k \in 1 .. l
        <5>2. Out[k] \in Commands
          BY <1>1, Queues
        <5>3. Out[k].op # "command" => Args(Out[k]) = {}
          BY <1>1, <4>2 DEF Flow, AllRequested, Requested
        <5>. QED  BY <5>2, <5>3, ArgsOf
      <4>. QED  BY <1>1, <2>2, <4>3, <4>4, <4>5
    <3>3. \A k \in 1 .. l + 1 : ~(j < k)
      BY <2>2
    <3>4. cmd.op # "command" => Args(cmd) \subseteq Owned'
      BY CommandParts
    <3>. QED  BY <1>1, <1>2, <2>2, <3>1, <3>2, <3>3, <3>4 DEF Requested
  <2>. QED  BY <1>1, <2>1, <2>2 DEF AllRequested
<1>11. Awaited'
  <2>1. SUFFICES ASSUME NEW q \in 1 .. Len(Waiting')
                 PROVE  \/ \E i \in 1 .. Len(In) : IsAnswer(In[i]) /\ In[i].id = Waiting'[q]
                        \/ \E j \in 1 .. Len(Out') : Out'[j].id = Waiting'[q]
    BY DEF Awaited
  <2>2. Among(Waiting'[q], Waiting')
    BY DEF Among
  <2>3. CASE Among(Waiting'[q], Waiting)
    <3>1. PICK p \in 1 .. Len(Waiting) : Waiting[p] = Waiting'[q]
      BY <2>3 DEF Among
    <3>2. \/ \E i \in 1 .. Len(In) : IsAnswer(In[i]) /\ In[i].id = Waiting[p]
          \/ \E j \in 1 .. l : Out[j].id = Waiting[p]
      BY <1>1 DEF Flow, Awaited
    <3>. QED  BY <1>1, <3>1, <3>2
  <2>4. CASE Waiting'[q] = n + 1
    BY <1>1, <2>4
  <2>. QED  BY <1>2, <2>2, <2>3, <2>4
<1>12. Subscriptions'
  <2>1. \A s : Leaving(s)' <=> Leaving(s)
    BY DEF Leaving
  <2>2. \A s : Coming(s)' <=> Coming(s) \/ (cmd.op = "subscribe" /\ s \in Args(cmd))
    BY <1>1 DEF Coming
  <2>3. \A s \in Variants \X Channels : s \in Owned' <=> s \in serving \/ Leaving(s)' \/ Coming(s)'
    BY <2>1, <2>2 DEF Flow, Subscriptions
  <2>4. subscribed' <=> Owned' # {}
    BY ArgsOf DEF Flow, Subscriptions
  <2>. QED  BY <2>3, <2>4 DEF Flow, Subscriptions
<1>. QED  BY <1>6, <1>7, <1>8, <1>9, <1>10, <1>11, <1>12 DEF Flow

\* What the server appends to what is under way.
LEMMA InExtended ==
    ASSUME Types, NEW new \in Seq(Replies), In' = In \o new
    PROVE  /\ Len(In) \in Nat
           /\ \A i \in 1 .. Len(In) : i \in 1 .. Len(In') /\ In'[i] = In[i]
           /\ \A j \in 1 .. Len(new) : /\ Len(In) + j \in 1 .. Len(In') /\ In'[Len(In) + j] = new[j]
                                       /\ \A i \in 1 .. Len(In) : i < Len(In) + j
           /\ \A i \in 1 .. Len(In') : i \in 1 .. Len(In) \/ \E j \in 1 .. Len(new) : i = Len(In) + j
<1>1. In \in Seq(Replies)
  BY Queues
<1>2. PICK l \in Nat, m \in Nat : l = Len(In) /\ m = Len(new)
  BY <1>1, LenProperties
<1>3. \A i \in 1 .. l, j \in 1 .. m : i < l + j
  OBVIOUS
<1>. QED  BY <1>1, <1>2, <1>3, Joined

LEMMA OrderExtended ==
    ASSUME Types, InOrder, NEW new \in Seq(Replies), In' = In \o new, UNCHANGED replies,
           \A i \in 1 .. Len(In), j \in 1 .. Len(new) : Follows(In[i], new[j]),
           \A i, j \in 1 .. Len(new) : i < j => Follows(new[i], new[j])
    PROVE  InOrder'
<1>1. SUFFICES ASSUME NEW i \in 1 .. Len(In'), NEW k \in 1 .. Len(In'), i < k
               PROVE  Follows(In'[i], In'[k])
  BY DEF InOrder, Follows
<1>2. PICK l \in Nat, m \in Nat : l = Len(In) /\ m = Len(new)
  BY LenProperties, Queues
<1>3. /\ \A a \in 1 .. l : In'[a] = In[a]
      /\ \A a \in 1 .. m : In'[l + a] = new[a]
      /\ i \in 1 .. l \/ \E a \in 1 .. m : i = l + a
      /\ k \in 1 .. l \/ \E a \in 1 .. m : k = l + a
  BY <1>2, InExtended
<1>4. CASE i \in 1 .. l /\ k \in 1 .. l
  BY <1>1, <1>2, <1>3, <1>4 DEF InOrder
<1>5. CASE i \in 1 .. l /\ \E a \in 1 .. m : k = l + a
  BY <1>2, <1>3, <1>5
<1>6. ASSUME NEW a \in 1 .. m, i = l + a, k \in 1 .. l
      PROVE  FALSE
  BY <1>1, <1>6
<1>7. ASSUME NEW a \in 1 .. m, i = l + a, NEW b \in 1 .. m, k = l + b
      PROVE  Follows(In'[i], In'[k])
  <2>1. a < b
    BY <1>1, <1>7
  <2>. QED  BY <2>1, <1>2, <1>3, <1>7
<1>. QED  BY <1>3, <1>4, <1>5, <1>6, <1>7

\* A request that the server takes.
LEMMA RequestTaken ==
    ASSUME Types, Flow, ~closed, Out # <<>>, Out' = Tail(Out)
    PROVE  /\ 1 \in 1 .. Len(Out) /\ Len(Out) \in Nat /\ Len(Out)' \in Nat /\ Out[1] \in Commands
           /\ \A j \in 1 .. Len(Out)' : j + 1 \in 1 .. Len(Out) /\ Out'[j] = Out[j + 1] /\ 1 < j + 1
           /\ \A j \in 1 .. Len(Out) : j # 1 => /\ 1 < j /\ j - 1 \in 1 .. Len(Out)'
                                                /\ Out'[j - 1] = Out[j]
           /\ Requested(1)
           /\ \A i \in 1 .. Len(In) : ~IsUnsub(In[i]) /\ ~IsRefusal(In[i])
           /\ \A s : Coming(s) <=> Coming(s)' \/ (Out[1].op = "subscribe" /\ s \in Args(Out[1]))
<1>1. Out \in Seq(Commands)
  BY Queues
<1>2. Tail(Out) \in Seq(Commands) /\ Len(Tail(Out)) \in Nat
  BY <1>1, TakenFirst, LenProperties
<1>3. /\ 1 \in 1 .. Len(Out) /\ Len(Out) \in Nat /\ Len(Out)' \in Nat /\ Out[1] \in Commands
      /\ \A j \in 1 .. Len(Out)' : j + 1 \in 1 .. Len(Out) /\ Out'[j] = Out[j + 1] /\ 1 < j + 1
      /\ \A j \in 1 .. Len(Out) : j # 1 => /\ 1 < j /\ j - 1 \in 1 .. Len(Out)'
                                           /\ Out'[j - 1] = Out[j]
  BY <1>1, <1>2, TakenFirst, Queues
<1>4. \A i \in 1 .. Len(In) : ~IsUnsub(In[i]) /\ ~IsRefusal(In[i])
  BY DEF Flow, AllExpected, Expected
<1>5. Requested(1)
  BY <1>3 DEF Flow, AllRequested
<1>6. \A s : Coming(s) <=> Coming(s)' \/ (Out[1].op = "subscribe" /\ s \in Args(Out[1]))
  <2>1. TAKE s
  <2>2. Coming(s)' => Coming(s)
    BY <1>3 DEF Coming
  <2>3. Out[1].op = "subscribe" /\ s \in Args(Out[1]) => Coming(s)
    BY <1>3 DEF Coming
  <2>4. ASSUME Coming(s), ~(Out[1].op = "subscribe" /\ s \in Args(Out[1]))
        PROVE  Coming(s)'
    <3>1. PICK j \in 1 .. Len(Out) : Out[j].op = "subscribe" /\ s \in Args(Out[j])
      BY <2>4 DEF Coming
    <3>2. j # 1
      BY <2>4, <3>1
    <3>. QED  BY <1>3, <3>1, <3>2 DEF Coming
  <2>. QED  BY <2>2, <2>3, <2>4
<1>. QED  BY <1>3, <1>4, <1>5, <1>6

\* The server answers a command.
LEMMA CommandFlow ==
    ASSUME Types, Queue, Flow, ~closed, Out # <<>>, Out' = Tail(Out), Out[1].op = "command",
           NEW x \in Replies, IsAnswer(x), x.id = Out[1].id, In' = Append(In, x),
           UNCHANGED <<Waiting, replies, invalid, Owned, serving, closed, cmds, subscribed>>
    PROVE  Flow'
<1>1. /\ 1 \in 1 .. Len(Out) /\ Len(Out) \in Nat /\ Len(Out)' \in Nat /\ Out[1] \in Commands
      /\ \A j \in 1 .. Len(Out)' : j + 1 \in 1 .. Len(Out) /\ Out'[j] = Out[j + 1] /\ 1 < j + 1
      /\ \A j \in 1 .. Len(Out) : j # 1 => /\ 1 < j /\ j - 1 \in 1 .. Len(Out)'
                                           /\ Out'[j - 1] = Out[j]
      /\ Requested(1)
      /\ \A i \in 1 .. Len(In) : ~IsUnsub(In[i]) /\ ~IsRefusal(In[i])
      /\ \A s : Coming(s) <=> Coming(s)'
  BY RequestTaken
<1>2. PICK l \in Nat : /\ l = Len(In) /\ Len(In') = l + 1 /\ In'[l + 1] = x
                       /\ \A i \in 1 .. l : i \in 1 .. l + 1 /\ In'[i] = In[i]
                       /\ \A i \in 1 .. l + 1 : i \in 1 .. l \/ i = l + 1
                       /\ \A i \in 1 .. l + 1, k \in 1 .. l + 1 : i < k => i \in 1 .. l
                       /\ l + 1 \in 1 .. l + 1
  BY InGrown
<1>3. ~IsPush(x) /\ ~IsUnsub(x) /\ ~IsRefusal(x) /\ x.id \in Nat
  BY Kinds
<1>4. /\ Among(x.id, Waiting) /\ \A k \in 1 .. Len(Out) : 1 < k => x.id < Out[k].id
      /\ Among(x.id, replies) => \A i \in 1 .. Len(In) : ~IsPush(In[i])
  BY <1>1 DEF Requested
<1>5. InOrder'
  <2>1. SUFFICES ASSUME NEW i \in 1 .. l + 1, NEW k \in 1 .. l + 1, i < k
                 PROVE  Follows(In[i], In[k])'
    BY <1>2 DEF InOrder
  <2>2. i \in 1 .. l /\ In'[i] = In[i] /\ ~IsUnsub(In[i]) /\ ~IsRefusal(In[i])
    BY <1>1, <1>2, <2>1
  <2>3. CASE k \in 1 .. l
    BY <1>2, <2>1, <2>2, <2>3 DEF Flow, InOrder, Follows
  <2>4. CASE k = l + 1
    <3>1. IsAnswer(In[i]) => In[i].id < x.id
      BY <1>1, <1>2, <2>2 DEF Flow, AllExpected, Expected
    <3>. QED  BY <1>2, <1>3, <1>4, <2>2, <2>4, <3>1 DEF Follows
  <2>. QED  BY <1>2, <2>3, <2>4
<1>6. AllExpected'
  <2>1. \A j \in 1 .. Len(Out') : x.id < Out'[j].id
    BY <1>1, <1>4
  <2>2. Expected(x)'
    <3>1. x.type = "reply" => x.id # 0
      BY DEF IsAnswer
    <3>. QED  BY <1>3, <1>4, <2>1, <3>1 DEF Expected
  <2>3. SUFFICES ASSUME NEW i \in 1 .. l + 1 PROVE Expected(In[i])'
    BY <1>2 DEF AllExpected
  <2>4. CASE i \in 1 .. l
    <3>1. Expected(In[i]) /\ In'[i] = In[i] /\ ~IsUnsub(In[i])
      BY <1>1, <1>2, <2>4 DEF Flow, AllExpected
    <3>2. (\A j \in 1 .. Len(Out) : In[i].id < Out[j].id) => \A j \in 1 .. Len(Out') : In[i].id < Out'[j].id
      BY <1>1
    <3>. QED  BY <3>1, <3>2 DEF Expected
  <2>5. CASE i = l + 1
    BY <1>2, <2>2, <2>5 DEF Expected
  <2>. QED  BY <1>2, <2>4, <2>5
<1>7. LastTold'
  BY <1>1, <1>2, <1>3 DEF LastTold
<1>8. AllRequested'
  <2>1. SUFFICES ASSUME NEW j \in 1 .. Len(Out') PROVE Requested(j)'
    BY DEF AllRequested
  <2>2. Requested(j + 1) /\ Out'[j] = Out[j + 1] /\ j + 1 \in 1 .. Len(Out)
    BY <1>1, <2>1 DEF Flow, AllRequested
  <2>3. Out[j + 1].op = "unsubscribe" => j = Len(Out')
    <3>1. j + 1 = Len(Out) => j = Len(Out')
      BY <1>1, HeadTailProperties, Queues
    <3>. QED  BY <2>2, <3>1 DEF Requested
  <2>4. Among(Out[j + 1].id, replies) =>
            /\ \A i \in 1 .. l + 1 : ~IsPush(In'[i])
            /\ \A k \in 1 .. Len(Out') : k < j => Out'[k].op # "subscribe"
    <3>1. Among(Out[j + 1].id, replies) => \A i \in 1 .. l + 1 : ~IsPush(In'[i])
      BY <1>2, <1>3, <2>2 DEF Requested
    <3>2. \A k \in 1 .. Len(Out') : k < j => k + 1 < j + 1
      BY <1>1, <2>1
    <3>3. Among(Out[j + 1].id, replies) =>
              \A k \in 1 .. Len(Out') : k < j => Out'[k].op # "subscribe"
      BY <1>1, <2>2, <3>2 DEF Requested
    <3>. QED  BY <3>1, <3>3
  <2>5. \A k \in 1 .. Len(Out') : j < k => Out'[j].id < Out'[k].id
    <3>1. \A k \in 1 .. Len(Out') : j < k => j + 1 < k + 1
      BY <1>1, <2>1
    <3>. QED  BY <1>1, <2>2, <3>1 DEF Requested
  <2>. QED  BY <1>2, <2>2, <2>3, <2>4, <2>5 DEF Requested
<1>9. Awaited'
  <2>1. SUFFICES ASSUME NEW q \in 1 .. Len(Waiting)
                 PROVE  \/ \E i \in 1 .. Len(In') : IsAnswer(In'[i]) /\ In'[i].id = Waiting[q]
                        \/ \E j \in 1 .. Len(Out') : Out'[j].id = Waiting[q]
    BY DEF Awaited
  <2>2. CASE \E i \in 1 .. Len(In) : IsAnswer(In[i]) /\ In[i].id = Waiting[q]
    BY <1>2, <2>2
  <2>3. CASE \E j \in 1 .. Len(Out) : Out[j].id = Waiting[q]
    <3>1. PICK j \in 1 .. Len(Out) : Out[j].id = Waiting[q]
      BY <2>3
    <3>2. CASE j = 1
      <4>1. In'[l + 1] = x /\ l + 1 \in 1 .. Len(In')
        BY <1>2
      <4>. QED  BY <3>1, <3>2, <4>1
    <3>3. CASE j # 1
      <4>1. j - 1 \in 1 .. Len(Out') /\ Out'[j - 1] = Out[j]
        BY <1>1, <3>3
      <4>. QED  BY <3>1, <4>1
    <3>. QED  BY <3>2, <3>3
  <2>. QED  BY <2>2, <2>3 DEF Flow, Awaited
<1>10. Subscriptions'
  <2>1. \A s : Leaving(s) <=> Leaving(s)'
    BY <1>2, <1>3 DEF Leaving
  <2>. QED  BY <1>1, <2>1 DEF Flow, Subscriptions
<1>. QED  BY <1>5, <1>6, <1>7, <1>8, <1>9, <1>10 DEF Flow

\* The server begins to serve.
LEMMA SubscribeFlow ==
    ASSUME Types, Queue, Flow, ~closed, Out # <<>>, Out' = Tail(Out), Out[1].op = "subscribe",
           NEW new \in Seq(Replies), In' = In \o new,
           \A i \in 1 .. Len(new) : IsPush(new[i]) /\ ~IsUnsub(new[i]) /\ On(new[i]) \in Args(Out[1]),
           serving' = serving \union Args(Out[1]),
           UNCHANGED <<Waiting, replies, invalid, Owned, closed, cmds, subscribed>>
    PROVE  Flow'
<1>1. /\ 1 \in 1 .. Len(Out) /\ Len(Out) \in Nat /\ Len(Out)' \in Nat /\ Out[1] \in Commands
      /\ \A j \in 1 .. Len(Out)' : j + 1 \in 1 .. Len(Out) /\ Out'[j] = Out[j + 1] /\ 1 < j + 1
      /\ \A j \in 1 .. Len(Out) : j # 1 => /\ 1 < j /\ j - 1 \in 1 .. Len(Out)'
                                           /\ Out'[j - 1] = Out[j]
      /\ Requested(1)
      /\ \A i \in 1 .. Len(In) : ~IsUnsub(In[i]) /\ ~IsRefusal(In[i])
      /\ \A s : Coming(s) <=> Coming(s)' \/ (Out[1].op = "subscribe" /\ s \in Args(Out[1]))
  BY RequestTaken
<1>2. /\ Len(In) \in Nat
      /\ \A i \in 1 .. Len(In) : i \in 1 .. Len(In') /\ In'[i] = In[i]
      /\ \A j \in 1 .. Len(new) : Len(In) + j \in 1 .. Len(In') /\ In'[Len(In) + j] = new[j]
      /\ \A i \in 1 .. Len(In') : i \in 1 .. Len(In) \/ \E j \in 1 .. Len(new) : i = Len(In) + j
  BY InExtended
<1>3. Args(Out[1]) \subseteq Owned
  BY <1>1 DEF Requested
<1>4. \A i \in 1 .. Len(new) : /\ IsPush(new[i]) /\ ~IsUnsub(new[i]) /\ On(new[i]) \in Owned
                               /\ ~IsAnswer(new[i]) /\ ~IsRefusal(new[i]) /\ new[i].type # "reply"
  BY <1>3 DEF IsPush, IsAnswer, IsRefusal
<1>5. \A i \in 1 .. Len(In') : ~IsUnsub(In'[i]) /\ ~IsRefusal(In'[i])
  BY <1>1, <1>2, <1>4
<1>6. InOrder'
  <2>1. \A i \in 1 .. Len(In), j \in 1 .. Len(new) : Follows(In[i], new[j])
    BY <1>1, <1>4 DEF Follows
  <2>2. \A i, j \in 1 .. Len(new) : i < j => Follows(new[i], new[j])
    BY <1>4 DEF Follows
  <2>. QED  BY <2>1, <2>2, OrderExtended DEF Flow
<1>7. AllExpected'
  <2>1. SUFFICES ASSUME NEW i \in 1 .. Len(In') PROVE Expected(In[i])'
    BY DEF AllExpected
  <2>2. CASE i \in 1 .. Len(In)
    <3>1. Expected(In[i]) /\ In'[i] = In[i] /\ ~IsUnsub(In[i])
      BY <1>1, <1>2, <2>2 DEF Flow, AllExpected
    <3>2. (\A j \in 1 .. Len(Out) : In[i].id < Out[j].id) => \A j \in 1 .. Len(Out') : In[i].id < Out'[j].id
      BY <1>1
    <3>. QED  BY <3>1, <3>2 DEF Expected
  <2>3. ASSUME NEW j \in 1 .. Len(new), i = Len(In) + j
        PROVE  Expected(In[i])'
    <3>1. In'[i] = new[j]
      BY <1>2, <2>3
    <3>. QED  BY <1>4, <3>1 DEF Expected
  <2>. QED  BY <1>2, <2>2, <2>3
<1>8. LastTold'
  BY <1>5 DEF LastTold
<1>9. AllRequested'
  <2>1. SUFFICES ASSUME NEW j \in 1 .. Len(Out') PROVE Requested(j)'
    BY DEF AllRequested
  <2>2. Requested(j + 1) /\ Out'[j] = Out[j + 1] /\ j + 1 \in 1 .. Len(Out) /\ 1 < j + 1
    BY <1>1, <2>1 DEF Flow, AllRequested
  <2>3. Out[j + 1].op = "unsubscribe" => j = Len(Out')
    <3>1. j + 1 = Len(Out) => j = Len(Out')
      BY <1>1, HeadTailProperties, Queues
    <3>. QED  BY <2>2, <3>1 DEF Requested
  <2>4. ~Among(Out[j + 1].id, replies)
    BY <1>1, <2>2 DEF Requested
  <2>5. \A k \in 1 .. Len(Out') : j < k => Out'[j].id < Out'[k].id
    <3>1. \A k \in 1 .. Len(Out') : j < k => j + 1 < k + 1
      BY <1>1, <2>1
    <3>. QED  BY <1>1, <2>2, <3>1 DEF Requested
  <2>6. PICK y : y = Out[j + 1] /\ Out'[j] = y
    BY <2>2
  <2>7. /\ y.id \in 1 .. Len(cmds) /\ y.op = cmds[y.id].op
        /\ y.op # "command" => Args(y) \subseteq Owned
        /\ y.op = "unsubscribe" => \A a, b \in 1 .. Len(y.list) : y.list[a] = y.list[b] => a = b
        /\ y.op = "command" => Among(y.id, Waiting)
    BY <2>2, <2>6 DEF Requested
  <2>8. /\ y.op = "unsubscribe" => j = Len(Out')
        /\ ~Among(y.id, replies)
        /\ \A k \in 1 .. Len(Out') : j < k => y.id < Out'[k].id
    BY <2>3, <2>4, <2>5, <2>6
  <2>9. Out'[j] = y
    BY <2>6
  <2>. QED  BY <2>7, <2>8, <2>9 DEF Requested
<1>10. Awaited'
  <2>1. SUFFICES ASSUME NEW q \in 1 .. Len(Waiting)
                 PROVE  \/ \E i \in 1 .. Len(In') : IsAnswer(In'[i]) /\ In'[i].id = Waiting[q]
                        \/ \E j \in 1 .. Len(Out') : Out'[j].id = Waiting[q]
    BY DEF Awaited
  <2>2. CASE \E i \in 1 .. Len(In) : IsAnswer(In[i]) /\ In[i].id = Waiting[q]
    BY <1>2, <2>2
  <2>3. ASSUME NEW j \in 1 .. Len(Out), Out[j].id = Waiting[q]
        PROVE  \E k \in 1 .. Len(Out') : Out'[k].id = Waiting[q]
    <3>1. cmds[Out[j].id].op = "command"
      BY <2>3 DEF Queue
    <3>2. j # 1
      BY <1>1, <3>1 DEF Requested
    <3>3. j - 1 \in 1 .. Len(Out') /\ Out'[j - 1] = Out[j]
      BY <1>1, <3>2
    <3>. QED  BY <2>3, <3>3
  <2>4. \/ \E i \in 1 .. Len(In) : IsAnswer(In[i]) /\ In[i].id = Waiting[q]
        \/ \E j \in 1 .. Len(Out) : Out[j].id = Waiting[q]
    BY DEF Flow, Awaited
  <2>. QED  BY <2>2, <2>3, <2>4
<1>11. Subscriptions'
  <2>1. \A s : ~Leaving(s) /\ ~Leaving(s)'
    BY <1>1, <1>5 DEF Leaving
  <2>. QED  BY <1>1, <2>1 DEF Flow, Subscriptions
<1>. QED  BY <1>6, <1>7, <1>8, <1>9, <1>10, <1>11 DEF Flow

\* The server serves something no more.
LEMMA UnsubscribeFlow ==
    ASSUME Types, Types', Queue, Flow, ~closed, Out # <<>>, Out' = Tail(Out),
           Out[1].op = "unsubscribe",
           NEW new \in Seq(Replies), In' = In \o new, Len(new) = Len(Out[1].list),
           \A i \in 1 .. Len(new) : /\ IsUnsub(new[i])
                                    /\ On(new[i]) = <<Out[1].v, Out[1].list[i]>>
                                    /\ new[i].left = 0 <=> serving' = {} /\ i = Len(new),
           serving' = serving \ Args(Out[1]),
           UNCHANGED <<Waiting, replies, invalid, Owned, closed, cmds, subscribed>>
    PROVE  Flow'
<1>1. /\ 1 \in 1 .. Len(Out) /\ Len(Out) \in Nat /\ Len(Out)' \in Nat /\ Out[1] \in Commands
      /\ Requested(1)
      /\ \A i \in 1 .. Len(In) : ~IsUnsub(In[i]) /\ ~IsRefusal(In[i])
      /\ \A s : Coming(s) <=> Coming(s)'
  BY RequestTaken
<1>2. /\ Len(In) \in Nat
      /\ \A i \in 1 .. Len(In) : i \in 1 .. Len(In') /\ In'[i] = In[i]
      /\ \A j \in 1 .. Len(new) : /\ Len(In) + j \in 1 .. Len(In') /\ In'[Len(In) + j] = new[j]
      /\ \A i \in 1 .. Len(In') : i \in 1 .. Len(In) \/ \E j \in 1 .. Len(new) : i = Len(In) + j
  BY InExtended
<1>3. Out' = <<>> /\ 1 .. Len(Out') = {} /\ \A j \in 1 .. Len(Out) : j = 1
  <2>1. Len(Out) = 1
    BY <1>1 DEF Requested
  <2>2. Out \in Seq(Commands) /\ Out' \in Seq(Commands)
    BY HeadTailProperties, Queues
  <2>3. Len(Out') = 0
    BY <2>1, <2>2, HeadTailProperties
  <2>4. Out' = <<>>
    BY <2>2, <2>3, EmptySeq
  <2>. QED  BY <2>1, <2>3, <2>4
<1>4. Args(Out[1]) \subseteq Owned
  BY <1>1 DEF Requested
<1>5. /\ Len(new) \in Nat \ {0}
      /\ \A s : s \in Args(Out[1]) <=> \E i \in 1 .. Len(new) : s = On(new[i])
  <2>1. Len(Out[1].list) \in Nat \ {0}
    BY <1>1, CommandParts
  <2>2. \A s : s \in Args(Out[1]) <=> \E i \in 1 .. Len(Out[1].list) : s = <<Out[1].v, Out[1].list[i]>>
    BY <1>1, ArgsOf
  <2>3. \A i \in 1 .. Len(new) : On(new[i]) = <<Out[1].v, Out[1].list[i]>>
    OBVIOUS
  <2>4. Len(new) = Len(Out[1].list)
    OBVIOUS
  <2>5. \A s : (\E i \in 1 .. Len(new) : s = On(new[i]))
                   <=> \E i \in 1 .. Len(Out[1].list) : s = <<Out[1].v, Out[1].list[i]>>
    BY ONLY <2>3, <2>4
  <2>. QED  BY <2>1, <2>2, <2>4, <2>5
<1>6. \A i \in 1 .. Len(new) : /\ IsUnsub(new[i]) /\ IsPush(new[i]) /\ On(new[i]) \in Owned
                               /\ ~IsAnswer(new[i]) /\ ~IsRefusal(new[i]) /\ new[i].type # "reply"
                               /\ On(new[i]) \notin serving'
  BY <1>4, <1>5 DEF IsUnsub, IsPush, IsAnswer, IsRefusal
<1>7. \A i, j \in 1 .. Len(new) : i < j => On(new[i]) # On(new[j]) /\ new[i].left # 0
  <2>1. TAKE i, j \in 1 .. Len(new)
  <2>2. HAVE i < j
  <2>3. i # j /\ i # Len(new)
    BY <2>2, <1>5
  <2>4. Out[1].list[i] # Out[1].list[j]
    BY <1>1, <2>3 DEF Requested
  <2>5. /\ On(new[i]) = <<Out[1].v, Out[1].list[i]>> /\ On(new[j]) = <<Out[1].v, Out[1].list[j]>>
        /\ new[i].left # 0
    BY <2>3
  <2>6. \A v, a, b : a # b => <<v, a>> # <<v, b>>
    OBVIOUS
  <2>. QED  BY ONLY <2>4, <2>5, <2>6
<1>8. InOrder'
  <2>1. \A i \in 1 .. Len(In), j \in 1 .. Len(new) : Follows(In[i], new[j])
    BY <1>1, <1>6 DEF Follows
  <2>2. \A i, j \in 1 .. Len(new) : i < j => Follows(new[i], new[j])
    BY <1>6, <1>7 DEF Follows
  <2>. QED  BY <2>1, <2>2, OrderExtended DEF Flow
<1>9. AllExpected'
  <2>1. SUFFICES ASSUME NEW i \in 1 .. Len(In') PROVE Expected(In[i])'
    BY DEF AllExpected
  <2>2. CASE i \in 1 .. Len(In)
    <3>1. Expected(In[i]) /\ In'[i] = In[i] /\ ~IsUnsub(In[i])
      BY <1>1, <1>2, <2>2 DEF Flow, AllExpected
    <3>. QED  BY <1>3, <3>1 DEF Expected
  <2>3. ASSUME NEW j \in 1 .. Len(new), i = Len(In) + j
        PROVE  Expected(In[i])'
    <3>1. In'[i] = new[j]
      BY <1>2, <2>3
    <3>. QED  BY <1>3, <1>6, <3>1 DEF Expected
  <2>. QED  BY <1>2, <2>2, <2>3
<1>10. LastTold'
  <2>1. SUFFICES ASSUME NEW i \in 1 .. Len(In'), IsUnsub(In'[i]), In'[i].left # 0, serving' = {}
                 PROVE  \E k \in 1 .. Len(In') : i < k /\ IsUnsub(In'[k])
    BY DEF LastTold
  <2>2. i \notin 1 .. Len(In)
    BY <1>1, <1>2, <2>1
  <2>3. PICK j \in 1 .. Len(new) : i = Len(In) + j
    BY <1>2, <2>2
  <2>4. PICK l \in Nat, m \in Nat \ {0} : l = Len(In) /\ m = Len(new)
    BY <1>2, <1>5
  <2>5. j # m
    BY <1>2, <2>1, <2>3, <2>4
  <2>6. m \in 1 .. m /\ l + j < l + m
    BY <2>3, <2>4, <2>5
  <2>. QED  BY <1>2, <1>6, <2>3, <2>4, <2>6
<1>11. AllRequested'
  BY <1>3 DEF AllRequested
<1>12. Awaited'
  <2>1. SUFFICES ASSUME NEW q \in 1 .. Len(Waiting)
                 PROVE  \E i \in 1 .. Len(In') : IsAnswer(In'[i]) /\ In'[i].id = Waiting[q]
    BY DEF Awaited
  <2>2. CASE \E i \in 1 .. Len(In) : IsAnswer(In[i]) /\ In[i].id = Waiting[q]
    BY <1>2, <2>2
  <2>3. ~ \E j \in 1 .. Len(Out) : Out[j].id = Waiting[q]
    <3>1. cmds[Waiting[q]].op = "command"
      BY DEF Queue
    <3>. QED  BY <1>1, <1>3, <3>1 DEF Requested
  <2>. QED  BY <2>2, <2>3 DEF Flow, Awaited
<1>13. Subscriptions'
  <2>1. \A s : ~Coming(s) /\ ~Coming(s)'
    BY <1>1, <1>3 DEF Coming
  <2>2. \A s : ~Leaving(s)
    BY <1>1 DEF Leaving
  <2>3. \A s : Leaving(s)' <=> s \in Args(Out[1])
    <3>1. TAKE s
    <3>2. ASSUME Leaving(s)'
          PROVE  s \in Args(Out[1])
      <4>1. PICK i \in 1 .. Len(In') : IsUnsub(In'[i]) /\ On(In'[i]) = s
        BY <3>2 DEF Leaving
      <4>2. PICK j \in 1 .. Len(new) : i = Len(In) + j
        BY <1>1, <1>2, <4>1
      <4>. QED  BY <1>2, <1>5, <4>1, <4>2
    <3>3. ASSUME s \in Args(Out[1])
          PROVE  Leaving(s)'
      <4>1. PICK j \in 1 .. Len(new) : s = On(new[j])
        BY <1>5, <3>3
      <4>2. PICK i \in 1 .. Len(In') : In'[i] = new[j]
        BY <1>2
      <4>. QED  BY <1>6, <4>1, <4>2 DEF Leaving
    <3>. QED  BY <3>2, <3>3
  <2>4. \A s \in Variants \X Channels : s \in Owned' <=> s \in serving' \/ Leaving(s)' \/ Coming(s)'
    BY <1>4, <2>1, <2>2, <2>3 DEF Flow, Subscriptions
  <2>. QED  BY <2>4 DEF Flow, Subscriptions
<1>. QED  BY <1>8, <1>9, <1>10, <1>11, <1>12, <1>13 DEF Flow

(***************************************************************************)
(* The steps of the program.                                               *)
(***************************************************************************)
LEMMA LengthGrows ==
    ASSUME Types, NEW cmd \in Commands, cmds' = Append(cmds, cmd)
    PROVE  /\ Len(cmds) \in Nat /\ Len(cmds') = Len(cmds) + 1 /\ cmds'[Len(cmds) + 1] = cmd
           /\ Len(cmds) + 1 \in 1 .. Len(cmds') /\ Len(cmds) + 1 \notin 1 .. Len(cmds)
           /\ \A i \in 1 .. Len(cmds) : i \in 1 .. Len(cmds') /\ cmds'[i] = cmds[i]
           /\ \A i \in 1 .. Len(cmds') : i \in 1 .. Len(cmds) \/ i = Len(cmds) + 1
<1>1. PICK n \in Nat : n = Len(cmds)
  BY Queues
<1>2. /\ Len(Append(cmds, cmd)) = n + 1 /\ Append(cmds, cmd)[n + 1] = cmd
      /\ \A i \in 1 .. n : Append(cmds, cmd)[i] = cmds[i]
  BY <1>1, Queues, PutLast
<1>. QED  BY <1>1, <1>2

\* The client issues something while it runs, and when nothing leaves.
LEMMA AcceptParts ==
    ASSUME Types, Ending, NEW cmd \in Commands, Accept(cmd)
    PROVE  /\ Running /\ Running' /\ In' = In /\ Out' = Append(Out, cmd) /\ cmds' = Append(cmds, cmd)
           /\ \A i \in 1 .. Len(In) : ~IsUnsub(In[i])
           /\ \A j \in 1 .. Len(Out) : Out[j].op # "unsubscribe"
           /\ UNCHANGED <<serving, closed>> /\ ran' = Append(ran, <<>>)
<1>1. /\ UNCHANGED <<pc, disconnecting, freeing, requests, wire, inbox, serving, closed>>
      /\ cmds' = Append(cmds, cmd) /\ obuf' = Append(obuf, cmd)
  BY AcceptTypes
<1>2. Running /\ Running'
  BY <1>1 DEF Accept, CanIssue, ClientsTurn, InCallback, Ending, Over, Running
<1>3. In' = In
  BY <1>1 DEF In
<1>4. Out' = Append(Out, cmd)
  <2>1. requests \o Append(obuf, cmd) = Append(requests \o obuf, cmd)
    <3>1. requests \in Seq(Commands) /\ obuf \in Seq(Commands)
      BY Queues
    <3>. QED  BY <3>1, AppendJoined
  <2>2. Out' = requests \o Append(obuf, cmd)
    BY <1>1 DEF Out
  <2>. QED  BY <2>1, <2>2 DEF Out
<1>5. /\ \A i \in DOMAIN (obuf \o requests) : (obuf \o requests)[i].op # "unsubscribe"
      /\ \A i \in DOMAIN (wire \o inbox) : (wire \o inbox)[i].type # "unsubscribe"
      /\ ran' = Append(ran, <<>>)
  BY DEF Accept, NothingLeaving
<1>6. \A i \in 1 .. Len(In) : ~IsUnsub(In[i])
  <2>1. TAKE i \in 1 .. Len(In)
  <2>2. Among(In[i], In)
    BY DEF Among
  <2>3. Among(In[i], wire \o inbox)
    BY <2>2, Queues, AmongJoined DEF In
  <2>4. wire \o inbox \in Seq(Replies)
    BY Queues, ConcatProperties
  <2>5. DOMAIN (wire \o inbox) = 1 .. Len(wire \o inbox)
    BY <2>4, LenProperties
  <2>. QED  BY <1>5, <2>3, <2>5 DEF Among, IsUnsub
<1>7. \A j \in 1 .. Len(Out) : Out[j].op # "unsubscribe"
  <2>1. TAKE j \in 1 .. Len(Out)
  <2>2. Among(Out[j], Out)
    BY DEF Among
  <2>3. Among(Out[j], obuf \o requests)
    BY <2>2, Queues, AmongJoined DEF Out
  <2>4. obuf \o requests \in Seq(Commands)
    BY Queues, ConcatProperties
  <2>5. DOMAIN (obuf \o requests) = 1 .. Len(obuf \o requests)
    BY <2>4, LenProperties
  <2>. QED  BY <1>5, <2>3, <2>5 DEF Among
<1>. QED  BY <1>1, <1>2, <1>3, <1>4, <1>5, <1>6, <1>7

LEMMA CommandIssued ==
    ASSUME Consistent, Command
    PROVE  /\ Queue' /\ Flow'
           /\ \A y : Among(y, Waiting') <=> Among(y, Waiting) \/ y = Len(cmds) + 1
<1>1. PICK cmd \in Commands : /\ cmd = Cmd("command", "", <<>>) /\ Accept(cmd)
                              /\ cmd.op = "command" /\ cmd.id = Len(cmds) + 1
  BY CmdTypes DEF Command, Cmd, Consistent
<1>2. /\ IF subscribed
         THEN invalid' = Append(invalid, cmd.id) /\ UNCHANGED replies
         ELSE replies' = Append(replies, cmd.id) /\ UNCHANGED invalid
      /\ UNCHANGED <<subscribed, subs, owner>>
  BY <1>1 DEF Command
<1>3. Types /\ Ending /\ Queue
  BY DEF Consistent
<1>4. /\ Running /\ Running' /\ In' = In /\ Out' = Append(Out, cmd) /\ cmds' = Append(cmds, cmd)
      /\ \A i \in 1 .. Len(In) : ~IsUnsub(In[i])
      /\ \A j \in 1 .. Len(Out) : Out[j].op # "unsubscribe"
      /\ UNCHANGED <<serving, closed>>
  BY <1>1, <1>3, AcceptParts
<1>5. Flow
  BY <1>4 DEF Consistent
<1>6. PICK S : S = Nat \ {0}
  OBVIOUS
<1>7. replies \in Seq(S) /\ invalid \in Seq(S) /\ cmd.id \in S
  BY <1>1, <1>3, <1>6, Queues, CmdTypes
<1>8. Waiting' = Append(Waiting, cmd.id)
  <2>1. CASE subscribed
    BY <2>1, <1>2, <1>7, AppendJoined DEF Waiting
  <2>2. CASE ~subscribed
    <3>1. invalid = <<>>
      BY <1>5, <2>2 DEF Flow, Subscriptions
    <3>2. replies \o <<>> = replies /\ Append(replies, cmd.id) \o <<>> = Append(replies, cmd.id)
      BY <1>7, AppendProperties, ConcatEmptySeq
    <3>. QED  BY <1>2, <2>2, <3>1, <3>2 DEF Waiting
  <2>. QED  BY <2>1, <2>2
<1>9. \A y : Among(y, replies') => Among(y, replies) \/ (y = cmd.id /\ ~subscribed)
  BY <1>2, <1>7, AmongPut
<1>10. ~subscribed' /\ invalid = <<>> => invalid' = <<>>
  BY <1>2
<1>11. Owned' = Owned
  BY <1>2 DEF Owned
<1>12. subscribed' = (subscribed \/ cmd.op = "subscribe")
  BY <1>1, <1>2, <1>3 DEF Types
<1>13. Queue' /\ Flow'
  BY <1>1, <1>3, <1>4, <1>5, <1>8, <1>9, <1>10, <1>11, <1>12, IssueFlow
<1>14. \A y : Among(y, Append(Waiting, cmd.id)) <=> Among(y, Waiting) \/ y = cmd.id
  <2>1. Waiting \in Seq(S)
    BY <1>3, <1>6, Queues
  <2>. QED  BY <2>1, <1>7, AmongPut
<1>. QED  BY <1>1, <1>8, <1>13, <1>14

LEMMA SubscribeIssued ==
    ASSUME Consistent, NEW v \in Variants, NEW list \in Lists, Subscribe(v, list)
    PROVE  Queue' /\ Flow'
<1>1. PICK cmd \in Commands : /\ cmd = Cmd("subscribe", v, list) /\ Accept(cmd)
                              /\ cmd.op = "subscribe" /\ cmd.id = Len(cmds) + 1
                              /\ cmd.v = v /\ cmd.list = list
  BY CmdTypes DEF Subscribe, Cmd, Consistent
<1>2. /\ UNCHANGED <<replies, invalid>> /\ subscribed' = TRUE
      /\ owner' = [owner EXCEPT ![v] =
                     [c \in Channels |-> IF c \in Range(list) THEN cmd.id ELSE owner[v][c]]]
  BY <1>1 DEF Subscribe
<1>3. Types /\ Ending /\ Queue
  BY DEF Consistent
<1>4. /\ Running /\ Running' /\ In' = In /\ Out' = Append(Out, cmd) /\ cmds' = Append(cmds, cmd)
      /\ \A i \in 1 .. Len(In) : ~IsUnsub(In[i])
      /\ \A j \in 1 .. Len(Out) : Out[j].op # "unsubscribe"
      /\ UNCHANGED <<serving, closed>>
  BY <1>1, <1>3, AcceptParts
<1>5. Flow
  BY <1>4 DEF Consistent
<1>6. Owned' = Owned \union Args(cmd)
  <2>1. cmd.id # 0
    BY <1>1, <1>3, CmdTypes
  <2>2. owner \in [Variants -> [Channels -> Nat]] /\ Range(list) \subseteq Channels
    BY <1>3, FiniteChannels DEF Types
  <2>3. \A w \in Variants, c \in Channels : owner'[w][c] =
            IF w = v /\ c \in Range(list) THEN cmd.id ELSE owner[w][c]
    BY <1>2, <2>2
  <2>4. \A w \in Variants, c \in Channels : owner'[w][c] # 0
            <=> owner[w][c] # 0 \/ (w = v /\ c \in Range(list))
    BY <2>1, <2>3
  <2>5. \A s : s \in Args(cmd) <=> \E c \in Range(list) : s = <<v, c>>
    BY <1>1 DEF Args
  <2>6. \A w \in Variants, c \in Channels : <<w, c>> \in Args(cmd) <=> w = v /\ c \in Range(list)
    BY <2>5
  <2>7. Args(cmd) \subseteq Variants \X Channels
    BY <2>2, <2>5
  <2>. QED  BY <2>4, <2>6, <2>7 DEF Owned
<1>7. Waiting' = Waiting
  BY <1>2 DEF Waiting
<1>. QED  BY <1>1, <1>2, <1>3, <1>4, <1>5, <1>6, <1>7, IssueFlow

LEMMA UnsubscribeIssued ==
    ASSUME Consistent, NEW v \in Variants, NEW list \in Lists, Unsubscribe(v, list)
    PROVE  Queue' /\ Flow'
<1>1. PICK cmd \in Commands : /\ cmd = Cmd("unsubscribe", v, list) /\ Accept(cmd)
                              /\ cmd.op = "unsubscribe" /\ cmd.id = Len(cmds) + 1
                              /\ cmd.v = v /\ cmd.list = list
  BY CmdTypes DEF Unsubscribe, Cmd, Consistent
<1>2. /\ UNCHANGED <<replies, invalid, subscribed, owner>>
      /\ subscribed
      /\ \A i, j \in DOMAIN list : owner[v][list[i]] # 0 /\ (list[i] = list[j] => i = j)
  BY DEF Unsubscribe, cbs
<1>3. Types /\ Ending /\ Queue
  BY DEF Consistent
<1>4. /\ Running /\ Running' /\ In' = In /\ Out' = Append(Out, cmd) /\ cmds' = Append(cmds, cmd)
      /\ \A i \in 1 .. Len(In) : ~IsUnsub(In[i])
      /\ \A j \in 1 .. Len(Out) : Out[j].op # "unsubscribe"
      /\ UNCHANGED <<serving, closed>>
  BY <1>1, <1>3, AcceptParts
<1>5. Flow
  BY <1>4 DEF Consistent
<1>6. DOMAIN list = 1 .. Len(list) /\ \A i \in 1 .. Len(list) : list[i] \in Channels
  BY <1>1, CommandParts
<1>7. Args(cmd) \subseteq Owned
  <2>1. SUFFICES ASSUME NEW s \in Args(cmd) PROVE s \in Owned
    OBVIOUS
  <2>2. PICK i \in 1 .. Len(list) : s = <<v, list[i]>>
    BY <1>1, ArgsOf
  <2>. QED  BY <1>2, <1>6, <2>2 DEF Owned
<1>8. \A a, b \in 1 .. Len(cmd.list) : cmd.list[a] = cmd.list[b] => a = b
  BY <1>1, <1>2, <1>6
<1>9. Waiting' = Waiting /\ Owned' = Owned
  BY <1>2 DEF Waiting, Owned
<1>10. subscribed' = (subscribed \/ cmd.op = "subscribe")
  BY <1>2, <1>3
<1>11. \A y : Among(y, replies') => Among(y, replies) \/ (y = cmd.id /\ ~subscribed)
  BY <1>2
<1>. QED  BY <1>1, <1>2, <1>3, <1>4, <1>5, <1>7, <1>8, <1>9, <1>10, <1>11, IssueFlow

\* While it runs, the dictionaries have what the client subscribed to.
LEMMA BoundIsOwned ==
    ASSUME BoundToLast, ~Over
    PROVE  \A id : BoundTo(id) = OwnedBy(id)
  BY DEF BoundToLast, Over, BoundTo, OwnedBy

\* What the end of a context begins with.
LEMMA EndBegins ==
    ASSUME Types, BoundToLast, Ended, ~Over, Over', pc' # "freed", UNCHANGED <<cmds, ran, subs, owner>>
    PROVE  Ended'
<1>1. \A id : BoundTo(id) = OwnedBy(id)
  BY BoundIsOwned
<1>2. ASSUME NEW id \in 1 .. Len(cmds), cmds[id].op = "subscribe"
      PROVE  Cardinality(Nulls(id)) + Cardinality(BoundTo(id)) = Cardinality(OwnedBy(id))
  <2>1. Nulls(id) = {}
    BY <1>2 DEF Ended
  <2>2. IsFiniteSet(OwnedBy(id))
    BY FiniteChannels, FS_Subset DEF OwnedBy
  <2>3. Cardinality(OwnedBy(id)) \in Nat
    BY <2>2, FS_CardinalityType
  <2>4. Cardinality({}) = 0
    BY FS_EmptySet
  <2>. QED  BY <1>1, <2>1, <2>3, <2>4
<1>. QED  BY <1>2 DEF Ended, Nulls, BoundTo, OwnedBy

\* The steps that change nothing but flags.
LEMMA FlagStepKeeps ==
    ASSUME Consistent, ClientDisconnects \/ ClientFrees \/ HandleConnect \/ ReadEnd \/ IOFails
                       \/ ProcessNone \/ CallbackReturns \/ Freed
    PROVE  Consistent'
<1>1. /\ Types /\ BoundToLast /\ Ending /\ Queue /\ Told /\ Owners /\ Found /\ Ended
      /\ RepliesExpected /\ (Running => Flow)
  BY DEF Consistent
<1>2. /\ Types'
      /\ UNCHANGED <<replies, invalid, subs, cmds, ran, owner, obuf, requests, wire, inbox,
                     serving, closed, subscribed>>
  BY <1>1, FlagStepTypes
<1>3. UNCHANGED <<In, Out, Waiting, Owned>>
  BY <1>2 DEF In, Out, Waiting, Owned
<1>4. /\ Over => Over'
      /\ Running' => Running
      /\ (disconnecting => disconnecting') /\ (freeing => freeing')
      /\ Over' => Over \/ disconnecting' \/ freeing'
      /\ pc' = "aborted" => disconnecting' /\ replies # <<>>
      /\ pc' # "undefined"
      /\ pc' = "freed" => Freed
  BY <1>1 DEF ClientDisconnects, ClientFrees, HandleConnect, ReadEnd, IOFails, ProcessNone,
         CallbackReturns, Freed, Disconnect, Over, Running, ClientsTurn, InCallback, flags, Types,
         RepliesExpected
<1>5. BoundToLast'
  BY <1>1, <1>2, <1>4 DEF BoundToLast, Over
<1>6. Ending'
  BY <1>1, <1>4 DEF Ending
<1>7. Queue'
  BY <1>1, <1>2, <1>3 DEF Queue
<1>8. pc' = "freed" => Waiting = <<>> /\ \A v \in Variants, k \in Keys : dictFind(subs[v], k) = 0
  <2>1. SUFFICES ASSUME Freed
                 PROVE  Waiting = <<>> /\ \A v \in Variants, k \in Keys : dictFind(subs[v], k) = 0
    BY <1>4
  <2>2. Waiting = <<>> /\ \A v \in Variants : Entries(subs[v]) = <<>>
    BY <2>1 DEF Freed, Waiting
  <2>. QED  BY <1>1, <2>2, EntriesFound DEF Types
<1>9. Told'
  BY <1>1, <1>2, <1>3, <1>8 DEF Told
<1>10. Owners' /\ Found'
  BY <1>1, <1>2 DEF Owners, Found
<1>11. Ended'
  <2>1. CASE Over
    BY <2>1, <1>1, <1>2, <1>4, <1>8 DEF Ended, Nulls, BoundTo, OwnedBy
  <2>2. CASE ~Over /\ Over'
    <3>1. pc' # "freed"
      BY <2>2, <1>4 DEF Freed, Over
    <3>. QED  BY <2>2, <3>1, <1>1, <1>2, EndBegins
  <2>3. CASE ~Over /\ ~Over'
    BY <2>3, <1>1, <1>2, <1>8 DEF Ended, Nulls
  <2>. QED  BY <2>1, <2>2, <2>3
<1>12. RepliesExpected'
  BY <1>2, <1>4 DEF RepliesExpected
<1>13. Running' => Flow'
  <2>1. SUFFICES ASSUME Running' PROVE Flow'
    OBVIOUS
  <2>2. Flow /\ \A i \in 1 .. Len(cmds) : i \in 1 .. Len(cmds') /\ cmds'[i] = cmds[i]
    BY <1>1, <1>2, <1>4, <2>1
  <2>. QED  BY <1>2, <1>3, <2>2, FlowKept
<1>. QED  BY <1>2, <1>5, <1>6, <1>7, <1>9, <1>10, <1>11, <1>12, <1>13 DEF Consistent

\* The rest of the steps of the client and its connection, and those of the server.
LEMMA TransferStepKeeps ==
    ASSUME Consistent, (\E n \in 0..Len(wire) : Read(n)) \/ (\E n \in 0..Len(obuf) : Write(n))
    PROVE  Consistent'
<1>1. /\ Types /\ BoundToLast /\ Ending /\ Queue /\ Told /\ Owners /\ Found /\ Ended
      /\ RepliesExpected /\ (Running => Flow)
  BY DEF Consistent
<1>2. /\ Types'
      /\ inbox' \o wire' = inbox \o wire /\ requests' \o obuf' = requests \o obuf
      /\ UNCHANGED <<replies, invalid, subs, cmds, ran, owner, serving, closed, subscribed,
                     disconnecting, freeing>>
  BY <1>1, TransferStepTypes
<1>3. UNCHANGED <<In, Out, Waiting, Owned>>
  BY <1>2 DEF In, Out, Waiting, Owned
<1>4. pc = "loop" /\ (pc' = "process" \/ pc' = "loop")
  BY DEF Read, Write
<1>5. ~Over /\ ~Over' /\ Running
  BY <1>4 DEF Over, Running
<1>6. BoundToLast' /\ Ending' /\ Queue' /\ Owners' /\ Found'
  BY <1>1, <1>2, <1>3, <1>4, <1>5 DEF BoundToLast, Ending, Queue, Owners, Found
<1>7. Told' /\ RepliesExpected'
  BY <1>1, <1>2, <1>3, <1>4 DEF Told, RepliesExpected
<1>8. Ended'
  BY <1>1, <1>2, <1>4, <1>5 DEF Ended, Nulls
<1>9. Flow'
  <2>1. Flow /\ \A i \in 1 .. Len(cmds) : i \in 1 .. Len(cmds') /\ cmds'[i] = cmds[i]
    BY <1>1, <1>2, <1>5
  <2>. QED  BY <1>2, <1>3, <2>1, FlowKept
<1>. QED  BY <1>2, <1>6, <1>7, <1>8, <1>9 DEF Consistent

LEMMA IssueKeeps ==
    ASSUME Consistent, NEW cmd \in Commands, Accept(cmd), Types', Queue', Flow',
           \A y : Among(y, Waiting') <=> \/ Among(y, Waiting)
                                         \/ cmd.op = "command" /\ y = Len(cmds) + 1,
           BoundToLast', Owners', Found'
    PROVE  Consistent'
<1>1. /\ Types /\ BoundToLast /\ Ending /\ Queue /\ Told /\ Owners /\ Found /\ Ended
      /\ RepliesExpected /\ (Running => Flow)
  BY DEF Consistent
<1>2. /\ Running /\ Running' /\ cmds' = Append(cmds, cmd) /\ ran' = Append(ran, <<>>)
  BY <1>1, AcceptParts
<1>3. PICK n \in Nat : /\ n = Len(cmds) /\ Len(cmds') = n + 1 /\ cmds'[n + 1] = cmd
                       /\ n + 1 \notin 1 .. n
                       /\ \A i \in 1 .. n : i \in 1 .. n + 1 /\ cmds'[i] = cmds[i]
                       /\ \A i \in 1 .. n + 1 : i \in 1 .. n \/ i = n + 1
  BY <1>1, <1>2, LengthGrows
<1>4. ran'[n + 1] = <<>> /\ \A i \in 1 .. n : ran'[i] = ran[i]
  <2>1. ran \in Seq(Seq(Given)) /\ <<>> \in Seq(Given) /\ Len(ran) = n
    BY <1>1, <1>3, EmptySeq DEF Types
  <2>. QED  BY <1>2, <2>1, PutLast
<1>5. ~Over /\ ~Over' /\ pc' # "freed" /\ pc' # "aborted" /\ pc' # "undefined"
  BY <1>2 DEF Over, Running
<1>6. Len(<<>>) = 0 /\ 1 .. 0 = {}
  OBVIOUS
<1>7. Told'
  <2>1. SUFFICES ASSUME NEW id \in 1 .. n + 1, cmds'[id].op = "command"
                 PROVE  /\ IF Among(id, Waiting') THEN ran'[id] = <<>> ELSE Len(ran'[id]) = 1
                        /\ \A i \in 1 .. Len(ran'[id]) : ran'[id][i].id \in {id, 0}
    BY <1>3, <1>5 DEF Told
  <2>2. CASE id \in 1 .. n
    <3>1. id # n + 1 /\ ran'[id] = ran[id] /\ cmds[id].op = "command"
      BY <1>3, <1>4, <2>1, <2>2
    <3>2. Among(id, Waiting') <=> Among(id, Waiting)
      BY <1>3, <3>1
    <3>. QED  BY <1>1, <1>3, <2>2, <3>1, <3>2 DEF Told
  <2>3. CASE id = n + 1
    <3>1. Among(id, Waiting')
      BY <1>3, <2>1, <2>3
    <3>. QED  BY <1>4, <1>6, <2>3, <3>1
  <2>. QED  BY <1>3, <2>2, <2>3
<1>8. Ended'
  <2>1. SUFFICES ASSUME NEW id \in 1 .. n + 1, cmds'[id].op = "subscribe"
                 PROVE  {i \in 1 .. Len(ran'[id]) : ran'[id][i].type = "null"} = {}
    BY <1>3, <1>5 DEF Ended, Nulls
  <2>2. CASE id \in 1 .. n
    <3>1. Nulls(id) = {}
      BY <1>1, <1>3, <1>5, <2>1, <2>2 DEF Ended
    <3>. QED  BY <1>4, <2>2, <3>1 DEF Nulls
  <2>3. CASE id = n + 1
    BY <1>4, <1>6, <2>3
  <2>. QED  BY <1>3, <2>2, <2>3
<1>9. Ending' /\ RepliesExpected'
  BY <1>5 DEF Ending, RepliesExpected
<1>. QED  BY <1>7, <1>8, <1>9 DEF Consistent

LEMMA IssueStepKeeps ==
    ASSUME Consistent,
           Command \/ \E v \in Variants, list \in Lists : Subscribe(v, list) \/ Unsubscribe(v, list)
    PROVE  Consistent'
<1>1. /\ Types /\ BoundToLast /\ Ending /\ Queue /\ Told /\ Owners /\ Found /\ Ended
      /\ RepliesExpected /\ (Running => Flow)
  BY DEF Consistent
<1>2. ASSUME NEW cmd \in Commands, Accept(cmd), UNCHANGED <<subs, owner>>
      PROVE  BoundToLast' /\ Owners' /\ Found'
  <2>1. /\ Running /\ Running' /\ cmds' = Append(cmds, cmd)
    BY <1>1, <1>2, AcceptParts
  <2>2. \A i \in 1 .. Len(cmds) : i \in 1 .. Len(cmds') /\ cmds'[i] = cmds[i]
    BY <1>1, <2>1, LengthGrows
  <2>3. BoundToLast'
    BY <1>1, <1>2, <2>1 DEF BoundToLast, Running
  <2>4. Owners'
    BY <1>1, <1>2, <2>2 DEF Owners
  <2>5. Found'
    BY <1>1, <1>2 DEF Found
  <2>. QED  BY <2>3, <2>4, <2>5
<1>3. CASE Command
  <2>1. PICK cmd \in Commands : Accept(cmd) /\ cmd.op = "command"
    BY <1>1, <1>3, CmdTypes DEF Command, Cmd
  <2>2. UNCHANGED <<subs, owner>>
    BY <1>3 DEF Command
  <2>3. BoundToLast' /\ Owners' /\ Found' /\ Types'
    BY <1>1, <1>2, <1>3, <2>1, <2>2, CommandStepTypes
  <2>4. /\ Queue' /\ Flow'
        /\ \A y : Among(y, Waiting') <=> Among(y, Waiting) \/ y = Len(cmds) + 1
    BY <1>3, CommandIssued
  <2>. QED  BY <2>1, <2>3, <2>4, IssueKeeps
<1>4. ASSUME NEW v \in Variants, NEW list \in Lists, Unsubscribe(v, list)
      PROVE  Consistent'
  <2>1. PICK cmd \in Commands : Accept(cmd) /\ cmd.op = "unsubscribe"
    BY <1>1, <1>4, CmdTypes DEF Unsubscribe, Cmd
  <2>2. UNCHANGED <<subs, owner, replies, invalid>>
    BY <1>4 DEF Unsubscribe, cbs
  <2>3. BoundToLast' /\ Owners' /\ Found' /\ Types'
    BY <1>1, <1>2, <1>4, <2>1, <2>2, UnsubscribeStepTypes
  <2>4. Queue' /\ Flow' /\ Waiting' = Waiting
    BY <1>4, <2>2, UnsubscribeIssued DEF Waiting
  <2>. QED  BY <2>1, <2>3, <2>4, IssueKeeps
<1>5. ASSUME NEW v \in Variants, NEW list \in Lists, Subscribe(v, list)
      PROVE  Consistent'
  <2>1. PICK cmd \in Commands : Accept(cmd) /\ cmd.op = "subscribe"
    BY <1>1, <1>5, CmdTypes DEF Subscribe, Cmd
  <2>2. UNCHANGED <<replies, invalid>>
    BY <1>5 DEF Subscribe
  <2>3. /\ Types'
        /\ \A w \in Variants, k \in Keys : dictFind(subs'[w], k) =
              IF w = v /\ k \in Range(list) THEN Len(cmds) + 1 ELSE dictFind(subs[w], k)
    BY <1>1, <1>5, SubscribeStepTypes
  <2>4. \A w \in Variants, c \in Channels : owner'[w][c] =
            IF w = v /\ c \in Range(list) THEN Len(cmds) + 1 ELSE owner[w][c]
    BY <1>1, <1>5 DEF Subscribe, Types
  <2>5. /\ Running /\ Running' /\ cmds' = Append(cmds, cmd)
    BY <1>1, <2>1, AcceptParts
  <2>6. /\ \A i \in 1 .. Len(cmds) : i \in 1 .. Len(cmds') /\ cmds'[i] = cmds[i]
        /\ Len(cmds) + 1 \in 1 .. Len(cmds') /\ cmds'[Len(cmds) + 1] = cmd
    BY <1>1, <2>5, LengthGrows
  <2>7. Channels \subseteq Keys /\ Range(list) \subseteq Channels
    BY FiniteChannels
  <2>8. BoundToLast'
    <3>1. \A w \in Variants, c \in Channels : dictFind(subs[w], c) = owner[w][c]
      BY <1>1, <2>5 DEF BoundToLast, Running
    <3>2. \A w \in Variants, c \in Channels : dictFind(subs'[w], c) = owner'[w][c]
      BY <2>3, <2>4, <2>7, <3>1
    <3>. QED  BY <3>2 DEF BoundToLast
  <2>9. Owners'
    BY <1>1, <2>1, <2>4, <2>6 DEF Owners
  <2>10. Found'
    <3>1. SUFFICES ASSUME NEW w \in Variants, NEW k \in Keys, dictFind(subs'[w], k) # 0
                   PROVE  k \in Channels /\ dictFind(subs'[w], k) = owner'[w][k]
      BY DEF Found
    <3>. QED  BY <1>1, <2>3, <2>4, <2>7, <3>1 DEF Found
  <2>11. Queue' /\ Flow' /\ Waiting' = Waiting
    BY <1>5, <2>2, SubscribeIssued DEF Waiting
  <2>. QED  BY <2>1, <2>3, <2>8, <2>9, <2>10, <2>11, IssueKeeps
<1>. QED  BY <1>3, <1>4, <1>5

\* The server's steps leave the client alone.
LEMMA ServerKeeps ==
    ASSUME Consistent, Types', UNCHANGED Client, Running => Flow'
    PROVE  Consistent'
<1>1. /\ Types /\ BoundToLast /\ Ending /\ Queue /\ Told /\ Owners /\ Found /\ Ended
      /\ RepliesExpected
  BY DEF Consistent
<1>2. UNCHANGED <<pc, disconnecting, freeing, replies, invalid, subs, cmds, ran, owner>>
  BY DEF Client, flags, cbs, record
<1>3. Waiting' = Waiting
  BY <1>2 DEF Waiting
<1>4. BoundToLast' /\ Ending' /\ Queue'
  BY <1>1, <1>2, <1>3 DEF BoundToLast, Ending, Over, Queue
<1>5. Told' /\ Owners' /\ Found'
  BY <1>1, <1>2, <1>3 DEF Told, Owners, Found
<1>6. Ended' /\ RepliesExpected'
  BY <1>1, <1>2 DEF Ended, Over, Nulls, BoundTo, OwnedBy, RepliesExpected
<1>7. Running' => Flow'
  BY <1>2 DEF Running
<1>. QED  BY <1>4, <1>5, <1>6, <1>7 DEF Consistent

LEMMA ExecuteFlow ==
    ASSUME Types, Types', Queue, Flow, Execute
    PROVE  Flow'
<1>1. /\ ~closed /\ requests # <<>> /\ requests' = Tail(requests) /\ Head(requests) \in Commands
      /\ UNCHANGED <<replies, invalid, owner, closed, cmds, subscribed, obuf, inbox>>
  BY ExecuteTypes DEF Client, flags, cbs, record
<1>2. PICK cmd \in Commands : cmd = Head(requests)
  BY <1>1
<1>3. Out # <<>> /\ Out' = Tail(Out) /\ Out[1] = cmd
  <2>1. /\ requests \o obuf # <<>> /\ Head(requests \o obuf) = cmd
        /\ Tail(requests \o obuf) = Tail(requests) \o obuf
    <3>1. requests \in Seq(Commands) /\ obuf \in Seq(Commands)
      BY Queues
    <3>2. /\ requests \o obuf # <<>> /\ Head(requests \o obuf) = Head(requests)
          /\ Tail(requests \o obuf) = Tail(requests) \o obuf
      BY <1>1, <3>1, HeadJoined
    <3>. QED  BY <1>2, <3>2
  <2>2. Out # <<>> /\ Head(Out) = cmd /\ Out' = Tail(Out)
    BY <1>1, <2>1 DEF Out
  <2>. QED  BY <2>2, Queues, TakenFirst
<1>4. UNCHANGED <<Waiting, Owned>>
  BY <1>1 DEF Waiting, Owned
<1>5. Requested(1)
  BY <1>1, <1>3, RequestTaken
<1>6. inbox \in Seq(Replies) /\ wire \in Seq(Replies)
  BY Queues
<1>. DEFINE args == {<<cmd.v, c>> : c \in Range(cmd.list)}
            still == IF cmd.op = "subscribe" THEN serving ELSE serving \ args
<1>7. CASE /\ cmd.op = "command"
           /\ \E type \in {"reply", "error"} : wire' = Append(wire, Reply(type, cmd.id, "", "", 0))
           /\ serving' = serving
  <2>1. PICK type \in {"reply", "error"} : wire' = Append(wire, Reply(type, cmd.id, "", "", 0))
    BY <1>7
  <2>2. PICK x \in Replies : x = Reply(type, cmd.id, "", "", 0) /\ x.id = cmd.id /\ x.type = type
    <3>1. cmd.id \in Nat
      BY CommandParts
    <3>2. Reply(type, cmd.id, "", "", 0) \in Answers
      BY <3>1 DEF Reply, Answers
    <3>3. Reply(type, cmd.id, "", "", 0).id = cmd.id /\ Reply(type, cmd.id, "", "", 0).type = type
      BY DEF Reply
    <3>. QED  BY <3>2, <3>3 DEF Replies
  <2>3. cmd.id # 0
    BY <1>3, <1>5 DEF Requested
  <2>4. IsAnswer(x)
    BY <2>2, <2>3 DEF IsAnswer
  <2>5. In' = Append(In, x)
    <3>1. inbox \o Append(wire, x) = Append(inbox \o wire, x)
      BY <1>6, AppendJoined
    <3>. QED  BY <1>1, <2>1, <2>2, <3>1 DEF In
  <2>. QED  BY <1>1, <1>3, <1>4, <1>7, <2>2, <2>4, <2>5, CommandFlow
<1>8. CASE /\ cmd.op # "command" /\ wire' = wire \o Acks(cmd, still)
           /\ serving' = IF cmd.op = "subscribe" THEN serving \union args ELSE serving \ args
  <2>1. still \in SUBSET (Variants \X Channels)
    BY DEF Types
  <2>2. PICK new : new = Acks(cmd, still)
    OBVIOUS
  <2>3. /\ new \in Seq(Replies) /\ Len(new) = Len(cmd.list)
        /\ \A i \in 1 .. Len(cmd.list) :
             /\ new[i].type = cmd.op /\ new[i].v = cmd.v /\ new[i].channel = cmd.list[i]
             /\ cmd.op = "unsubscribe" => (new[i].left = 0 <=> still = {} /\ i = Len(cmd.list))
    <3>1. PICK t \in SUBSET (Variants \X Channels) : t = still
      BY <2>1
    <3>2. cmd.op # "command" /\ new = Acks(cmd, t)
      BY <1>8, <2>2, <3>1
    <3>3. /\ Acks(cmd, t) \in Seq(Replies) /\ Len(Acks(cmd, t)) = Len(cmd.list)
          /\ \A i \in 1 .. Len(cmd.list) :
               /\ Acks(cmd, t)[i].type = cmd.op /\ Acks(cmd, t)[i].v = cmd.v
               /\ Acks(cmd, t)[i].channel = cmd.list[i]
               /\ cmd.op = "unsubscribe" =>
                     (Acks(cmd, t)[i].left = 0 <=> t = {} /\ i = Len(cmd.list))
      <4>. HIDE DEF still
      <4>. QED  BY <3>2, AcksTypes
    <3>. HIDE DEF still
    <3>. QED  BY <3>1, <3>2, <3>3
  <2>4. In' = In \o new
    <3>1. (inbox \o wire) \o new = inbox \o (wire \o new)
      <4>1. new \in Seq(Replies)
        BY <2>3
      <4>. QED  BY <1>6, <4>1, ConcatAssociative
    <3>2. In' = inbox \o (wire \o new)
      BY <1>1, <1>8, <2>2 DEF In
    <3>. QED  BY <3>1, <3>2 DEF In
  <2>5. args = Args(cmd)
    BY DEF Args
  <2>6. \A i \in 1 .. Len(new) : On(new[i]) = <<cmd.v, cmd.list[i]>> /\ On(new[i]) \in Args(cmd)
    <3>1. \A i \in 1 .. Len(new) : On(new[i]) = <<cmd.v, cmd.list[i]>>
      BY <2>3 DEF On
    <3>2. \A s : s \in Args(cmd) <=> \E i \in 1 .. Len(cmd.list) : s = <<cmd.v, cmd.list[i]>>
      BY <1>8, ArgsOf
    <3>. QED  BY <2>3, <3>1, <3>2
  <2>7. CASE cmd.op = "subscribe"
    <3>1. \A i \in 1 .. Len(new) : IsPush(new[i]) /\ ~IsUnsub(new[i]) /\ On(new[i]) \in Args(Out[1])
      BY <1>3, <2>3, <2>6, <2>7 DEF IsPush, IsUnsub
    <3>2. serving' = serving \union Args(Out[1])
      BY <1>3, <1>8, <2>5, <2>7
    <3>. QED  BY <1>1, <1>3, <1>4, <2>3, <2>4, <2>7, <3>1, <3>2, SubscribeFlow
  <2>8. CASE cmd.op # "subscribe"
    <3>1. cmd.op = "unsubscribe" /\ still = serving'
      BY <1>8, <2>8, CommandParts
    <3>2. serving' = serving \ Args(Out[1])
      BY <1>3, <1>8, <2>5, <2>8
    <3>3. \A i \in 1 .. Len(new) : /\ IsUnsub(new[i])
                                   /\ On(new[i]) = <<Out[1].v, Out[1].list[i]>>
                                   /\ new[i].left = 0 <=> serving' = {} /\ i = Len(new)
      <4>. HIDE DEF still
      <4>. QED  BY <1>3, <2>3, <2>6, <3>1 DEF IsUnsub
    <3>4. Len(new) = Len(Out[1].list) /\ Out[1].op = "unsubscribe"
      BY <1>3, <2>3, <3>1
    <3>. QED  BY <1>1, <1>3, <1>4, <2>3, <2>4, <3>2, <3>3, <3>4, UnsubscribeFlow
  <2>. QED  BY <2>7, <2>8
<1>9. \/ /\ cmd.op = "command" /\ serving' = serving
         /\ \E type \in {"reply", "error"} : wire' = Append(wire, Reply(type, cmd.id, "", "", 0))
      \/ /\ cmd.op # "command" /\ wire' = wire \o Acks(cmd, still)
         /\ serving' = IF cmd.op = "subscribe" THEN serving \union args ELSE serving \ args
  BY <1>2 DEF Execute
<1>. QED  BY <1>7, <1>8, <1>9

LEMMA ServerStepKeeps ==
    ASSUME Consistent, Execute \/ Publish \/ Close
    PROVE  Consistent'
<1>1. Types /\ Queue /\ (Running => Flow)
  BY DEF Consistent
<1>2. inbox \in Seq(Replies) /\ wire \in Seq(Replies)
  BY <1>1, Queues
<1>3. CASE Execute
  BY <1>1, <1>3, ExecuteTypes, ExecuteFlow, ServerKeeps
<1>4. CASE Publish
  <2>1. /\ Types' /\ ~closed
        /\ \E s \in serving : /\ wire' = Append(wire, Reply("message", 0, s[1], s[2], 0))
                              /\ Reply("message", 0, s[1], s[2], 0) \in Replies
        /\ UNCHANGED <<Client, requests, closed, serving>>
    BY <1>1, <1>4, PublishTypes
  <2>2. UNCHANGED <<replies, invalid, owner, cmds, subscribed, obuf, inbox>>
    BY <2>1 DEF Client, flags, cbs, record
  <2>3. PICK s \in serving, x \in Replies :
            x = Reply("message", 0, s[1], s[2], 0) /\ wire' = Append(wire, x)
    BY <2>1
  <2>4. In' = Append(In, x)
    <3>1. inbox \o Append(wire, x) = Append(inbox \o wire, x)
      BY <1>2, AppendJoined
    <3>. QED  BY <2>2, <2>3, <3>1 DEF In
  <2>5. UNCHANGED <<Out, Waiting, Owned>>
    BY <2>1, <2>2 DEF Out, Waiting, Owned
  <2>6. Running => Flow'
    BY <1>1, <2>1, <2>2, <2>3, <2>4, <2>5, PublishFlow
  <2>. QED  BY <2>1, <2>6, ServerKeeps
<1>5. CASE Close
  <2>1. /\ Types' /\ ~closed /\ closed'
        /\ \/ wire' = wire
           \/ requests = <<>> /\ wire = <<>> /\ wire' = <<Reply("error", 0, "", "", 0)>>
        /\ UNCHANGED <<Client, requests, serving>>
    BY <1>1, <1>5, CloseTypes
  <2>2. UNCHANGED <<replies, invalid, owner, cmds, subscribed, obuf, inbox>>
    BY <2>1 DEF Client, flags, cbs, record
  <2>3. PICK x \in Replies : x = Reply("error", 0, "", "", 0)
    BY DEF Reply, Replies, Answers
  <2>4. In' = In \/ In' = Append(In, x)
    <3>1. CASE wire' = wire
      BY <2>2, <3>1 DEF In
    <3>2. CASE wire = <<>> /\ wire' = <<x>>
      <4>1. wire' = Append(wire, x)
        BY <3>2
      <4>2. inbox \o Append(wire, x) = Append(inbox \o wire, x)
        BY <1>2, AppendJoined
      <4>. QED  BY <2>2, <4>1, <4>2 DEF In
    <3>. QED  BY <2>1, <2>3, <3>1, <3>2
  <2>5. UNCHANGED <<Out, Waiting, Owned>>
    BY <2>1, <2>2 DEF Out, Waiting, Owned
  <2>6. Running => Flow'
    BY <1>1, <2>1, <2>2, <2>3, <2>4, <2>5, CloseFlow
  <2>. QED  BY <2>1, <2>6, ServerKeeps
<1>. QED  BY <1>3, <1>4, <1>5

\* What a callback was given.
LEMMA GivenOnce ==
    ASSUME Types, NEW cb, NEW reply \in Given, ran' = [ran EXCEPT ![cb] = Append(@, reply)]
    PROVE  /\ \A id \in 1 .. Len(cmds) : Len(ran[id]) \in Nat /\ (id # cb => ran'[id] = ran[id])
           /\ cb \in 1 .. Len(cmds) =>
                /\ Len(ran'[cb]) = Len(ran[cb]) + 1 /\ ran'[cb][Len(ran[cb]) + 1] = reply
                /\ \A i \in 1 .. Len(ran[cb]) : ran'[cb][i] = ran[cb][i]
                /\ ran[cb] = <<>> => Len(ran'[cb]) = 1 /\ ran'[cb][1] = reply
<1>1. /\ DOMAIN ran = 1 .. Len(cmds)
      /\ \A id \in 1 .. Len(cmds) : ran[id] \in Seq(Given)
  BY LenProperties, ElementOfSeq DEF Types
<1>2. \A id \in 1 .. Len(cmds) : ran'[id] = IF id = cb THEN Append(ran[id], reply) ELSE ran[id]
  BY <1>1, RanChanged
<1>3. \A id \in 1 .. Len(cmds) : Len(ran[id]) \in Nat
  BY <1>1, LenProperties
<1>4. ASSUME cb \in 1 .. Len(cmds)
      PROVE  /\ Len(ran'[cb]) = Len(ran[cb]) + 1 /\ ran'[cb][Len(ran[cb]) + 1] = reply
             /\ \A i \in 1 .. Len(ran[cb]) : ran'[cb][i] = ran[cb][i]
             /\ ran[cb] = <<>> => Len(ran'[cb]) = 1 /\ ran'[cb][1] = reply
  <2>1. ran[cb] \in Seq(Given) /\ ran'[cb] = Append(ran[cb], reply)
    BY <1>1, <1>2, <1>4
  <2>2. PICK n \in Nat : n = Len(ran[cb])
    BY <1>3, <1>4
  <2>3. /\ Len(ran'[cb]) = n + 1 /\ ran'[cb][n + 1] = reply
        /\ \A i \in 1 .. n : ran'[cb][i] = ran[cb][i]
    BY <2>1, <2>2, PutLast
  <2>4. ran[cb] = <<>> => n = 0
    BY <2>2, EmptySeq
  <2>. QED  BY <2>2, <2>3, <2>4
<1>. QED  BY <1>2, <1>3, <1>4

\* The callback that waits longest is run.
LEMMA WaitingGiven ==
    ASSUME Types, Queue, Told, Waiting # <<>>, Waiting' = Tail(Waiting), UNCHANGED cmds,
           NEW reply \in Given, reply.id \in {Head(Waiting), 0}, pc' # "freed",
           ran' = [ran EXCEPT ![Head(Waiting)] = Append(@, reply)]
    PROVE  /\ Queue' /\ Told' /\ Head(Waiting) \in 1 .. Len(cmds) /\ cmds[Head(Waiting)].op = "command"
<1>1. PICK cb \in Nat \ {0} : cb = Head(Waiting)
  BY Queues, TakenFirst
<1>2. PICK S : S = Nat \ {0}
  OBVIOUS
<1>3. Waiting \in Seq(S)
  BY <1>2, Queues
<1>4. /\ cb = Waiting[1] /\ 1 \in 1 .. Len(Waiting)
      /\ \A q \in 1 .. Len(Waiting') : q + 1 \in 1 .. Len(Waiting) /\ Waiting'[q] = Waiting[q + 1]
  BY <1>1, <1>3, TakenFirst
<1>5. /\ Among(cb, Waiting)
      /\ \A y : Among(y, Waiting') => Among(y, Waiting)
      /\ \A y : Among(y, Waiting) => y = cb \/ Among(y, Waiting')
  BY <1>1, <1>3, AmongTail
<1>6. \A q \in 1 .. Len(Waiting') : q \in Nat /\ 1 < q + 1
  BY LenProperties
<1>7. ~Among(cb, Waiting')
  <2>1. SUFFICES ASSUME NEW q \in 1 .. Len(Waiting'), Waiting'[q] = cb PROVE FALSE
    BY DEF Among
  <2>2. Waiting[1] < Waiting[q + 1]
    BY <1>4, <1>6 DEF Queue
  <2>. QED  BY <1>1, <1>4, <2>1, <2>2
<1>8. cb \in 1 .. Len(cmds) /\ cmds[cb].op = "command"
  BY <1>4 DEF Queue
<1>9. Queue'
  <2>1. \A i, k \in 1 .. Len(Waiting') : i < k => i + 1 < k + 1
    BY <1>6
  <2>. QED  BY <1>4, <2>1 DEF Queue
<1>10. ran[cb] = <<>>
  BY <1>5, <1>8 DEF Told
<1>11. \A id \in 1 .. Len(cmds) :
             /\ id # cb => ran'[id] = ran[id]
             /\ id = cb => Len(ran'[id]) = 1 /\ ran'[id][1] = reply
  <2>1. ran' = [ran EXCEPT ![cb] = Append(@, reply)]
    BY <1>1
  <2>2. \A id \in 1 .. Len(cmds) : id # cb => ran'[id] = ran[id]
    BY <2>1, GivenOnce
  <2>3. ran[cb] = <<>> => Len(ran'[cb]) = 1 /\ ran'[cb][1] = reply
    BY <1>8, <2>1, GivenOnce
  <2>. QED  BY <1>10, <2>2, <2>3
<1>12. Told'
  <2>1. SUFFICES ASSUME NEW id \in 1 .. Len(cmds), cmds[id].op = "command"
                 PROVE  /\ IF Among(id, Waiting') THEN ran'[id] = <<>> ELSE Len(ran'[id]) = 1
                        /\ \A i \in 1 .. Len(ran'[id]) : ran'[id][i].id \in {id, 0}
    BY DEF Told
  <2>2. CASE id = cb
    BY <1>1, <1>7, <1>11, <2>2
  <2>3. CASE id # cb
    BY <1>5, <1>11, <2>1, <2>3 DEF Told
  <2>. QED  BY <2>2, <2>3
<1>. QED  BY <1>1, <1>8, <1>9, <1>12

\* The callback of a subscription is run.
LEMMA SubscriptionGiven ==
    ASSUME Types, Queue, Told, Waiting' = Waiting, UNCHANGED cmds,
           NEW cb, cb \in 1 .. Len(cmds) => cmds[cb].op # "command",
           NEW reply \in Given, pc' # "freed",
           ran' = [ran EXCEPT ![cb] = Append(@, reply)]
    PROVE  Queue' /\ Told'
<1>1. Queue'
  BY DEF Queue
<1>2. \A id \in 1 .. Len(cmds) : id # cb => ran'[id] = ran[id]
  BY GivenOnce
<1>. QED  BY <1>1, <1>2 DEF Told

\* A callback that is not told the end.
LEMMA NullsKept ==
    ASSUME Types, NEW cb, NEW reply \in Given, ran' = [ran EXCEPT ![cb] = Append(@, reply)]
    PROVE  \A id \in 1 .. Len(cmds) : id # cb \/ reply.type # "null" => Nulls(id)' = Nulls(id)
<1>1. SUFFICES ASSUME NEW id \in 1 .. Len(cmds), id # cb \/ reply.type # "null"
               PROVE  {i \in 1 .. Len(ran'[id]) : ran'[id][i].type = "null"} = Nulls(id)
  BY DEF Nulls
<1>2. CASE id # cb
  BY <1>2, GivenOnce DEF Nulls
<1>3. CASE id = cb /\ reply.type # "null"
  <2>1. PICK n \in Nat : n = Len(ran[id])
    BY GivenOnce
  <2>2. /\ Len(ran'[id]) = n + 1 /\ ran'[id][n + 1] = reply
        /\ \A i \in 1 .. n : ran'[id][i] = ran[id][i]
    <3>1. cb \in 1 .. Len(cmds) => /\ Len(ran'[cb]) = Len(ran[cb]) + 1
                                   /\ ran'[cb][Len(ran[cb]) + 1] = reply
                                   /\ \A i \in 1 .. Len(ran[cb]) : ran'[cb][i] = ran[cb][i]
      BY <1>1, GivenOnce
    <3>. QED  BY <1>3, <2>1, <3>1
  <2>3. \A i \in 1 .. n + 1 : i \in 1 .. n \/ i = n + 1
    OBVIOUS
  <2>4. \A i \in 1 .. n : i \in 1 .. n + 1
    OBVIOUS
  <2>. QED  BY <1>3, <2>1, <2>2, <2>3, <2>4 DEF Nulls
<1>. QED  BY <1>1, <1>2, <1>3

LEMMA GivenTypes ==
    /\ \A x \in Replies : x.type # "null" /\ x \in Given
    /\ NullReply \in Given /\ NullReply.type = "null" /\ NullReply.id = 0
<1>1. \A x \in Replies : x.type # "null" /\ x \in Given
  BY DEF Replies, Answers, Pushes, Given
<1>. QED  BY <1>1, NullGiven DEF NullReply, Reply

\* What the library takes from the reader is the first under way.
LEMMA FirstTaken ==
    ASSUME Types, Taken
    PROVE  /\ In # <<>> /\ In' = Tail(In) /\ In[1] = Head(inbox) /\ In[1] \in Replies
           /\ Running /\ UNCHANGED <<Out, cmds, serving, closed, freeing>>
<1>1. /\ inbox # <<>> /\ Head(inbox) \in Replies /\ inbox' = Tail(inbox) /\ pc = "process"
      /\ UNCHANGED <<obuf, requests, wire, closed, serving, cmds, freeing>>
  BY TakenTypes
<1>2. inbox \in Seq(Replies) /\ wire \in Seq(Replies)
  BY Queues
<1>3. /\ inbox \o wire # <<>> /\ Head(inbox \o wire) = Head(inbox)
      /\ Tail(inbox \o wire) = Tail(inbox) \o wire
  BY <1>1, <1>2, HeadJoined
<1>4. In # <<>> /\ In' = Tail(In) /\ Head(In) = Head(inbox)
  BY <1>1, <1>3 DEF In
<1>5. In[1] = Head(In)
  BY <1>4, Queues, TakenFirst
<1>. QED  BY <1>1, <1>4, <1>5 DEF Running, Out

\* While a callback in the queue waits, nothing is pushed before its answer.
LEMMA AnswerFirst ==
    ASSUME Types, Flow, replies # <<>>, In # <<>>
    PROVE  IsAnswer(In[1]) \/ IsRefusal(In[1])
<1>1. /\ 1 \in 1 .. Len(In) /\ In[1] \in Replies /\ Expected(In[1])
      /\ \A i \in 1 .. Len(In) : i = 1 \/ 1 < i
  BY Queues, TakenFirst DEF Flow, AllExpected
<1>2. SUFFICES ASSUME IsPush(In[1]) PROVE FALSE
  BY <1>1, Kinds DEF Expected
<1>3. PICK k \in 1 .. Len(Waiting) : Among(Waiting[k], replies)
  <2>1. PICK S : S = Nat \ {0}
    OBVIOUS
  <2>2. replies \in Seq(S)
    BY <2>1, Queues
  <2>3. Among(Head(replies), replies)
    BY <2>2, AmongTail
  <2>4. Among(Head(replies), Waiting)
    BY <2>3, Queues
  <2>. QED  BY <2>3, <2>4 DEF Among
<1>4. ASSUME NEW i \in 1 .. Len(In), IsAnswer(In[i]), In[i].id = Waiting[k] PROVE FALSE
  <2>1. i # 1
    BY <1>1, <1>2, <1>4, Kinds
  <2>2. Follows(In[1], In[i])
    BY <1>1, <2>1 DEF Flow, InOrder
  <2>. QED  BY <1>2, <1>3, <1>4, <2>2 DEF Follows
<1>5. ASSUME NEW j \in 1 .. Len(Out), Out[j].id = Waiting[k] PROVE FALSE
  <2>1. Among(Out[j].id, replies)
    BY <1>3, <1>5
  <2>2. Requested(j)
    BY DEF Flow, AllRequested
  <2>. QED  BY <1>1, <1>2, <2>1, <2>2 DEF Requested
<1>. QED  BY <1>3, <1>4, <1>5 DEF Flow, Awaited

\* A step to a callback, or to the next one.
LEMMA GoesOn ==
    ASSUME Consistent, Types', Running, Running', UNCHANGED cmds,
           Queue', Told', Flow', BoundToLast', Owners', Found',
           \A id \in 1 .. Len(cmds) : cmds[id].op = "subscribe" => Nulls(id)' = Nulls(id)
    PROVE  Consistent'
<1>1. ~Over /\ ~Over' /\ pc' \notin {"freed", "undefined", "aborted"}
  BY DEF Running, Over
<1>2. Ended'
  <2>1. \A id \in 1 .. Len(cmds) : cmds[id].op = "subscribe" => Nulls(id)' = {}
    BY <1>1 DEF Consistent, Ended
  <2>. QED  BY <1>1, <2>1 DEF Ended
<1>3. Ending'
  BY <1>1 DEF Ending
<1>4. RepliesExpected'
  BY <1>1 DEF RepliesExpected
<1>. QED  BY <1>2, <1>3, <1>4 DEF Consistent

\* A reply is given to the callback in the queue that it answers.
LEMMA ProcessReplyKeeps ==
    ASSUME Consistent, ProcessReply
    PROVE  Consistent'
<1>1. /\ Types /\ BoundToLast /\ Queue /\ Told /\ Owners /\ Found /\ (Running => Flow)
  BY DEF Consistent
<1>2. Taken
  BY DEF ProcessReply
<1>3. /\ In # <<>> /\ In' = Tail(In) /\ In[1] = Head(inbox) /\ In[1] \in Replies
      /\ Running /\ UNCHANGED <<Out, cmds, serving, closed, freeing>>
  BY <1>1, <1>2, FirstTaken
<1>4. /\ Types' /\ replies # <<>> /\ pc' = "callback" /\ replies' = Tail(replies)
      /\ ran' = [ran EXCEPT ![Head(replies)] = Append(@, Head(inbox))]
      /\ UNCHANGED <<disconnecting, subscribed, err, invalid, subs, owner>>
  BY <1>1, ProcessReplyTypes
<1>5. Waiting # <<>> /\ Head(Waiting) = Head(replies) /\ Waiting' = Tail(Waiting)
  <2>1. PICK S : S = Nat \ {0}
    OBVIOUS
  <2>2. replies \in Seq(S) /\ invalid \in Seq(S)
    BY <1>1, <2>1, Queues
  <2>. QED  BY <1>4, <2>2, HeadJoined DEF Waiting
<1>6. Flow
  BY <1>1, <1>3
<1>7. IsAnswer(In[1]) \/ IsRefusal(In[1])
  BY <1>1, <1>3, <1>4, <1>6, AnswerFirst
<1>8. In[1].id \in {Head(Waiting), 0}
  BY <1>1, <1>3, <1>6, <1>7, HeadAnswer DEF IsRefusal
<1>9. In[1] \in Given /\ In[1].type # "null"
  BY <1>3, GivenTypes
<1>10. ran' = [ran EXCEPT ![Head(Waiting)] = Append(@, In[1])]
  BY <1>3, <1>4, <1>5
<1>11. Queue' /\ Told'
  BY <1>1, <1>3, <1>4, <1>5, <1>8, <1>9, <1>10, WaitingGiven
<1>12. Owned' = Owned /\ BoundToLast' /\ Owners' /\ Found'
  BY <1>1, <1>3, <1>4 DEF Owned, BoundToLast, Owners, Found, Running
<1>13. Flow'
  <2>1. PICK S : S = Nat \ {0}
    OBVIOUS
  <2>2. replies \in Seq(S)
    BY <1>1, <2>1, Queues
  <2>3. \A y : Among(y, replies') => Among(y, replies)
    BY <1>4, <2>2, AmongTail
  <2>. QED  BY <1>1, <1>3, <1>4, <1>5, <1>6, <1>7, <1>12, <2>3, AnswerTaken
<1>14. \A id \in 1 .. Len(cmds) : Nulls(id)' = Nulls(id)
  BY <1>1, <1>9, <1>10, NullsKept
<1>15. Running'
  BY <1>4 DEF Running
<1>. QED  BY <1>3, <1>4, <1>11, <1>12, <1>13, <1>14, <1>15, GoesOn

\* An error that no callback waits for ends the context.
LEMMA ProcessErrorKeeps ==
    ASSUME Consistent, ProcessError
    PROVE  Consistent'
<1>1. /\ Types /\ BoundToLast /\ Queue /\ Told /\ Owners /\ Found /\ Ended
  BY DEF Consistent
<1>2. /\ Types' /\ pc' = "freeing" /\ disconnecting'
      /\ UNCHANGED <<freeing, subscribed, replies, invalid, subs, ran, owner, cmds>>
  BY <1>1, ProcessErrorTypes
<1>3. ~Over /\ Over' /\ ~Running'
  BY <1>2 DEF ProcessError, Taken, Over, Running
<1>4. Waiting' = Waiting
  BY <1>2 DEF Waiting
<1>5. Queue' /\ Told'
  BY <1>1, <1>2, <1>4 DEF Queue, Told
<1>6. BoundToLast' /\ Owners' /\ Found'
  BY <1>1, <1>2 DEF BoundToLast, Owners, Found
<1>7. Ended'
  BY <1>1, <1>2, <1>3, EndBegins
<1>8. Ending' /\ RepliesExpected'
  BY <1>2 DEF Ending, RepliesExpected
<1>. QED  BY <1>2, <1>3, <1>5, <1>6, <1>7, <1>8 DEF Consistent

\* An answer that no callback of the queue waits for.
LEMMA StrayAnswerKeeps ==
    ASSUME Consistent, ProcessMessage, Head(inbox).type = "reply"
    PROVE  Consistent'
<1>1. /\ Types /\ BoundToLast /\ Queue /\ Told /\ Owners /\ Found /\ (Running => Flow)
  BY DEF Consistent
<1>2. /\ Types' /\ Taken /\ replies = <<>> /\ replies' = <<>>
      /\ MessageCallback # 0 =>
                /\ pc' = "callback" /\ subscribed' = ~LastUnsubscribe(Head(inbox))
                /\ ran' = [ran EXCEPT ![MessageCallback] = Append(@, Head(inbox))]
                /\ invalid' = Tail(invalid)
                /\ UNCHANGED <<subs, owner>>
  BY <1>1, ProcessMessageTypes
<1>3. /\ In # <<>> /\ In' = Tail(In) /\ In[1] = Head(inbox) /\ In[1] \in Replies
      /\ Running /\ UNCHANGED <<Out, cmds, serving, closed, freeing>>
  BY <1>1, <1>2, FirstTaken
<1>4. Flow
  BY <1>1, <1>3
<1>5. IsAnswer(In[1])
  <2>1. 1 \in 1 .. Len(In)
    BY <1>1, <1>3, TailOfFlow
  <2>. QED  BY <1>3, <1>4, <2>1 DEF Flow, AllExpected, Expected, IsAnswer
<1>6. Waiting # <<>> /\ Head(Waiting) = In[1].id
  BY <1>1, <1>3, <1>4, <1>5, HeadAnswer
<1>7. invalid \in Seq(Nat \ {0}) /\ Tail(invalid) \in Seq(Nat \ {0}) /\ Waiting = invalid
      /\ (invalid' = Tail(invalid) => Waiting' = Tail(invalid))
  <2>1. PICK S : S = Nat \ {0}
    OBVIOUS
  <2>2. replies \in Seq(S) /\ invalid \in Seq(S)
    BY <1>1, <2>1, Queues
  <2>3. Waiting = invalid
    BY <1>2, <2>2, HeadJoined DEF Waiting
  <2>4. Tail(invalid) \in Seq(S)
    BY <1>6, <2>2, <2>3, TakenFirst
  <2>5. <<>> \o Tail(invalid) = Tail(invalid)
    BY <1>2, <2>2, <2>4, HeadJoined
  <2>6. invalid' = Tail(invalid) => Waiting' = Tail(invalid)
    BY <1>2, <2>5 DEF Waiting
  <2>. QED  BY <2>1, <2>2, <2>3, <2>4, <2>6
<1>8. invalid # <<>> /\ subscribed
  BY <1>4, <1>6, <1>7 DEF Flow, Subscriptions
<1>9. MessageCallback = Head(Waiting) /\ MessageCallback # 0
  BY <1>3, <1>5, <1>6, <1>7, <1>8 DEF MessageCallback, IsAnswer
<1>10. /\ pc' = "callback" /\ subscribed' = subscribed /\ invalid' = Tail(invalid)
       /\ ran' = [ran EXCEPT ![Head(Waiting)] = Append(@, In[1])]
       /\ UNCHANGED <<subs, owner>> /\ Waiting' = Tail(Waiting)
  BY <1>1, <1>2, <1>3, <1>7, <1>8, <1>9 DEF LastUnsubscribe, Types
<1>11. In[1] \in Given /\ In[1].type # "null"
  BY <1>3, GivenTypes
<1>12. Queue' /\ Told'
  BY <1>1, <1>3, <1>6, <1>10, <1>11, WaitingGiven
<1>13. Owned' = Owned /\ BoundToLast' /\ Owners' /\ Found'
  BY <1>1, <1>3, <1>10 DEF Owned, BoundToLast, Owners, Found, Running
<1>14. Flow'
  BY <1>1, <1>2, <1>3, <1>4, <1>5, <1>6, <1>8, <1>10, <1>13, AnswerTaken
<1>15. \A id \in 1 .. Len(cmds) : Nulls(id)' = Nulls(id)
  BY <1>1, <1>10, <1>11, NullsKept
<1>16. Running'
  BY <1>10 DEF Running
<1>. QED  BY <1>2, <1>3, <1>12, <1>13, <1>14, <1>15, <1>16, GoesOn

\* What is pushed goes to the callback of its channel.
LEMMA PushKeeps ==
    ASSUME Consistent, ProcessMessage, Head(inbox).type # "reply"
    PROVE  Consistent'
<1>1. /\ Types /\ BoundToLast /\ Queue /\ Told /\ Owners /\ Found /\ (Running => Flow)
  BY DEF Consistent
<1>2. /\ Types' /\ Taken /\ UNCHANGED replies /\ Head(inbox).type # "error"
  BY <1>1, ProcessMessageTypes
<1>3. /\ In # <<>> /\ In' = Tail(In) /\ In[1] = Head(inbox) /\ In[1] \in Replies
      /\ Running /\ UNCHANGED <<Out, cmds, serving, closed, freeing>>
  BY <1>1, <1>2, FirstTaken
<1>4. Flow
  BY <1>1, <1>3
<1>5. IsPush(In[1])
  BY <1>2, <1>3, Kinds DEF IsAnswer, IsRefusal
<1>6. PICK v \in Variants, c \in Channels : v = In[1].v /\ c = In[1].channel /\ c \in Keys
  BY <1>3, <1>5, Kinds, FiniteChannels DEF On
<1>7. 1 \in 1 .. Len(In)
  BY <1>1, <1>3, TailOfFlow
<1>8. On(In[1]) \in Owned /\ On(In[1]) = <<v, c>>
  BY <1>4, <1>5, <1>6, <1>7 DEF Flow, AllExpected, Expected, On
<1>9. owner[v][c] # 0 /\ subscribed
  <2>1. owner[v][c] # 0
    BY <1>8 DEF Owned
  <2>. QED  BY <1>4, <1>8, <2>1 DEF Flow, Subscriptions
<1>10. dictFind(subs[v], c) = owner[v][c]
  BY <1>1, <1>3 DEF BoundToLast, Running
<1>11. PICK cb : cb = owner[v][c] /\ cb \in 1 .. Len(cmds) /\ cmds[cb].op = "subscribe"
  BY <1>1, <1>9 DEF Owners
<1>12. MessageCallback = cb /\ cb # 0
  BY <1>3, <1>6, <1>9, <1>10, <1>11 DEF MessageCallback
<1>13. /\ pc' = "callback" /\ subscribed' = ~LastUnsubscribe(In[1])
       /\ ran' = [ran EXCEPT ![cb] = Append(@, In[1])]
       /\ invalid' = invalid
       /\ In[1].type # "unsubscribe" => UNCHANGED <<subs, owner>>
       /\ In[1].type = "unsubscribe" =>
             /\ owner' = [owner EXCEPT ![v][c] = 0]
             /\ \A w \in Variants, k \in Keys : dictFind(subs'[w], k) =
                           IF w = v /\ k = c THEN 0 ELSE dictFind(subs[w], k)
  BY <1>1, <1>3, <1>6, <1>12, ProcessMessageTypes
<1>14. In[1] \in Given /\ In[1].type # "null"
  BY <1>3, GivenTypes
<1>15. Waiting' = Waiting
  BY <1>2, <1>13 DEF Waiting
<1>16. Queue' /\ Told'
  BY <1>1, <1>3, <1>11, <1>13, <1>14, <1>15, SubscriptionGiven
<1>17. \A id \in 1 .. Len(cmds) : Nulls(id)' = Nulls(id)
  BY <1>1, <1>13, <1>14, NullsKept
<1>18. Running'
  BY <1>13 DEF Running
<1>19. CASE In[1].type # "unsubscribe"
  <2>1. Owned' = Owned /\ BoundToLast' /\ Owners' /\ Found'
    BY <1>1, <1>3, <1>13, <1>19 DEF Owned, BoundToLast, Owners, Found, Running
  <2>2. UNCHANGED subscribed
    BY <1>1, <1>9, <1>13, <1>19 DEF LastUnsubscribe, Types
  <2>3. ~IsUnsub(In[1])
    BY <1>19 DEF IsUnsub
  <2>4. Flow'
    BY <1>1, <1>2, <1>3, <1>4, <1>5, <1>13, <1>15, <2>1, <2>2, <2>3, PushTaken
  <2>. QED  BY <1>2, <1>3, <1>16, <1>17, <1>18, <2>1, <2>4, GoesOn
<1>20. CASE In[1].type = "unsubscribe"
  <2>1. /\ owner \in [Variants -> [Channels -> Nat]]
        /\ owner' = [owner EXCEPT ![v][c] = 0]
    BY <1>1, <1>13, <1>20 DEF Types
  <2>2. \A w \in Variants, k \in Channels : owner'[w][k] = IF w = v /\ k = c THEN 0 ELSE owner[w][k]
    BY <2>1
  <2>3. \A w \in Variants, k \in Keys : dictFind(subs'[w], k) =
                           IF w = v /\ k = c THEN 0 ELSE dictFind(subs[w], k)
    BY <1>13, <1>20
  <2>4. Owned' = Owned \ {On(In[1])}
    BY <1>8, <2>2 DEF Owned
  <2>5. BoundToLast'
    BY <1>1, <1>3, <2>2, <2>3, FiniteChannels DEF BoundToLast, Running
  <2>6. Owners'
    BY <1>1, <1>3, <2>2 DEF Owners
  <2>7. Found'
    BY <1>1, <2>2, <2>3 DEF Found
  <2>8. IsUnsub(In[1]) /\ subscribed' = (In[1].left # 0)
    BY <1>13, <1>20 DEF IsUnsub, LastUnsubscribe
  <2>9. Flow'
    BY <1>1, <1>2, <1>3, <1>4, <1>13, <1>15, <2>4, <2>8, UnsubTaken
  <2>. QED  BY <1>2, <1>3, <1>16, <1>17, <1>18, <2>5, <2>6, <2>7, <2>9, GoesOn
<1>. QED  BY <1>19, <1>20

\* A step of the end, that tells one callback of it.
LEMMA EndGoesOn ==
    ASSUME Consistent, Types', pc = "freeing", pc' = "nullreply", UNCHANGED <<flags, cmds, owner>>,
           Queue', Told', Found',
           \A id \in 1 .. Len(cmds) : cmds[id].op = "subscribe" =>
               Cardinality(Nulls(id)') + Cardinality(BoundTo(id)') = Cardinality(OwnedBy(id))
    PROVE  Consistent'
<1>1. Over /\ Over' /\ ~Running'
  BY DEF Over, Running
<1>2. Ended'
  <2>1. \A id : OwnedBy(id)' = OwnedBy(id)
    BY DEF OwnedBy
  <2>. QED  BY <1>1, <2>1 DEF Ended
<1>3. Ending' /\ Owners' /\ BoundToLast' /\ RepliesExpected'
  BY <1>1 DEF Ending, Owners, BoundToLast, RepliesExpected, Consistent, flags
<1>. QED  BY <1>1, <1>2, <1>3 DEF Consistent

LEMMA FreeReplyKeeps ==
    ASSUME Consistent, FreeReply
    PROVE  Consistent'
<1>1. Types /\ Queue /\ Told /\ Found /\ Ended
  BY DEF Consistent
<1>2. /\ Types' /\ Waiting # <<>>
      /\ ran' = [ran EXCEPT ![Head(Waiting)] = Append(@, NullReply)]
      /\ IF replies # <<>> THEN replies' = Tail(replies) /\ UNCHANGED invalid
         ELSE invalid # <<>> /\ invalid' = Tail(invalid) /\ UNCHANGED replies
      /\ pc = "freeing" /\ pc' = "nullreply" /\ UNCHANGED <<flags, subs, cmds, owner>>
  BY <1>1, FreeReplyTypes DEF Waiting, FreeReply
<1>3. Waiting' = Tail(Waiting)
  <2>1. PICK S : S = Nat \ {0}
    OBVIOUS
  <2>2. replies \in Seq(S) /\ invalid \in Seq(S)
    BY <1>1, <2>1, Queues
  <2>3. CASE replies # <<>>
    <3>1. replies' = Tail(replies) /\ invalid' = invalid
      BY <1>2, <2>3
    <3>2. Waiting' = Tail(replies) \o invalid
      BY <3>1 DEF Waiting
    <3>3. Tail(replies \o invalid) = Tail(replies) \o invalid
      BY <2>2, <2>3, HeadJoined
    <3>. QED  BY <3>2, <3>3 DEF Waiting
  <2>4. CASE replies = <<>>
    <3>1. Tail(invalid) \in Seq(S)
      BY <1>2, <2>2, <2>4, TakenFirst
    <3>2. <<>> \o Tail(invalid) = Tail(invalid) /\ Waiting = invalid
      BY <2>2, <2>4, <3>1, HeadJoined DEF Waiting
    <3>3. replies' = <<>> /\ invalid' = Tail(invalid)
      BY <1>2, <2>4
    <3>4. Waiting' = <<>> \o Tail(invalid)
      BY <3>3 DEF Waiting
    <3>. QED  BY <3>2, <3>4
  <2>. QED  BY <2>3, <2>4
<1>4. /\ Queue' /\ Told'
      /\ Head(Waiting) \in 1 .. Len(cmds) /\ cmds[Head(Waiting)].op = "command"
  BY <1>1, <1>2, <1>3, GivenTypes, WaitingGiven
<1>5. ASSUME NEW id \in 1 .. Len(cmds), cmds[id].op = "subscribe"
      PROVE  Cardinality(Nulls(id)') + Cardinality(BoundTo(id)') = Cardinality(OwnedBy(id))
  <2>1. id # Head(Waiting)
    BY <1>4, <1>5
  <2>2. Nulls(id)' = Nulls(id)
    BY <1>1, <1>2, <2>1, GivenTypes, NullsKept
  <2>3. BoundTo(id)' = BoundTo(id)
    BY <1>2 DEF BoundTo
  <2>4. Over
    BY <1>2 DEF Over
  <2>. QED  BY <1>1, <1>5, <2>2, <2>3, <2>4 DEF Ended
<1>6. Found'
  BY <1>1, <1>2 DEF Found
<1>. QED  BY <1>2, <1>4, <1>5, <1>6, EndGoesOn

\* A set that gains an element, and one that loses one.
LEMMA OneMore ==
    ASSUME NEW A, IsFiniteSet(A), NEW x, x \notin A, NEW B, B = A \union {x}
    PROVE  Cardinality(A) \in Nat /\ Cardinality(B) = Cardinality(A) + 1
  BY FS_AddElement, FS_CardinalityType

LEMMA NullAdded ==
    ASSUME Types, NEW cb \in 1 .. Len(cmds), ran' = [ran EXCEPT ![cb] = Append(@, NullReply)]
    PROVE  /\ Cardinality(Nulls(cb)) \in Nat
           /\ Cardinality(Nulls(cb)') = Cardinality(Nulls(cb)) + 1
<1>1. PICK n \in Nat : n = Len(ran[cb])
  BY GivenTypes, GivenOnce
<1>2. /\ Len(ran'[cb]) = n + 1 /\ ran'[cb][n + 1] = NullReply
      /\ \A i \in 1 .. n : ran'[cb][i] = ran[cb][i]
  <2>1. NullReply \in Given
    BY NullGiven
  <2>2. /\ Len(ran'[cb]) = Len(ran[cb]) + 1 /\ ran'[cb][Len(ran[cb]) + 1] = NullReply
        /\ \A i \in 1 .. Len(ran[cb]) : ran'[cb][i] = ran[cb][i]
    BY <2>1, GivenOnce
  <2>. QED  BY <1>1, <2>2
<1>3. \A i \in 1 .. n + 1 : i \in 1 .. n \/ i = n + 1
  OBVIOUS
<1>4. /\ \A i \in 1 .. n : i \in 1 .. n + 1
      /\ n + 1 \in 1 .. n + 1 /\ n + 1 \notin 1 .. n
  OBVIOUS
<1>5. Nulls(cb)' = Nulls(cb) \union {n + 1}
  BY <1>1, <1>2, <1>3, <1>4, GivenTypes DEF Nulls
<1>6. IsFiniteSet(Nulls(cb)) /\ n + 1 \notin Nulls(cb)
  <2>1. IsFiniteSet(1 .. n)
    BY FS_Interval
  <2>2. Nulls(cb) \subseteq 1 .. n
    BY <1>1 DEF Nulls
  <2>. QED  BY <1>4, <2>1, <2>2, FS_Subset
<1>. QED  BY <1>5, <1>6, OneMore

\* An entry of a dictionary is passed: its callback is told, and is bound to it no more.
LEMMA FreeSubscriptionKeeps ==
    ASSUME Consistent, FreeSubscription
    PROVE  Consistent'
<1>1. Types /\ Queue /\ Told /\ Owners /\ Found /\ Ended
  BY DEF Consistent
<1>2. /\ Types' /\ pc = "freeing" /\ pc' = "nullreply"
      /\ UNCHANGED <<flags, replies, invalid, cmds, owner>>
  BY <1>1, FreeSubscriptionTypes DEF FreeSubscription
<1>3. PICK v \in Variants, k \in Keys, cb \in Nat \ {0} :
        /\ dictFind(subs[v], k) = cb
        /\ ran' = [ran EXCEPT ![cb] = Append(@, NullReply)]
        /\ \A w \in Variants, x \in Keys : dictFind(subs'[w], x) =
              IF w = v /\ x = k THEN 0 ELSE dictFind(subs[w], x)
  BY <1>1, FreeSubscriptionTypes
<1>4. k \in Channels /\ owner[v][k] = cb /\ cb \in 1 .. Len(cmds) /\ cmds[cb].op = "subscribe"
  BY <1>1, <1>3 DEF Found, Owners
<1>5. Waiting' = Waiting
  BY <1>2 DEF Waiting
<1>6. Queue' /\ Told'
  BY <1>1, <1>2, <1>3, <1>4, <1>5, GivenTypes, SubscriptionGiven
<1>7. Found'
  BY <1>1, <1>2, <1>3 DEF Found
<1>8. /\ BoundTo(cb) = BoundTo(cb)' \union {<<v, k>>} /\ <<v, k>> \notin BoundTo(cb)'
      /\ \A id : id # cb /\ id # 0 => BoundTo(id)' = BoundTo(id)
  BY <1>3, <1>4, FiniteChannels DEF BoundTo
<1>9. /\ Cardinality(BoundTo(cb)') \in Nat
      /\ Cardinality(BoundTo(cb)) = Cardinality(BoundTo(cb)') + 1
  <2>1. IsFiniteSet(BoundTo(cb)')
    BY FiniteChannels, FS_Subset DEF BoundTo
  <2>. QED  BY <1>8, <2>1, OneMore
<1>10. /\ Cardinality(Nulls(cb)) \in Nat
       /\ Cardinality(Nulls(cb)') = Cardinality(Nulls(cb)) + 1
  BY <1>1, <1>3, <1>4, NullAdded
<1>11. ASSUME NEW id \in 1 .. Len(cmds), cmds[id].op = "subscribe"
       PROVE  Cardinality(Nulls(id)') + Cardinality(BoundTo(id)') = Cardinality(OwnedBy(id))
  <2>1. Cardinality(Nulls(id)) + Cardinality(BoundTo(id)) = Cardinality(OwnedBy(id))
    BY <1>1, <1>2, <1>11 DEF Ended, Over
  <2>2. CASE id = cb
    BY <1>9, <1>10, <2>1, <2>2
  <2>3. CASE id # cb
    <3>1. Nulls(id)' = Nulls(id)
      BY <1>1, <1>3, <2>3, GivenTypes, NullsKept
    <3>2. id # 0
      BY <1>1 DEF Types
    <3>. QED  BY <1>8, <2>1, <2>3, <3>1, <3>2
  <2>. QED  BY <2>2, <2>3
<1>. QED  BY <1>2, <1>6, <1>7, <1>11, EndGoesOn

(***************************************************************************)
(* The invariant holds at first and is kept by every step.                 *)
(***************************************************************************)
LEMMA ConsistentAtFirst ==
    Init => Consistent
<1>. SUFFICES ASSUME Init PROVE Consistent
  OBVIOUS
<1>1. Types
  BY TypesHold
<1>2. /\ pc = "loop" /\ disconnecting = FALSE /\ subscribed = FALSE
      /\ replies = <<>> /\ invalid = <<>> /\ cmds = <<>> /\ serving = {}
      /\ requests = <<>> /\ obuf = <<>> /\ wire = <<>> /\ inbox = <<>>
      /\ subs = [v \in Variants |-> dictCreate]
      /\ owner = [v \in Variants |-> [c \in Channels |-> 0]]
  BY DEF Init
<1>3. <<>> \o <<>> = <<>> /\ Len(<<>>) = 0 /\ \A i : i \notin 1 .. 0
  OBVIOUS
<1>4. /\ In = <<>> /\ Out = <<>> /\ Waiting = <<>>
      /\ \A i : i \notin 1 .. Len(In) /\ i \notin 1 .. Len(Out) /\ i \notin 1 .. Len(Waiting)
                /\ i \notin 1 .. Len(cmds)
  BY <1>2, <1>3 DEF In, Out, Waiting
<1>5. /\ \A v \in Variants, k \in Keys : dictFind(subs[v], k) = 0
      /\ \A v \in Variants, c \in Channels : owner[v][c] = 0
  BY <1>2, CreateSound
<1>6. BoundToLast /\ Owners /\ Found
  BY <1>5, FiniteChannels DEF BoundToLast, Owners, Found
<1>7. Ending /\ RepliesExpected
  BY <1>2 DEF Ending, Over, RepliesExpected
<1>8. Queue /\ Told /\ Ended
  BY <1>2, <1>4 DEF Queue, Told, Ended
<1>9. Owned = {}
  BY <1>5 DEF Owned
<1>10. Flow
  BY <1>2, <1>4, <1>9 DEF Flow, InOrder, AllExpected, LastTold, AllRequested, Awaited,
         Subscriptions, Leaving, Coming
<1>. QED  BY <1>1, <1>6, <1>7, <1>8, <1>10 DEF Consistent

LEMMA NothingKeeps ==
    ASSUME Consistent, UNCHANGED vars
    PROVE  Consistent'
<1>1. /\ Types /\ BoundToLast /\ Ending /\ Queue /\ Told /\ Owners /\ Found /\ Ended
      /\ RepliesExpected /\ (Running => Flow)
  BY DEF Consistent
<1>2. UNCHANGED <<pc, connected, disconnecting, freeing, subscribed, err, wantRead, wantWrite, replies,
                  invalid, subs, obuf, requests, wire, inbox, closed, serving, messages, faults, cmds,
                  ran, owner>>
  BY DEF vars, flags, events, cbs, server, counts, record
<1>3. UNCHANGED <<In, Out, Waiting, Owned>>
  BY <1>2 DEF In, Out, Waiting, Owned
<1>4. Types' /\ BoundToLast' /\ Ending' /\ Owners' /\ Found' /\ RepliesExpected'
  BY <1>1, <1>2 DEF Types, BoundToLast, Ending, Owners, Found, RepliesExpected, Over
<1>5. Queue' /\ Told'
  BY <1>1, <1>2, <1>3 DEF Queue, Told
<1>6. Ended'
  BY <1>1, <1>2 DEF Ended, Over, Nulls, BoundTo, OwnedBy
<1>7. Running' => Flow'
  <2>1. SUFFICES ASSUME Running' PROVE Flow'
    OBVIOUS
  <2>2. Flow /\ \A i \in 1 .. Len(cmds) : i \in 1 .. Len(cmds') /\ cmds'[i] = cmds[i]
    BY <1>1, <1>2, <2>1 DEF Running
  <2>. QED  BY <1>2, <1>3, <2>2, FlowKept
<1>. QED  BY <1>4, <1>5, <1>6, <1>7 DEF Consistent

LEMMA ConsistentNext ==
    ASSUME Consistent, [Next]_vars
    PROVE  Consistent'
<1>1. CASE UNCHANGED vars
  BY <1>1, NothingKeeps
<1>2. CASE \/ Command
           \/ \E v \in Variants, list \in Lists : Subscribe(v, list) \/ Unsubscribe(v, list)
  BY <1>2, IssueStepKeeps
<1>3. CASE ClientDisconnects \/ ClientFrees \/ HandleConnect \/ ReadEnd \/ IOFails
             \/ ProcessNone \/ CallbackReturns \/ Freed
  BY <1>3, FlagStepKeeps
<1>4. CASE (\E n \in 0..Len(wire) : Read(n)) \/ (\E n \in 0..Len(obuf) : Write(n))
  BY <1>4, TransferStepKeeps
<1>5. CASE ProcessReply
  BY <1>5, ProcessReplyKeeps
<1>6. CASE ProcessError
  BY <1>6, ProcessErrorKeeps
<1>7. CASE ProcessMessage
  BY <1>7, StrayAnswerKeeps, PushKeeps
<1>8. CASE FreeReply
  BY <1>8, FreeReplyKeeps
<1>9. CASE FreeSubscription
  BY <1>9, FreeSubscriptionKeeps
<1>10. CASE Execute \/ Publish \/ Close
  BY <1>10, ServerStepKeeps
<1>. QED  BY <1>1, <1>2, <1>3, <1>4, <1>5, <1>6, <1>7, <1>8, <1>9, <1>10 DEF Next, Library

\* The inductive invariant holds throughout: what is under way to the client is ordered
\* as its callbacks are, and each reply finds the callback that waits for it.
THEOREM ConsistentAlways == FairSpec => []Consistent
  BY ConsistentAtFirst, ConsistentNext, PTL DEF FairSpec

(***************************************************************************)
(* The properties.                                                         *)
(***************************************************************************)
LEMMA ConsistentTypes ==
    ASSUME Consistent
    PROVE  TypeOK
<1>1. Types /\ Queue
  BY DEF Consistent
<1>2. DOMAIN cmds = 1 .. Len(cmds) /\ DOMAIN ran = 1 .. Len(cmds)
  BY <1>1, LenProperties DEF Types
<1>3. ASSUME NEW list, list \in Seq(Nat \ {0}), \A y : Among(y, list) => Among(y, Waiting)
      PROVE  Range(list) \subseteq Ids
  <2>1. DOMAIN list = 1 .. Len(list)
    BY <1>3, LenProperties
  <2>2. ASSUME NEW i \in 1 .. Len(list) PROVE list[i] \in 1 .. Len(cmds)
    <3>1. Among(list[i], Waiting)
      BY <1>3 DEF Among
    <3>. QED  BY <1>1, <3>1 DEF Among, Queue
  <2>. QED  BY <1>2, <2>1, <2>2 DEF Range, Ids
<1>4. Range(replies) \subseteq Ids /\ Range(invalid) \subseteq Ids
  BY <1>1, <1>3, Queues
<1>5. \A v \in Variants : DictOK(subs[v])
  BY <1>1 DEF Types, Sound
<1>. QED  BY <1>1, <1>2, <1>4, <1>5 DEF TypeOK, Types, Ids

\* TypeOK for every table of hashes, every set of argument lists and every bound: of the
\* dictionaries this is that each entry is in the bucket of its hash, no key is in
\* twice and the count of used entries is exact, through every dictReplace, every
\* resize and every dictDelete (dict.c lines 88-210).
THEOREM TypesCorrect == FairSpec => []TypeOK
  BY ConsistentAlways, ConsistentTypes, PTL

\* The dictionaries bind what the client subscribed to, and nothing else, to the
\* callback it gave last, until the context ends: a resize, a deletion in a chain of
\* several keys or a callback that subscribes again loses none of them
\* (async.c lines 336-352 and 555-565).
THEOREM BoundCorrect == FairSpec => []BoundToLast
<1>1. Consistent => BoundToLast
  BY DEF Consistent
<1>. QED  BY <1>1, ConsistentAlways, PTL

LEMMA AnsweredWhenConsistent ==
    ASSUME Types, Queue, Told
    PROVE  AnsweredOnce
<1>1. /\ Waiting \in Seq(Nat \ {0}) /\ DOMAIN cmds = 1 .. Len(cmds)
      /\ DOMAIN ran = 1 .. Len(cmds) /\ \A id \in 1 .. Len(cmds) : ran[id] \in Seq(Given)
  BY Queues, LenProperties, ElementOfSeq DEF Types
<1>2. DOMAIN Waiting = 1 .. Len(Waiting)
  BY <1>1, LenProperties
<1>3. SUFFICES ASSUME NEW id \in 1 .. Len(cmds), cmds[id].op = "command"
               PROVE  /\ Cardinality({i \in DOMAIN Waiting : Waiting[i] = id}) + Len(ran[id]) = 1
                      /\ \A i \in DOMAIN ran[id] : ran[id][i].id \in {id, 0}
                      /\ pc = "freed" => ran[id] # <<>>
  BY <1>1 DEF AnsweredOnce, Ids, Waiting
<1>4. /\ IF Among(id, Waiting) THEN ran[id] = <<>> ELSE Len(ran[id]) = 1
      /\ \A i \in 1 .. Len(ran[id]) : ran[id][i].id \in {id, 0}
      /\ pc = "freed" => Waiting = <<>>
  BY <1>3 DEF Told
<1>5. DOMAIN ran[id] = 1 .. Len(ran[id])
  BY <1>1, <1>3, LenProperties
<1>6. Len(<<>>) = 0
  OBVIOUS
<1>7. CASE Among(id, Waiting)
  <2>1. PICK k \in 1 .. Len(Waiting) : Waiting[k] = id
    BY <1>7 DEF Among
  <2>2. Len(Waiting) \in Nat
    BY Queues
  <2>3. ASSUME NEW i \in 1 .. Len(Waiting), i # k PROVE Waiting[i] # id
    <3>1. id < id \/ Waiting[i] # id
      BY <2>1, <2>2, <2>3 DEF Queue
    <3>. QED  BY <1>1, <1>3, <3>1, Queues
  <2>4. {i \in DOMAIN Waiting : Waiting[i] = id} = {k}
    BY <1>2, <2>1, <2>3
  <2>5. Cardinality({i \in DOMAIN Waiting : Waiting[i] = id}) = 1
    BY <2>4, FS_Singleton
  <2>6. 1 \notin 1 .. 0
    OBVIOUS
  <2>7. pc # "freed"
    BY <1>4, <1>6, <2>1
  <2>. QED  BY <1>4, <1>5, <1>6, <1>7, <2>5, <2>7
<1>8. CASE ~Among(id, Waiting)
  <2>1. {i \in DOMAIN Waiting : Waiting[i] = id} = {}
    BY <1>2, <1>8 DEF Among
  <2>2. Cardinality({i \in DOMAIN Waiting : Waiting[i] = id}) = 0
    BY <2>1, FS_EmptySet
  <2>3. Len(ran[id]) = 1 /\ ran[id] # <<>>
    BY <1>4, <1>6, <1>8
  <2>4. \A i \in DOMAIN ran[id] : ran[id][i].id \in {id, 0}
    BY <1>4, <1>5
  <2>5. Cardinality({i \in DOMAIN Waiting : Waiting[i] = id}) + Len(ran[id]) = 1
    BY <2>2, <2>3
  <2>. QED  BY <2>3, <2>4, <2>5
<1>. QED  BY <1>7, <1>8

LEMMA EndedWhenConsistent ==
    ASSUME Types, Ended
    PROVE  SubscriptionsEnd
<1>1. SUFFICES ASSUME pc = "freed", NEW id \in 1 .. Len(cmds), cmds[id].op = "subscribe"
               PROVE  Cardinality(Nulls(id)) = Cardinality(OwnedBy(id))
  <2>1. /\ DOMAIN cmds = 1 .. Len(cmds) /\ DOMAIN ran = 1 .. Len(cmds)
        /\ \A id \in 1 .. Len(cmds) : ran[id] \in Seq(Given)
    BY LenProperties, ElementOfSeq DEF Types
  <2>2. \A id \in 1 .. Len(cmds) : DOMAIN ran[id] = 1 .. Len(ran[id])
    BY <2>1, LenProperties
  <2>. QED  BY <2>1, <2>2 DEF SubscriptionsEnd, Ids, Nulls, OwnedBy
<1>2. /\ Cardinality(Nulls(id)) + Cardinality(BoundTo(id)) = Cardinality(OwnedBy(id))
      /\ \A v \in Variants, k \in Keys : dictFind(subs[v], k) = 0
  BY <1>1 DEF Ended, Over
<1>3. BoundTo(id) = {}
  <2>1. id # 0
    BY DEF Types
  <2>. QED  BY <1>2, <2>1, FiniteChannels DEF BoundTo
<1>4. Cardinality(BoundTo(id)) = 0
  BY <1>3, FS_EmptySet
<1>5. Cardinality(Nulls(id)) \in Nat
  <2>1. PICK n \in Nat : n = Len(ran[id])
    <3>1. ran \in Seq(Seq(Given)) /\ id \in 1 .. Len(ran)
      BY DEF Types
    <3>2. ran[id] \in Seq(Given)
      BY <3>1, ElementOfSeq
    <3>. QED  BY <3>2, LenProperties
  <2>2. IsFiniteSet(1 .. n)
    BY FS_Interval
  <2>3. Nulls(id) \subseteq 1 .. n
    BY <2>1 DEF Nulls
  <2>. QED  BY <2>2, <2>3, FS_Subset, FS_CardinalityType
<1>. QED  BY <1>2, <1>4, <1>5

\* However many commands wait, wherever the client disconnects or frees, and whatever the
\* server does: the callback of a command runs once, with the reply to that command,
\* with the refusal of the connection or with none at the end, and not before; and a
\* context that is freed tells the callback of each subscription it still had, as often as
\* there are bindings left of it (async.c lines 225-437).
THEOREM CallbacksCorrect == FairSpec => []CallbacksOnce
<1>1. Consistent => CallbacksOnce
  BY AnsweredWhenConsistent, EndedWhenConsistent DEF Consistent, CallbacksOnce
<1>. QED  BY <1>1, ConsistentAlways, PTL

\* No message comes for which the library finds no callback, and it is not at a loss in
\* the assertion of line 411: that the context is subscribed when a reply comes that nobody
\* in the queue waits for.  The one assertion that may fail is that of line 289.
THEOREM RepliesCorrect == FairSpec => []RepliesExpected
<1>1. Consistent => RepliesExpected
  BY DEF Consistent
<1>. QED  BY <1>1, ConsistentAlways, PTL

=============================================================================
