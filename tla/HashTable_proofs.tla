--------------------------- MODULE HashTable_proofs ---------------------------
(***************************************************************************)
(* Proofs about HashTable: a theory of chains of entries first, then the   *)
(* inductive invariant of the table, its properties, and the refinement of *)
(* KeyMap.                                                                 *)
(***************************************************************************)
EXTENDS HashTable, FiniteSetTheorems, WellFoundedInduction, TLAPS

\* A nonempty set of natural numbers has a least element.
LEMMA LeastNatural ==
    ASSUME NEW T \in SUBSET Nat, T # {}
    PROVE  \E x \in T : \A y \in T : x <= y
<1>1. PICK R : R = {p \in Nat \X Nat : p[1] < p[2]}
  OBVIOUS
<1>2. IsWellFoundedOn(R, Nat)
  BY <1>1, NatLessThanWellFounded DEF OpToRel
<1>3. PICK x \in T : \A y \in T : ~(<<y, x>> \in R)
  BY <1>2, WFMin
<1>4. \A y \in T : ~(y < x)
  BY <1>1, <1>3
<1>. QED  BY <1>4

-----------------------------------------------------------------------------
(* Chains: what Reachable(f, p) contains, for any next fields f.           *)

\* The start of a chain is in it, and the chain is closed under f.
LEMMA ChainClosed ==
    ASSUME NEW f \in [Keys -> Pointer], NEW p \in Pointer
    PROVE  /\ Reachable(f, p) \subseteq Keys
           /\ p \in Reachable(f, p) \union {NULL}
           /\ \A l \in Reachable(f, p) : f[l] \in Reachable(f, p) \union {NULL}
BY NullAssumption DEF Reachable, Pointer

\* It is the least such set.
LEMMA ChainLeast ==
    ASSUME NEW f \in [Keys -> Pointer], NEW p \in Pointer, NEW S \in SUBSET Keys,
           p \in S \union {NULL}, \A l \in S : f[l] \in S \union {NULL}
    PROVE  Reachable(f, p) \subseteq S
BY DEF Reachable

LEMMA ChainOfNull ==
    ASSUME NEW f \in [Keys -> Pointer]
    PROVE  Reachable(f, NULL) = {}
<1>1. {} \in SUBSET Keys /\ NULL \in Pointer /\ NULL \in {} \union {NULL} /\ \A l \in {} : FALSE
  BY DEF Pointer
<1>2. \A S \in SUBSET Keys : NULL \in S \union {NULL} /\ (\A l \in S : f[l] \in S \union {NULL}) =>
          Reachable(f, NULL) \subseteq S
  BY <1>1, ChainLeast
<1>. QED  BY <1>1, <1>2, Zenon

\* A chain is its head and the rest of it.
LEMMA ChainStep ==
    ASSUME NEW f \in [Keys -> Pointer], NEW p \in Keys
    PROVE  Reachable(f, p) = {p} \union Reachable(f, f[p])
<1>. DEFINE S == {p} \union Reachable(f, f[p])
<1>1. p \in Pointer /\ f[p] \in Pointer /\ p # NULL
  BY NullAssumption DEF Pointer
<1>2. S \in SUBSET Keys /\ p \in S /\ \A l \in S : f[l] \in S \union {NULL}
  BY <1>1, ChainClosed
<1>3. Reachable(f, p) \subseteq S
  <2>. HIDE DEF S
  <2>. QED  BY <1>1, <1>2, ChainLeast
<1>4. p \in Reachable(f, p) /\ f[p] \in Reachable(f, p) \union {NULL}
  BY <1>1, ChainClosed
<1>5. Reachable(f, f[p]) \subseteq Reachable(f, p)
  BY <1>1, <1>4, ChainClosed, ChainLeast
<1>. QED  BY <1>3, <1>4, <1>5

\* A chain contains the chains of its entries.
LEMMA ChainTransitive ==
    ASSUME NEW f \in [Keys -> Pointer], NEW p \in Pointer, NEW q \in Reachable(f, p)
    PROVE  Reachable(f, q) \subseteq Reachable(f, p)
<1>1. q \in Pointer /\ Reachable(f, p) \in SUBSET Keys
  BY ChainClosed DEF Pointer
<1>. QED  BY <1>1, ChainClosed, ChainLeast

LEMMA ChainRest ==
    ASSUME NEW f \in [Keys -> Pointer], NEW p \in Pointer, NEW k \in Reachable(f, p)
    PROVE  Reachable(f, f[k]) \subseteq Reachable(f, p)
<1>1. f[k] \in Reachable(f, p) \union {NULL}
  BY ChainClosed
<1>. QED  BY <1>1, ChainOfNull, ChainTransitive

\* What is written outside of a chain leaves it alone.
LEMMA ChainFrame ==
    ASSUME NEW f \in [Keys -> Pointer], NEW g \in [Keys -> Pointer], NEW p \in Pointer,
           \A k \in Reachable(f, p) : g[k] = f[k]
    PROVE  Reachable(g, p) = Reachable(f, p)
<1>1. Reachable(g, p) \subseteq Reachable(f, p)
  BY ChainClosed, ChainLeast
<1>2. \A l \in Reachable(g, p) : f[l] \in Reachable(g, p) \union {NULL}
  BY <1>1, ChainClosed
<1>3. Reachable(f, p) \subseteq Reachable(g, p)
  BY <1>2, ChainClosed, ChainLeast
<1>. QED  BY <1>1, <1>3

\* Of two entries of a chain one comes after the other.
LEMMA ChainLinear ==
    ASSUME NEW f \in [Keys -> Pointer], NEW p \in Pointer,
           NEW a \in Reachable(f, p), NEW b \in Reachable(f, p)
    PROVE  a \in Reachable(f, b) \/ b \in Reachable(f, a)
<1>. DEFINE C == Reachable(f, p)
            S == {c \in C : \A d \in C : c \in Reachable(f, d) \/ d \in Reachable(f, c)}
<1>1. C \subseteq Keys /\ p \in C
  BY ChainClosed, ChainOfNull
<1>2. p \in S
  BY <1>1
<1>3. ASSUME NEW c \in S, f[c] # NULL
      PROVE  f[c] \in S
  <2>1. f[c] \in C
    BY <1>3, ChainClosed
  <2>2. ASSUME NEW d \in C
        PROVE  f[c] \in Reachable(f, d) \/ d \in Reachable(f, f[c])
    <3>1. CASE c \in Reachable(f, d)
      BY <3>1, <1>1, <1>3, ChainClosed DEF Pointer
    <3>2. CASE d \in Reachable(f, c)
      <4>1. d = c \/ d \in Reachable(f, f[c])
        BY <3>2, <1>1, ChainStep
      <4>2. f[c] \in Reachable(f, c)
        BY <1>1, <1>3, ChainClosed DEF Pointer
      <4>. QED  BY <4>1, <4>2
    <3>. QED  BY <3>1, <3>2, <1>3
  <2>. QED  BY <2>1, <2>2
<1>4. C \subseteq S
  <2>. HIDE DEF S
  <2>1. S \in SUBSET Keys
    BY <1>1 DEF S
  <2>2. \A l \in S : f[l] \in S \union {NULL}
    BY <1>3
  <2>. QED  BY <1>2, <2>1, <2>2, ChainLeast
<1>. QED  BY <1>4

\* Each entry of a chain but its head comes after another.
LEMMA ChainBefore ==
    ASSUME NEW f \in [Keys -> Pointer], NEW p \in Pointer,
           NEW k \in Reachable(f, p), k # p
    PROVE  \E q \in Reachable(f, p) : f[q] = k
<1>. DEFINE C == Reachable(f, p)
            S == {l \in C : l = p \/ \E q \in C : f[q] = l}
<1>1. C \subseteq Keys /\ p \in C
  BY ChainClosed, ChainOfNull
<1>2. \A l \in S : f[l] \in S \union {NULL}
  BY ChainClosed
<1>3. p \in S /\ S \in SUBSET Keys
  BY <1>1
<1>4. C \subseteq S
  <2>. HIDE DEF S
  <2>. QED  BY <1>2, <1>3, ChainLeast
<1>. QED  BY <1>4

\* The chain from p does not run into itself.
Straight(f, p) == \A k \in Reachable(f, p) : k \notin Reachable(f, f[k])

\* In a straight chain an entry comes after one entry at most, and the head
\* after none.
LEMMA StraightBefore ==
    ASSUME NEW f \in [Keys -> Pointer], NEW p \in Pointer, Straight(f, p)
    PROVE  \A q \in Reachable(f, p) :
             /\ f[q] # p
             /\ \A r \in Reachable(f, p) : f[q] = f[r] /\ f[q] # NULL => q = r
<1>. TAKE q \in Reachable(f, p)
<1>1. Reachable(f, p) \subseteq Keys /\ p \in Reachable(f, p)
  BY ChainClosed, ChainOfNull
<1>2. f[q] # p
  BY <1>1 DEF Straight
<1>3. ASSUME NEW r \in Reachable(f, p), f[q] = f[r], f[q] # NULL
      PROVE  q = r
  <2>1. q \in Reachable(f, r) \/ r \in Reachable(f, q)
    BY ChainLinear
  <2>2. Reachable(f, r) = {r} \union Reachable(f, f[r]) /\ Reachable(f, q) = {q} \union Reachable(f, f[q])
    BY <1>1, ChainStep
  <2>. QED  BY <2>1, <2>2, <1>3 DEF Straight
<1>. QED  BY <1>2, <1>3

\* So the walk to the entry that q is before ends with q.
LEMMA StraightWalk ==
    ASSUME NEW f \in [Keys -> Pointer], NEW p \in Pointer, Straight(f, p),
           NEW q \in Reachable(f, p), f[q] # NULL
    PROVE  /\ f[q] # p /\ f[q] \in Reachable(f, p)
           /\ (CHOOSE r \in Reachable(f, p) : f[r] = f[q]) = q
<1>1. f[q] # p /\ f[q] \in Reachable(f, p)
  BY StraightBefore, ChainClosed
<1>2. \A r \in Reachable(f, p) : f[r] = f[q] => r = q
  BY StraightBefore
<1>. QED  BY <1>1, <1>2

\* Taking k, which comes after q, out of a straight chain: what follows an entry
\* loses k and nothing else, and the chain stays straight.
LEMMA ChainUnlink ==
    ASSUME NEW f \in [Keys -> Pointer], NEW p \in Pointer, Straight(f, p),
           NEW q \in Reachable(f, p), f[q] # NULL,
           NEW g, g = [f EXCEPT ![q] = f[f[q]]]
    PROVE  /\ g \in [Keys -> Pointer]
           /\ \A y \in Reachable(f, p) \ {f[q]} : Reachable(g, y) = Reachable(f, y) \ {f[q]}
           /\ Reachable(g, f[q]) = Reachable(f, f[q])
           /\ Straight(g, p)
<1>. DEFINE k == f[q]
            C == Reachable(f, p)
<1>1. C \subseteq Keys /\ p \in C /\ q \in Keys /\ k \in C /\ k \in Keys /\ f[k] \in Pointer
  BY ChainClosed, ChainOfNull DEF Pointer
<1>2. g \in [Keys -> Pointer] /\ g[q] = f[k] /\ \A l \in Keys \ {q} : g[l] = f[l]
  BY <1>1
<1>3. k # p /\ \A r \in C : f[r] = k => r = q
  BY <1>1, StraightBefore
<1>4. f[k] # k /\ q \notin Reachable(f, k) /\ k \notin Reachable(f, f[k])
  BY <1>1, ChainStep, ChainClosed, NullAssumption DEF Straight
<1>5. Reachable(g, k) = Reachable(f, k)
  <2>1. k \in Pointer /\ \A l \in Reachable(f, k) : g[l] = f[l]
    BY <1>1, <1>2, <1>4, ChainClosed DEF Pointer
  <2>. QED  BY <2>1, <1>2, ChainFrame
<1>6. ASSUME NEW y \in C, y # k
      PROVE  Reachable(g, y) = Reachable(f, y) \ {k}
  <2>. DEFINE D == Reachable(f, y)
              G == Reachable(g, y)
              S == {l \in D : l \in G \/ (l = k /\ q \in G)}
  <2>1. D \subseteq C /\ D \subseteq Keys /\ y \in Pointer /\ y \in Keys /\ y \in D /\ y \in G
    <3>1. y \in Keys /\ y \in Pointer /\ y # NULL
      BY <1>1, NullAssumption DEF Pointer
    <3>2. D \subseteq C
      BY ChainTransitive
    <3>3. D \subseteq Keys /\ y \in D
      BY <3>1, ChainClosed
    <3>4. y \in G
      BY <3>1, <1>2, ChainClosed
    <3>. QED  BY <3>1, <3>2, <3>3, <3>4
  <2>2. ASSUME NEW l \in D \ {k}
        PROVE  g[l] \in (D \ {k}) \union {NULL}
    <3>1. CASE l = q
      BY <3>1, <2>1, <1>1, <1>2, <1>4, ChainClosed
    <3>2. CASE l # q
      BY <3>2, <2>1, <1>2, <1>3, ChainClosed
    <3>. QED  BY <3>1, <3>2
  <2>3. G \subseteq D \ {k}
    <3>. DEFINE E == D \ {k}
    <3>1. E \in SUBSET Keys /\ y \in E /\ \A l \in E : g[l] \in E \union {NULL}
      BY <2>1, <2>2, <1>6
    <3>2. G \subseteq E
      <4>. HIDE DEF E
      <4>. QED  BY <3>1, <2>1, <1>2, ChainLeast
    <3>. QED  BY <3>2
  <2>4. ASSUME NEW l \in S, f[l] # NULL
        PROVE  f[l] \in S
    <3>1. f[l] \in D /\ l \in Keys
      BY <2>1, <2>4, ChainClosed
    <3>2. CASE l = q /\ l \in G
      BY <3>1, <3>2
    <3>3. CASE l # q /\ l \in G
      <4>1. g[l] = f[l] /\ g[l] \in G \union {NULL}
        BY <3>1, <3>3, <2>1, <1>2, ChainClosed
      <4>. QED  BY <4>1, <3>1, <2>4
    <3>4. CASE l = k /\ q \in G
      <4>1. f[l] \in G \union {NULL}
        BY <3>4, <2>1, <1>2, ChainClosed
      <4>. QED  BY <4>1, <3>1, <2>4
    <3>. QED  BY <3>2, <3>3, <3>4
  <2>5. D \subseteq S
    <3>1. y \in S /\ S \in SUBSET Keys
      BY <2>1
    <3>. HIDE DEF S
    <3>. QED  BY <3>1, <2>1, <2>4, ChainLeast
  <2>. QED  BY <2>3, <2>5
<1>7. \A y \in C : Reachable(g, y) \subseteq Reachable(f, y)
  BY <1>5, <1>6
<1>8. Straight(g, p)
  <2>1. Reachable(g, p) \subseteq C \ {k}
    BY <1>1, <1>3, <1>6
  <2>2. ASSUME NEW l \in Reachable(g, p), l \in Reachable(g, g[l])
        PROVE  FALSE
    <3>1. l \in C /\ l # k /\ l \in Keys /\ g[l] # NULL
      BY <2>1, <2>2, <1>1, <1>2, ChainOfNull
    <3>2. CASE l = q
      <4>1. f[k] \in C
        BY <3>1, <3>2, <1>1, <1>2, ChainClosed
      <4>2. l \in Reachable(f, f[k])
        BY <4>1, <2>2, <3>2, <1>2, <1>7
      <4>. QED  BY <4>2, <3>2, <1>1, <1>4, ChainStep
    <3>3. CASE l # q
      <4>1. g[l] = f[l] /\ f[l] \in C
        BY <3>1, <3>3, <1>2, ChainClosed
      <4>. QED  BY <4>1, <3>1, <2>2, <1>7 DEF Straight
    <3>. QED  BY <3>2, <3>3
  <2>. QED  BY <2>2 DEF Straight
<1>. QED  BY <1>2, <1>5, <1>6, <1>8

-----------------------------------------------------------------------------
(* The inductive invariant.                                                *)

OldSize == IF pc = "rehash" THEN Primes[primeindex - 1] ELSE Size
Linked == InTable(table) \union InTable(newtable)

\* The calls that hold an entry which no chain has yet.
Inserting == pc \in {"expand", "rehash", "alloc", "link"}

\* What a call knows of its arguments at each of its steps.
StagesInv ==
    /\ pc = "expand" => primeindex < Len(Primes)
    /\ pc = "rehash" => primeindex > 1
    /\ Inserting => key \in Keys \ Linked /\ arg \in Values
    /\ pc = "link" => next[key] = table[Index(Size, key)] /\ val[key] = arg
    /\ pc = "unlink" => key \in Keys /\ Search(key) /\ prev = Before(key)
    /\ pc = "free" => key \in Keys \ Linked
    /\ pc = "destroyed" => table = <<>>

\* No chain runs into itself.
StraightInv == \A k \in Linked : k \notin From(next[k])

BucketsInv ==
    /\ InBucket(table, OldSize)
    /\ InBucket(newtable, Size)
    /\ InTable(table) \cap InTable(newtable) = {}

\* The entries are those of the chains and the one in hand.
EntriesInv ==
    /\ pc \notin {"destroyed", "crashed"} => entries = Linked \union InHand
    /\ pc = "destroyed" => entries = {}

\* The count runs ahead of an insertion.
CountInv == pc \notin {"destroyed", "crashed"} =>
    entrycount = Cardinality(Linked) + IF Inserting THEN 1 ELSE 0

\* The entries an iterator that stands on i has not passed.
LaterBuckets(b) == UNION {Chain(table, c) : c \in b..(Size - 1)}
Ahead(i) == From(i.e) \union LaterBuckets(i.index + 1)

\* It has reached its own entry and none of the others ahead of it.
IteratorInv == pc = "iterate" =>
    /\ itr.e # NULL => /\ itr.index \in 0..(Size - 1) /\ itr.e \in Chain(table, itr.index)
                       /\ itr.parent = Before(itr.e)
    /\ itr.e = NULL => itr.index >= Size /\ itr.parent = NULL
    /\ owed = seen \union Ahead(itr)
    /\ seen \cap Ahead(itr) = {itr.e} \ {NULL}

HashInv == /\ TypeOK /\ StagesInv /\ StraightInv /\ BucketsInv /\ EntriesInv /\ CountInv
           /\ IteratorInv

-----------------------------------------------------------------------------
(* What the invariant says of a state.                                     *)

LEMMA SizesArePositive ==
    \A i \in 1..Len(Primes) : Primes[i] \in Nat \ {0}
BY PrimesAssumption

LEMMA TableTyped ==
    ASSUME HashInv
    PROVE  /\ Size \in Nat \ {0} /\ OldSize \in Nat \ {0}
           /\ pc # "destroyed" => DOMAIN table = 0..(OldSize - 1)
           /\ pc = "rehash" => DOMAIN newtable = 0..(Size - 1)
           /\ pc # "rehash" => DOMAIN newtable = {} /\ OldSize = Size
           /\ pc = "destroyed" => DOMAIN table = {}
           /\ \A b \in DOMAIN table : table[b] \in Pointer
           /\ \A b \in DOMAIN newtable : newtable[b] \in Pointer
<1>1. primeindex \in 1..Len(Primes) /\ (pc = "rehash" => primeindex - 1 \in 1..Len(Primes))
  BY PrimesAssumption DEF HashInv, TypeOK, StagesInv
<1>2. Size \in Nat \ {0} /\ OldSize \in Nat \ {0}
  BY <1>1, SizesArePositive DEF Size, OldSize
<1>3. DOMAIN <<>> = {}
  OBVIOUS
<1>4. pc # "destroyed" => table \in [0..(OldSize - 1) -> Pointer]
  BY DEF HashInv, TypeOK, OldSize
<1>5. newtable \in IF pc = "rehash" THEN [0..(Size - 1) -> Pointer] ELSE {<<>>}
  BY DEF HashInv, TypeOK
<1>6. pc = "destroyed" => table = <<>>
  BY DEF HashInv, StagesInv
<1>7. pc # "rehash" => OldSize = Size
  BY DEF OldSize
<1>. QED  BY <1>2, <1>3, <1>4, <1>5, <1>6, <1>7

LEMMA IndexTyped ==
    ASSUME hashOf \in [Keys -> HashValues], NEW size \in Nat \ {0}, NEW k \in Keys
    PROVE  Index(size, k) \in 0..(size - 1)
<1>1. hashOf[k] \in Nat
  BY HashAssumption
<1>2. \A n \in Nat : n % size \in 0..(size - 1)
  OBVIOUS
<1>. QED  BY <1>1, <1>2 DEF Index

\* The chains of both tables are made of keys, closed and straight.
LEMMA ChainsTyped ==
    ASSUME HashInv
    PROVE  /\ next \in [Keys -> Pointer]
           /\ Linked \subseteq Keys
           /\ \A b \in DOMAIN table :
                Chain(table, b) \subseteq Linked /\ Straight(next, table[b])
           /\ \A b \in DOMAIN newtable :
                Chain(newtable, b) \subseteq Linked /\ Straight(next, newtable[b])
           /\ \A k \in Linked : next[k] \in Linked \union {NULL} /\ From(next[k]) \subseteq Linked
<1>1. next \in [Keys -> Pointer]
  BY DEF HashInv, TypeOK
<1>2. \A b \in DOMAIN table : Chain(table, b) \subseteq Linked
  BY DEF Linked, InTable
<1>3. \A b \in DOMAIN newtable : Chain(newtable, b) \subseteq Linked
  BY DEF Linked, InTable
<1>4. ASSUME NEW p \in Pointer, From(p) \subseteq Linked
      PROVE  /\ From(p) \subseteq Keys /\ Straight(next, p)
             /\ \A k \in From(p) : next[k] \in Linked \union {NULL} /\ From(next[k]) \subseteq Linked
  <2>1. From(p) \subseteq Keys /\ \A k \in From(p) : next[k] \in From(p) \union {NULL}
    BY <1>1, ChainClosed DEF From
  <2>2. Straight(next, p)
    BY <1>4 DEF Straight, From, HashInv, StraightInv
  <2>3. \A k \in From(p) : From(next[k]) \subseteq From(p)
    BY <2>1, <1>1, ChainOfNull, ChainTransitive DEF From
  <2>. QED  BY <2>1, <2>2, <2>3, <1>4
<1>5. \A b \in DOMAIN table : table[b] \in Pointer /\ From(table[b]) \subseteq Linked
  BY <1>2, TableTyped DEF Chain
<1>6. \A b \in DOMAIN newtable : newtable[b] \in Pointer /\ From(newtable[b]) \subseteq Linked
  BY <1>3, TableTyped DEF Chain
<1>7. \A k \in Linked : \/ \E b \in DOMAIN table : k \in From(table[b])
                        \/ \E b \in DOMAIN newtable : k \in From(newtable[b])
  BY DEF Linked, InTable, Chain
<1>8. \A k \in Linked : k \in Keys /\ next[k] \in Linked \union {NULL} /\ From(next[k]) \subseteq Linked
  BY <1>4, <1>5, <1>6, <1>7
<1>. QED  BY <1>1, <1>2, <1>3, <1>4, <1>5, <1>6, <1>8

\* A step that writes no entry of a chain, and no bucket, leaves the chains, and
\* what the invariant says of them, as they were.
LEMMA SameChains ==
    ASSUME HashInv, next' \in [Keys -> Pointer], \A k \in Linked : next'[k] = next[k]
    PROVE  /\ \A b \in DOMAIN table : Reachable(next', table[b]) = Chain(table, b)
           /\ \A b \in DOMAIN newtable : Reachable(next', newtable[b]) = Chain(newtable, b)
           /\ \A k \in Linked : Reachable(next', next[k]) = From(next[k])
<1>1. ASSUME NEW p \in Pointer, From(p) \subseteq Linked
      PROVE  Reachable(next', p) = From(p)
  <2>1. \A k \in Reachable(next, p) : next'[k] = next[k]
    BY <1>1 DEF From
  <2>. QED  BY <2>1, ChainsTyped, ChainFrame DEF From
<1>2. \A b \in DOMAIN table : table[b] \in Pointer /\ From(table[b]) \subseteq Linked
  BY TableTyped, ChainsTyped DEF Chain
<1>3. \A b \in DOMAIN newtable : newtable[b] \in Pointer /\ From(newtable[b]) \subseteq Linked
  BY TableTyped, ChainsTyped DEF Chain
<1>4. \A k \in Linked : next[k] \in Pointer /\ From(next[k]) \subseteq Linked
  BY ChainsTyped
<1>. QED  BY <1>1, <1>2, <1>3, <1>4 DEF Chain

LEMMA SameStructure ==
    ASSUME HashInv, next' \in [Keys -> Pointer], \A k \in Linked : next'[k] = next[k],
           UNCHANGED <<hashOf, buckets, newtable>>, pc = "rehash" <=> pc' = "rehash"
    PROVE  /\ Linked' = Linked /\ InTable(table)' = InTable(table) /\ Size' = Size
           /\ \A b \in DOMAIN table : Chain(table, b)' = Chain(table, b)
           /\ StraightInv' /\ BucketsInv'
<1>1. table' = table /\ newtable' = newtable /\ primeindex' = primeindex /\ hashOf' = hashOf
  BY DEF buckets
<1>2. Size' = Size /\ OldSize' = OldSize
  BY <1>1 DEF Size, OldSize
<1>3. \A b \in DOMAIN table : Chain(table, b)' = Chain(table, b)
  BY <1>1, SameChains DEF Chain, From
<1>4. \A b \in DOMAIN newtable : Chain(newtable, b)' = Chain(newtable, b)
  BY <1>1, SameChains DEF Chain, From
<1>5. InTable(table)' = InTable(table) /\ InTable(newtable)' = InTable(newtable)
  BY <1>1, <1>3, <1>4 DEF InTable
<1>6. Linked' = Linked
  BY <1>5 DEF Linked
<1>7. StraightInv'
  <2>1. \A k \in Linked : From(next[k])' = From(next[k])
    BY SameChains DEF From
  <2>. QED  BY <2>1, <1>6 DEF StraightInv, HashInv
<1>8. BucketsInv'
  BY <1>1, <1>2, <1>3, <1>4, <1>5 DEF BucketsInv, HashInv, InBucket, Index
<1>. QED  BY <1>2, <1>3, <1>5, <1>6, <1>7, <1>8

\* A search finds a key if a chain has it.
LEMMA SearchFinds ==
    ASSUME HashInv, pc \notin {"rehash", "destroyed"}
    PROVE  /\ InTable(newtable) = {} /\ Linked = InTable(table)
           /\ \A k \in Keys : /\ Search(k) <=> k \in Linked
                              /\ Index(Size, k) \in 0..(Size - 1)
                              /\ Index(Size, k) \in DOMAIN table
<1>1. InTable(newtable) = {}
  BY TableTyped DEF InTable
<1>2. Linked = InTable(table)
  BY <1>1 DEF Linked
<1>3. ASSUME NEW k \in Keys
      PROVE  /\ Search(k) <=> k \in Linked
             /\ Index(Size, k) \in 0..(Size - 1)
             /\ Index(Size, k) \in DOMAIN table
  <2>1. Index(Size, k) \in 0..(Size - 1)
    BY TableTyped, IndexTyped DEF HashInv, TypeOK
  <2>2. OldSize = Size /\ DOMAIN table = 0..(Size - 1)
    BY TableTyped
  <2>3. \A b \in DOMAIN table : k \in Chain(table, b) => Index(Size, k) = b
    BY <2>2 DEF HashInv, BucketsInv, InBucket
  <2>. QED  BY <2>1, <2>2, <2>3, <1>2 DEF Search, InTable
<1>. QED  BY <1>1, <1>2, <1>3

\* Before(k) is the entry that k follows in its chain, and NULL for its head.
LEMMA BeforeTyped ==
    ASSUME HashInv, pc \notin {"rehash", "destroyed"}, NEW k \in Linked
    PROVE  LET b == Index(Size, k)
           IN  /\ b \in DOMAIN table /\ k \in Chain(table, b)
               /\ Before(k) = NULL => table[b] = k
               /\ Before(k) # NULL => /\ Before(k) \in Chain(table, b) /\ Before(k) \in Linked
                                      /\ next[Before(k)] = k /\ table[b] # k
<1>. DEFINE b == Index(Size, k)
<1>1. b \in DOMAIN table /\ k \in Chain(table, b) /\ Chain(table, b) \subseteq Linked
  BY SearchFinds, ChainsTyped DEF Search
<1>2. table[b] \in Pointer /\ next \in [Keys -> Pointer]
  BY <1>1, TableTyped, ChainsTyped
<1>3. table[b] # k => \E p \in Chain(table, b) : next[p] = k
  BY <1>1, <1>2, ChainBefore DEF Chain, From
<1>4. CASE table[b] = k
  BY <1>4, <1>1 DEF Before
<1>5. CASE table[b] # k
  <2>1. Before(k) \in Chain(table, b) /\ next[Before(k)] = k
    BY <1>3, <1>5 DEF Before
  <2>2. Before(k) # NULL
    BY <2>1, <1>1, ChainsTyped, NullAssumption
  <2>. QED  BY <2>1, <2>2, <1>1, <1>5
<1>. QED  BY <1>4, <1>5

LEMMA CountTyped ==
    ASSUME HashInv
    PROVE  /\ IsFiniteSet(Linked) /\ Cardinality(Linked) \in Nat /\ Cardinality(Keys) \in Nat
           /\ Cardinality(Linked) <= Cardinality(Keys)
           /\ \A k \in Keys \ Linked :
                /\ Cardinality(Linked) + 1 <= Cardinality(Keys)
                /\ Cardinality(Linked \union {k}) = Cardinality(Linked) + 1
           /\ \A k \in Linked : /\ Cardinality(Linked) > 0
                                /\ Cardinality(Linked \ {k}) = Cardinality(Linked) - 1
<1>1. Linked \subseteq Keys /\ IsFiniteSet(Linked) /\ Cardinality(Linked) <= Cardinality(Keys)
  BY KeysAssumption, ChainsTyped, FS_Subset
<1>2. Cardinality(Linked) \in Nat /\ Cardinality(Keys) \in Nat
  BY <1>1, KeysAssumption, FS_CardinalityType
<1>3. ASSUME NEW k \in Keys \ Linked
      PROVE  /\ Cardinality(Linked) + 1 <= Cardinality(Keys)
             /\ Cardinality(Linked \union {k}) = Cardinality(Linked) + 1
  <2>1. Cardinality(Linked \union {k}) = Cardinality(Linked) + 1
    BY <1>1, FS_AddElement
  <2>2. Linked \union {k} \subseteq Keys
    BY <1>1
  <2>. QED  BY <2>1, <2>2, KeysAssumption, FS_Subset
<1>4. ASSUME NEW k \in Linked
      PROVE  /\ Cardinality(Linked) > 0
             /\ Cardinality(Linked \ {k}) = Cardinality(Linked) - 1
  <2>1. Cardinality(Linked \ {k}) = Cardinality(Linked) - 1
    BY <1>1, FS_RemoveElement
  <2>2. Cardinality(Linked) # 0
    BY <1>1, FS_EmptySet
  <2>. QED  BY <2>1, <2>2, <1>2
<1>. QED  BY <1>1, <1>2, <1>3, <1>4

-----------------------------------------------------------------------------
(* hashtable_insert and hashtable_expand preserve it.                      *)

LEMMA InsertPreserves ==
    ASSUME HashInv, NEW k \in Keys, NEW v \in Values, Insert(k, v)
    PROVE  HashInv' /\ Linked' = Linked
<1>1. pc = "idle" /\ pc' \in {"expand", "alloc"} /\ Inserting' /\ ~Inserting
  BY DEF Insert, Inserting
<1>2. UNCHANGED <<hashOf, buckets, fields, newtable, prev, iterator>>
  BY DEF Insert
<1>3. /\ Linked' = Linked /\ Size' = Size /\ StraightInv' /\ BucketsInv'
  BY <1>1, <1>2, SameStructure, ChainsTyped DEF fields
<1>4. k \in Keys \ Linked
  BY <1>1, SearchFinds DEF Insert
<1>5. entrycount = Cardinality(Linked) /\ entrycount' = entrycount + 1
  BY <1>1, CountTyped DEF Insert, HashInv, CountInv
<1>6. TypeOK'
  <2>1. entrycount' \in 0..Cardinality(Keys)
    <3>1. Cardinality(Linked) + 1 <= Cardinality(Keys)
      BY <1>4, CountTyped
    <3>2. Cardinality(Linked) \in Nat /\ Cardinality(Keys) \in Nat
      BY CountTyped
    <3>. QED  BY <3>1, <3>2, <1>5
  <2>. QED  BY <2>1, <1>1, <1>2, <1>3
            DEF TypeOK, HashInv, Insert, fields, buckets, iterator, Pointer
<1>7. StagesInv'
  BY <1>1, <1>2, <1>3, <1>4 DEF StagesInv, Insert, buckets
<1>8. EntriesInv'
  BY <1>1, <1>2, <1>3 DEF EntriesInv, HashInv, InHand, fields
<1>9. CountInv'
  BY <1>1, <1>3, <1>5 DEF CountInv
<1>10. IteratorInv'
  BY <1>1 DEF IteratorInv
<1>. QED  BY <1>3, <1>6, <1>7, <1>8, <1>9, <1>10 DEF HashInv

LEMMA ExpandAllocPreserves ==
    ASSUME HashInv, ExpandAlloc
    PROVE  HashInv' /\ Linked' = Linked
<1>1. pc = "expand" /\ pc' = "rehash" /\ Inserting' /\ Inserting
  BY DEF ExpandAlloc, Inserting
<1>2. UNCHANGED <<hashOf, table, entrycount, fields, call, iterator>>
  BY DEF ExpandAlloc
<1>3. /\ primeindex \in 1..Len(Primes) /\ primeindex' = primeindex + 1
      /\ primeindex' \in 1..Len(Primes) /\ primeindex' > 1
  BY <1>1, PrimesAssumption DEF ExpandAlloc, HashInv, TypeOK, StagesInv
<1>4. Size' \in Nat \ {0} /\ OldSize' = Size /\ OldSize = Size
  BY <1>1, <1>3, SizesArePositive DEF Size, OldSize
<1>5. newtable' = [b \in 0..(Size' - 1) |-> NULL]
  BY <1>3 DEF ExpandAlloc, Empty, Size
<1>6. \A b \in DOMAIN newtable' : Chain(newtable, b)' = {}
  BY <1>2, <1>5, ChainsTyped, ChainOfNull DEF Chain, From, fields
<1>7. /\ InTable(newtable)' = {} /\ InTable(newtable) = {}
      /\ InTable(table)' = InTable(table) /\ Linked' = Linked
  <2>1. InTable(newtable)' = {}
    BY <1>6 DEF InTable
  <2>2. InTable(newtable) = {}
    BY <1>1, SearchFinds
  <2>3. InTable(table)' = InTable(table)
    BY <1>2 DEF InTable, Chain, From, fields
  <2>. QED  BY <2>1, <2>2, <2>3 DEF Linked
<1>8. TypeOK'
  <2>1. newtable' \in [0..(Size' - 1) -> Pointer]
    BY <1>5 DEF Pointer
  <2>2. pc' # "destroyed" => table' \in [0..(IF pc' = "rehash" THEN Primes[primeindex' - 1] ELSE Size') - 1 -> Pointer]
    BY <1>1, <1>2, <1>3 DEF HashInv, TypeOK, Size
  <2>. QED  BY <2>1, <2>2, <1>1, <1>2, <1>3 DEF HashInv, TypeOK, fields, call, iterator
<1>9. StagesInv'
  BY <1>1, <1>2, <1>3, <1>7 DEF HashInv, StagesInv, call
<1>10. StraightInv'
  BY <1>2, <1>7 DEF HashInv, StraightInv, From, fields
<1>11. BucketsInv'
  <2>1. InBucket(table, OldSize)'
    BY <1>2, <1>4 DEF HashInv, BucketsInv, InBucket, Index, Chain, From, fields
  <2>2. InBucket(newtable, Size)'
    BY <1>6 DEF InBucket
  <2>. QED  BY <2>1, <2>2, <1>7 DEF BucketsInv
<1>12. EntriesInv'
  BY <1>1, <1>2, <1>7 DEF HashInv, EntriesInv, InHand, fields
<1>13. CountInv'
  BY <1>1, <1>2, <1>7 DEF HashInv, CountInv
<1>14. IteratorInv'
  BY <1>1 DEF IteratorInv
<1>. QED  BY <1>7, <1>8, <1>9, <1>10, <1>11, <1>12, <1>13, <1>14 DEF HashInv

LEMMA ExpandFailsPreserves ==
    ASSUME HashInv, ExpandFails \/ ExpandRealloc
    PROVE  HashInv' /\ Linked' = Linked
<1>1. pc = "expand" /\ pc' \in {"alloc", "crashed"} /\ Inserting /\ (pc' = "alloc" => Inserting')
  BY DEF ExpandFails, ExpandRealloc, Inserting
<1>2. UNCHANGED <<hashOf, buckets, entrycount, fields, newtable, call, iterator>>
  BY DEF ExpandFails, ExpandRealloc
<1>3. /\ Linked' = Linked /\ Size' = Size /\ StraightInv' /\ BucketsInv'
  BY <1>1, <1>2, SameStructure, ChainsTyped DEF fields
<1>4. TypeOK'
  BY <1>1, <1>2, <1>3 DEF HashInv, TypeOK, fields, buckets, call, iterator
<1>5. StagesInv'
  BY <1>1, <1>2, <1>3 DEF HashInv, StagesInv, Inserting, call
<1>6. EntriesInv'
  BY <1>1, <1>2, <1>3 DEF HashInv, EntriesInv, InHand, fields
<1>7. CountInv'
  BY <1>1, <1>2, <1>3 DEF HashInv, CountInv
<1>8. IteratorInv'
  BY <1>1 DEF IteratorInv
<1>. QED  BY <1>3, <1>4, <1>5, <1>6, <1>7, <1>8 DEF HashInv

LEMMA RehashDonePreserves ==
    ASSUME HashInv, RehashDone
    PROVE  HashInv' /\ Linked' = Linked
<1>1. pc = "rehash" /\ pc' = "alloc" /\ Inserting' /\ Inserting
  BY DEF RehashDone, Inserting
<1>2. UNCHANGED <<hashOf, primeindex, entrycount, fields, call, iterator>>
  BY DEF RehashDone
<1>3. table' = newtable /\ newtable' = <<>>
  BY DEF RehashDone
<1>4. Size' = Size /\ OldSize' = Size
  BY <1>1, <1>2 DEF Size, OldSize
<1>5. \A b \in DOMAIN table : Chain(table, b) = {}
  BY ChainsTyped, ChainOfNull DEF RehashDone, Chain, From
<1>6. /\ InTable(table) = {} /\ InTable(newtable)' = {}
      /\ InTable(table)' = InTable(newtable) /\ Linked' = Linked
  <2>1. InTable(table) = {}
    BY <1>5 DEF InTable
  <2>2. DOMAIN newtable' = {}
    BY <1>3
  <2>3. InTable(newtable)' = {}
    BY <2>2 DEF InTable
  <2>4. InTable(table)' = InTable(newtable)
    BY <1>2, <1>3 DEF InTable, Chain, From, fields
  <2>. QED  BY <2>1, <2>3, <2>4 DEF Linked
<1>7. TypeOK'
  <2>1. table' \in [0..(Size' - 1) -> Pointer]
    BY <1>1, <1>3, <1>4 DEF HashInv, TypeOK
  <2>. QED  BY <2>1, <1>1, <1>2, <1>3 DEF HashInv, TypeOK, fields, call, iterator
<1>8. StagesInv'
  BY <1>1, <1>2, <1>6 DEF HashInv, StagesInv, call
<1>9. StraightInv'
  BY <1>2, <1>6 DEF HashInv, StraightInv, From, fields
<1>10. BucketsInv'
  <2>1. InBucket(table, OldSize)'
    BY <1>2, <1>3, <1>4 DEF HashInv, BucketsInv, InBucket, Index, Chain, From, fields
  <2>2. DOMAIN newtable' = {}
    BY <1>3
  <2>3. InBucket(newtable, Size)'
    BY <2>2 DEF InBucket
  <2>. QED  BY <2>1, <2>3, <1>6 DEF BucketsInv
<1>11. EntriesInv'
  BY <1>1, <1>2, <1>6 DEF HashInv, EntriesInv, InHand, fields
<1>12. CountInv'
  BY <1>1, <1>2, <1>6 DEF HashInv, CountInv
<1>13. IteratorInv'
  BY <1>1 DEF IteratorInv
<1>. QED  BY <1>6, <1>7, <1>8, <1>9, <1>10, <1>11, <1>12, <1>13 DEF HashInv

\* hashtable_expand moves the head of a bucket: of the two tables one loses it and
\* the other gets it, and every other chain keeps its entries.
LEMMA RehashMoves ==
    ASSUME HashInv, pc = "rehash", NEW b \in DOMAIN table, table[b] # NULL,
           next' = [next EXCEPT ![table[b]] = newtable[Index(Size, table[b])]]
    PROVE  LET e     == table[b]
               index == Index(Size, e)
           IN  /\ e \in Chain(table, b) /\ e \in Linked /\ e \in Keys
               /\ index \in DOMAIN newtable /\ newtable[index] \in Pointer
               /\ next' \in [Keys -> Pointer]
               /\ \A c \in DOMAIN table \ {b} : /\ e \notin Chain(table, c)
                                                /\ Reachable(next', table[c]) = Chain(table, c)
               /\ \A c \in DOMAIN newtable : /\ e \notin Chain(newtable, c)
                                             /\ Reachable(next', newtable[c]) = Chain(newtable, c)
               /\ next[e] \in Pointer
               /\ Reachable(next', next[e]) = Chain(table, b) \ {e}
               /\ Reachable(next', e) = {e} \union Chain(newtable, index)
               /\ \A k \in Linked \ {e} : Reachable(next', next[k]) = From(next[k])
<1>. DEFINE e     == table[b]
            index == Index(Size, e)
<1>1. next \in [Keys -> Pointer] /\ e \in Pointer /\ e \in Keys
  BY TableTyped, ChainsTyped DEF Pointer
<1>2. e \in Chain(table, b) /\ e \in Linked
  BY <1>1, ChainClosed, ChainsTyped DEF Chain, From
<1>3. index \in DOMAIN newtable /\ newtable[index] \in Pointer
  BY <1>1, TableTyped, IndexTyped DEF HashInv, TypeOK
<1>4. next' \in [Keys -> Pointer] /\ next'[e] = newtable[index] /\ next[e] \in Pointer
      /\ \A k \in Keys \ {e} : next'[k] = next[k]
  BY <1>1, <1>3
<1>5. ASSUME NEW p \in Pointer, e \notin From(p)
      PROVE  Reachable(next', p) = From(p)
  <2>1. \A k \in Reachable(next, p) : next'[k] = next[k]
    BY <1>1, <1>4, <1>5, ChainClosed DEF From
  <2>2. PICK g \in [Keys -> Pointer] : g = next'
    BY <1>4
  <2>3. \A k \in Reachable(next, p) : g[k] = next[k]
    BY <2>1, <2>2, Zenon
  <2>4. Reachable(g, p) = Reachable(next, p)
    BY <2>3, <1>1, ChainFrame, ZenonT(30)
  <2>. QED  BY <2>2, <2>4 DEF From
<1>6. \A c \in DOMAIN table \ {b} : e \notin Chain(table, c)
  BY <1>2 DEF HashInv, BucketsInv, InBucket
<1>7. \A c \in DOMAIN newtable : e \notin Chain(newtable, c)
  BY <1>2 DEF HashInv, BucketsInv, InTable
<1>8. e \notin From(next[e])
  BY <1>2 DEF HashInv, StraightInv
<1>9. Chain(table, b) = {e} \union From(next[e])
  BY <1>1, ChainStep DEF Chain, From
<1>10. Reachable(next', e) = {e} \union Reachable(next', newtable[index])
  BY <1>1, <1>4, ChainStep
<1>11. \A c \in DOMAIN table \ {b} : Reachable(next', table[c]) = Chain(table, c)
  BY <1>5, <1>6, TableTyped DEF Chain
<1>12. \A c \in DOMAIN newtable : Reachable(next', newtable[c]) = Chain(newtable, c)
  BY <1>5, <1>7, TableTyped DEF Chain
<1>13. Reachable(next', next[e]) = Chain(table, b) \ {e}
  BY <1>4, <1>5, <1>8, <1>9
<1>14. ASSUME NEW k \in Linked \ {e}
       PROVE  Reachable(next', next[k]) = From(next[k])
  <2>1. CASE k \in Chain(table, b)
    <3>1. k \in From(next[e])
      BY <2>1, <1>9
    <3>2. From(next[k]) \subseteq From(next[e])
      BY <3>1, <1>1, <1>4, ChainRest DEF From
    <3>. QED  BY <3>2, <1>1, <1>5, <1>8, ChainsTyped
  <2>2. ASSUME NEW p \in Pointer, e \notin From(p), k \in From(p)
        PROVE  Reachable(next', next[k]) = From(next[k])
    <3>1. From(next[k]) \subseteq From(p)
      BY <2>2, <1>1, ChainRest DEF From
    <3>. QED  BY <3>1, <2>2, <1>1, <1>5, ChainsTyped
  <2>3. CASE \E c \in DOMAIN table \ {b} : k \in Chain(table, c)
    BY <2>2, <2>3, <1>6, TableTyped DEF Chain
  <2>4. CASE \E c \in DOMAIN newtable : k \in Chain(newtable, c)
    BY <2>2, <2>4, <1>7, TableTyped DEF Chain
  <2>. QED  BY <2>1, <2>3, <2>4 DEF Linked, InTable
<1>. QED  BY <1>1, <1>2, <1>3, <1>4, <1>6, <1>7, <1>10, <1>11, <1>12, <1>13, <1>14

LEMMA RehashPreserves ==
    ASSUME HashInv, Rehash
    PROVE  HashInv' /\ Linked' = Linked
<1>1. pc = "rehash" /\ pc' = "rehash" /\ Inserting' /\ Inserting
  BY DEF Rehash, Inserting
<1>2. UNCHANGED <<hashOf, primeindex, entrycount, entries, val, call, iterator>>
  BY DEF Rehash
<1>3. PICK b, e, index :
        /\ b \in DOMAIN table /\ e = table[b] /\ e # NULL /\ index = Index(Size, e)
        /\ table' = [table EXCEPT ![b] = next[e]]
        /\ next' = [next EXCEPT ![e] = newtable[index]]
        /\ newtable' = [newtable EXCEPT ![index] = e]
  BY DEF Rehash
<1>4. /\ e \in Chain(table, b) /\ e \in Linked /\ e \in Keys
      /\ index \in DOMAIN newtable /\ newtable[index] \in Pointer
      /\ next' \in [Keys -> Pointer] /\ next[e] \in Pointer
      /\ \A c \in DOMAIN table \ {b} : /\ e \notin Chain(table, c)
                                       /\ Reachable(next', table[c]) = Chain(table, c)
      /\ \A c \in DOMAIN newtable : /\ e \notin Chain(newtable, c)
                                    /\ Reachable(next', newtable[c]) = Chain(newtable, c)
      /\ Reachable(next', next[e]) = Chain(table, b) \ {e}
      /\ Reachable(next', e) = {e} \union Chain(newtable, index)
      /\ \A k \in Linked \ {e} : Reachable(next', next[k]) = From(next[k])
  <2>1. next' = [next EXCEPT ![table[b]] = newtable[Index(Size, table[b])]]
    BY <1>3
  <2>. QED  BY <2>1, <1>1, <1>3, RehashMoves
<1>5. /\ DOMAIN table' = DOMAIN table /\ table'[b] = next[e]
      /\ \A c \in DOMAIN table \ {b} : table'[c] = table[c]
      /\ DOMAIN newtable' = DOMAIN newtable /\ newtable'[index] = e
      /\ \A c \in DOMAIN newtable \ {index} : newtable'[c] = newtable[c]
  BY <1>3, <1>4, <1>1 DEF HashInv, TypeOK
<1>6. \A c \in DOMAIN table : Chain(table, c)' = Chain(table, c) \ {e}
  BY <1>4, <1>5 DEF Chain, From
<1>7. /\ Chain(newtable, index)' = Chain(newtable, index) \union {e}
      /\ \A c \in DOMAIN newtable \ {index} : Chain(newtable, c)' = Chain(newtable, c)
  BY <1>4, <1>5 DEF Chain, From
<1>8. /\ InTable(table)' = InTable(table) \ {e}
      /\ InTable(newtable)' = InTable(newtable) \union {e}
      /\ Linked' = Linked
  <2>1. InTable(table)' = InTable(table) \ {e}
    BY <1>5, <1>6 DEF InTable
  <2>2. InTable(newtable)' = InTable(newtable) \union {e}
    BY <1>4, <1>5, <1>7 DEF InTable
  <2>. QED  BY <2>1, <2>2, <1>4 DEF Linked
<1>9. Size' = Size /\ OldSize' = OldSize
  BY <1>1, <1>2 DEF Size, OldSize
<1>10. TypeOK'
  <2>1. table' \in [0..(Primes[primeindex - 1] - 1) -> Pointer]
    BY <1>1, <1>3, <1>4 DEF HashInv, TypeOK
  <2>2. newtable' \in [0..(Size - 1) -> Pointer]
    BY <1>1, <1>3, <1>4 DEF HashInv, TypeOK, Pointer
  <2>. QED  BY <2>1, <2>2, <1>1, <1>2, <1>4, <1>9 DEF HashInv, TypeOK, call, iterator
<1>11. StagesInv'
  BY <1>1, <1>2, <1>8 DEF HashInv, StagesInv, call
<1>12. StraightInv'
  <2>1. From(next[e])' = Chain(newtable, index)
    BY <1>3, <1>4, ChainsTyped DEF From
  <2>2. \A k \in Linked \ {e} : From(next[k])' = From(next[k])
    BY <1>3, <1>4, ChainsTyped DEF From
  <2>. QED  BY <2>1, <2>2, <1>4, <1>8 DEF HashInv, StraightInv
<1>13. BucketsInv'
  <2>1. InBucket(table, OldSize)'
    BY <1>2, <1>5, <1>6, <1>9 DEF HashInv, BucketsInv, InBucket, Index
  <2>2. InBucket(newtable, Size)'
    <3>1. \A c \in DOMAIN newtable : \A k \in Chain(newtable, c)' :
            k \in Chain(newtable, c) \/ (k = e /\ c = index)
      BY <1>7
    <3>2. \A c \in DOMAIN newtable : \A k \in Chain(newtable, c)' : Index(Size, k) = c
      BY <3>1, <1>3 DEF HashInv, BucketsInv, InBucket
    <3>. QED  BY <3>2, <1>2, <1>5, <1>9 DEF InBucket, Index
  <2>. QED  BY <2>1, <2>2, <1>8 DEF HashInv, BucketsInv
<1>14. EntriesInv'
  BY <1>1, <1>2, <1>8 DEF HashInv, EntriesInv, InHand, fields
<1>15. CountInv'
  BY <1>1, <1>2, <1>8 DEF HashInv, CountInv
<1>16. IteratorInv'
  BY <1>1 DEF IteratorInv
<1>. QED  BY <1>8, <1>10, <1>11, <1>12, <1>13, <1>14, <1>15, <1>16 DEF HashInv

LEMMA AllocPreserves ==
    ASSUME HashInv, Alloc
    PROVE  HashInv' /\ Linked' = Linked
<1>1. pc = "alloc" /\ pc' = "link" /\ Inserting' /\ Inserting
  BY DEF Alloc, Inserting
<1>2. UNCHANGED <<hashOf, buckets, entrycount, newtable, call, iterator>>
  BY DEF Alloc
<1>3. /\ key \in Keys \ Linked /\ arg \in Values
      /\ Index(Size, key) \in DOMAIN table /\ table[Index(Size, key)] \in Pointer
  BY <1>1, SearchFinds, TableTyped DEF HashInv, StagesInv
<1>4. /\ next' \in [Keys -> Pointer] /\ next'[key] = table[Index(Size, key)]
      /\ \A k \in Linked : next'[k] = next[k]
  BY <1>3, ChainsTyped DEF Alloc
<1>5. val' \in [Keys -> Values \union {NULL}] /\ val'[key] = arg
  BY <1>3 DEF Alloc, HashInv, TypeOK
<1>6. /\ Linked' = Linked /\ Size' = Size /\ StraightInv' /\ BucketsInv'
  BY <1>1, <1>2, <1>4, SameStructure
<1>7. TypeOK'
  BY <1>1, <1>2, <1>3, <1>4, <1>5, <1>6 DEF Alloc, HashInv, TypeOK, buckets, call, iterator
<1>8. StagesInv'
  BY <1>1, <1>2, <1>3, <1>4, <1>5, <1>6 DEF StagesInv, Index, buckets, call
<1>9. EntriesInv'
  BY <1>1, <1>2, <1>6 DEF Alloc, HashInv, EntriesInv, InHand, call
<1>10. CountInv'
  BY <1>1, <1>2, <1>6 DEF HashInv, CountInv
<1>11. IteratorInv'
  BY <1>1 DEF IteratorInv
<1>. QED  BY <1>6, <1>7, <1>8, <1>9, <1>10, <1>11 DEF HashInv

LEMMA AllocFailsPreserves ==
    ASSUME HashInv, AllocFails
    PROVE  HashInv' /\ Linked' = Linked
<1>1. pc = "alloc" /\ pc' = "idle" /\ Inserting /\ ~Inserting'
  BY DEF AllocFails, Return, Inserting
<1>2. UNCHANGED <<hashOf, buckets, fields, newtable, iterator>>
  BY DEF AllocFails
<1>3. /\ Linked' = Linked /\ Size' = Size /\ StraightInv' /\ BucketsInv'
  BY <1>1, <1>2, SameStructure, ChainsTyped DEF fields
<1>4. entrycount = Cardinality(Linked) + 1 /\ entrycount' = Cardinality(Linked)
  BY <1>1, CountTyped DEF AllocFails, HashInv, CountInv
<1>5. TypeOK'
  <2>1. entrycount' \in 0..Cardinality(Keys)
    BY <1>4, CountTyped
  <2>. QED  BY <2>1, <1>1, <1>2, <1>3
            DEF AllocFails, Return, HashInv, TypeOK, Pointer, fields, buckets, iterator
<1>6. StagesInv'
  BY <1>1 DEF StagesInv
<1>7. EntriesInv'
  BY <1>1, <1>2, <1>3 DEF HashInv, EntriesInv, InHand, fields
<1>8. CountInv'
  BY <1>1, <1>3, <1>4, CountTyped DEF CountInv
<1>9. IteratorInv'
  BY <1>1 DEF IteratorInv
<1>. QED  BY <1>3, <1>5, <1>6, <1>7, <1>8, <1>9 DEF HashInv

LEMMA LinkPreserves ==
    ASSUME HashInv, Link
    PROVE  HashInv' /\ key \in Keys \ Linked /\ Linked' = Linked \union {key} /\ val[key] = arg
<1>1. pc = "link" /\ pc' = "idle" /\ Inserting /\ ~Inserting'
  BY DEF Link, Return, Inserting
<1>2. UNCHANGED <<hashOf, primeindex, entrycount, fields, newtable, iterator>>
  BY DEF Link
<1>3. PICK k \in Keys \ Linked, b \in DOMAIN table :
        /\ k = key /\ b = Index(Size, k) /\ table' = [table EXCEPT ![b] = k]
        /\ next[k] = table[b]
  BY <1>1, SearchFinds DEF Link, HashInv, StagesInv
<1>4. /\ DOMAIN table' = DOMAIN table /\ table'[b] = k
      /\ \A c \in DOMAIN table \ {b} : table'[c] = table[c]
  BY <1>1, <1>3, TableTyped DEF HashInv, TypeOK
<1>5. Size' = Size /\ OldSize' = OldSize
  BY <1>1, <1>2 DEF Size, OldSize
<1>6. /\ Chain(table, b)' = {k} \union Chain(table, b)
      /\ \A c \in DOMAIN table \ {b} : Chain(table, c)' = Chain(table, c)
  BY <1>2, <1>3, <1>4, ChainsTyped, ChainStep DEF Chain, From, fields
<1>7. /\ InTable(table)' = InTable(table) \union {k} /\ InTable(newtable)' = {}
      /\ InTable(newtable) = {} /\ Linked' = Linked \union {k}
  <2>1. InTable(table)' = InTable(table) \union {k}
    <3>1. \A l : l \in InTable(table)' <=> \E c \in DOMAIN table : l \in Chain(table, c)'
      BY <1>4 DEF InTable
    <3>2. \A l : (\E c \in DOMAIN table : l \in Chain(table, c)')
                   <=> l = k \/ \E c \in DOMAIN table : l \in Chain(table, c)
      BY <1>3, <1>6
    <3>. QED  BY <3>1, <3>2 DEF InTable
  <2>2. DOMAIN newtable' = {} /\ InTable(newtable) = {}
    BY <1>1, <1>2, TableTyped, SearchFinds
  <2>3. InTable(newtable)' = {}
    BY <2>2 DEF InTable
  <2>. QED  BY <2>1, <2>2, <2>3 DEF Linked
<1>8. TypeOK'
  <2>1. table' \in [0..(Size - 1) -> Pointer]
    BY <1>1, <1>3 DEF HashInv, TypeOK, Pointer
  <2>. QED  BY <2>1, <1>1, <1>2, <1>5 DEF Link, Return, HashInv, TypeOK, Pointer, fields, iterator
<1>9. StagesInv'
  BY <1>1 DEF StagesInv, Inserting
<1>10. StraightInv'
  <2>1. k \notin From(next[k])
    BY <1>3, ChainsTyped DEF Chain
  <2>. QED  BY <2>1, <1>2, <1>7 DEF HashInv, StraightInv, From, fields
<1>11. BucketsInv'
  <2>1. \A c \in DOMAIN table : \A l \in Chain(table, c)' : l \in Chain(table, c) \/ (l = k /\ c = b)
    BY <1>6
  <2>2. \A c \in DOMAIN table : \A l \in Chain(table, c)' : Index(OldSize, l) = c
    BY <2>1, <1>1, <1>3, TableTyped DEF HashInv, BucketsInv, InBucket
  <2>3. InBucket(table, OldSize)'
    BY <2>2, <1>2, <1>4, <1>5 DEF InBucket, Index
  <2>4. DOMAIN newtable' = {}
    BY <1>1, <1>2, TableTyped
  <2>5. InBucket(newtable, Size)'
    BY <2>4 DEF InBucket
  <2>. QED  BY <2>3, <2>5, <1>7 DEF BucketsInv
<1>12. EntriesInv'
  BY <1>1, <1>2, <1>3, <1>7 DEF HashInv, EntriesInv, InHand, fields
<1>13. CountInv'
  <2>1. Cardinality(Linked') = Cardinality(Linked) + 1
    BY <1>3, <1>7, CountTyped
  <2>. QED  BY <2>1, <1>1, <1>2, CountTyped DEF HashInv, CountInv
<1>14. IteratorInv'
  BY <1>1 DEF IteratorInv
<1>15. val[key] = arg
  BY <1>1 DEF HashInv, StagesInv
<1>. QED  BY <1>3, <1>7, <1>8, <1>9, <1>10, <1>11, <1>12, <1>13, <1>14, <1>15 DEF HashInv

-----------------------------------------------------------------------------
(* hashtable_remove, hashtable_change and hashtable_destroy do.            *)

LEMMA RemoveFindPreserves ==
    ASSUME HashInv, NEW k \in Keys, RemoveFind(k)
    PROVE  HashInv' /\ Linked' = Linked
<1>1. pc = "idle" /\ pc' = "unlink" /\ ~Inserting /\ ~Inserting'
  BY DEF RemoveFind, Inserting
<1>2. UNCHANGED <<hashOf, buckets, entrycount, fields, newtable, arg, iterator>>
  BY DEF RemoveFind
<1>3. /\ Linked' = Linked /\ Size' = Size /\ StraightInv' /\ BucketsInv'
  BY <1>1, <1>2, SameStructure, ChainsTyped DEF fields
<1>4. Search(k) /\ k \in Linked /\ Before(k) \in Linked \union {NULL}
  BY <1>1, SearchFinds, BeforeTyped DEF RemoveFind
<1>5. TypeOK'
  <2>1. prev' \in Pointer /\ key' \in Pointer
    BY <1>4, ChainsTyped DEF RemoveFind, Pointer
  <2>. QED  BY <2>1, <1>1, <1>2, <1>3 DEF HashInv, TypeOK, fields, buckets, iterator
<1>6. StagesInv'
  <2>1. Search(k)' /\ Before(k)' = Before(k)
    BY <1>2, <1>3, <1>4 DEF Search, Before, Index, Chain, From, fields, buckets
  <2>. QED  BY <2>1, <1>1 DEF RemoveFind, StagesInv
<1>7. EntriesInv'
  BY <1>1, <1>2, <1>3 DEF HashInv, EntriesInv, InHand, fields
<1>8. CountInv'
  BY <1>1, <1>2, <1>3 DEF HashInv, CountInv
<1>9. IteratorInv'
  BY <1>1 DEF IteratorInv
<1>. QED  BY <1>3, <1>5, <1>6, <1>7, <1>8, <1>9 DEF HashInv

LEMMA RemoveFreePreserves ==
    ASSUME HashInv, RemoveFree
    PROVE  HashInv' /\ Linked' = Linked
<1>1. pc = "free" /\ pc' = "idle" /\ ~Inserting /\ ~Inserting'
  BY DEF RemoveFree, Return, Inserting
<1>2. UNCHANGED <<hashOf, buckets, entrycount, newtable, iterator>>
  BY DEF RemoveFree
<1>3. key \in Keys \ Linked
  BY <1>1 DEF HashInv, StagesInv
<1>4. /\ next' \in [Keys -> Pointer] /\ \A k \in Linked : next'[k] = next[k]
      /\ val' \in [Keys -> Values \union {NULL}] /\ entries' = entries \ {key}
  BY <1>3, ChainsTyped DEF RemoveFree, Free, HashInv, TypeOK, Pointer
<1>5. /\ Linked' = Linked /\ Size' = Size /\ StraightInv' /\ BucketsInv'
  BY <1>1, <1>2, <1>4, SameStructure
<1>6. TypeOK'
  BY <1>1, <1>2, <1>4, <1>5 DEF RemoveFree, Return, HashInv, TypeOK, Pointer, buckets, iterator
<1>7. StagesInv'
  BY <1>1 DEF StagesInv, Inserting
<1>8. EntriesInv'
  BY <1>1, <1>3, <1>4, <1>5 DEF HashInv, EntriesInv, InHand
<1>9. CountInv'
  BY <1>1, <1>2, <1>5 DEF HashInv, CountInv
<1>10. IteratorInv'
  BY <1>1 DEF IteratorInv
<1>. QED  BY <1>5, <1>6, <1>7, <1>8, <1>9, <1>10 DEF HashInv

LEMMA ChangePreserves ==
    ASSUME HashInv, NEW k \in Keys, NEW v \in Values, Change(k, v)
    PROVE  HashInv' /\ Linked' = Linked
<1>1. pc = "idle" /\ pc' = "idle" /\ ~Inserting /\ ~Inserting'
  BY DEF Change, Inserting
<1>2. UNCHANGED <<hashOf, buckets, entrycount, entries, next, newtable, pc, call, iterator>>
  BY DEF Change
<1>3. /\ Linked' = Linked /\ Size' = Size /\ StraightInv' /\ BucketsInv'
  BY <1>1, <1>2, SameStructure, ChainsTyped
<1>4. val' \in [Keys -> Values \union {NULL}]
  BY DEF Change, HashInv, TypeOK
<1>5. TypeOK'
  BY <1>1, <1>2, <1>3, <1>4 DEF HashInv, TypeOK, buckets, call, iterator
<1>6. StagesInv'
  BY <1>1 DEF StagesInv
<1>7. EntriesInv'
  BY <1>1, <1>2, <1>3 DEF HashInv, EntriesInv, InHand
<1>8. CountInv'
  BY <1>1, <1>2, <1>3 DEF HashInv, CountInv
<1>9. IteratorInv'
  BY <1>1 DEF IteratorInv
<1>. QED  BY <1>3, <1>5, <1>6, <1>7, <1>8, <1>9 DEF HashInv

LEMMA DestroyPreserves ==
    ASSUME HashInv, Destroy
    PROVE  HashInv' /\ Linked' = {}
<1>1. pc = "idle" /\ pc' = "destroyed" /\ ~Inserting'
  BY DEF Destroy, Inserting
<1>2. UNCHANGED <<hashOf, primeindex, entrycount, newtable, call, iterator>>
  BY DEF Destroy
<1>3. DOMAIN table' = {} /\ DOMAIN newtable' = {} /\ table' = <<>>
  BY <1>1, <1>2, TableTyped DEF Destroy
<1>4. InTable(table)' = {} /\ InTable(newtable)' = {} /\ Linked' = {}
  BY <1>3 DEF InTable, Linked
<1>5. entries' = {}
  BY <1>1, SearchFinds DEF Destroy, Free, HashInv, EntriesInv, InHand
<1>6. TypeOK'
  <2>1. next' \in [Keys -> Pointer] /\ val' \in [Keys -> Values \union {NULL}]
    BY DEF Destroy, Free, HashInv, TypeOK, Pointer
  <2>. QED  BY <2>1, <1>1, <1>2, <1>5 DEF HashInv, TypeOK, call, iterator
<1>7. StagesInv'
  BY <1>1, <1>3 DEF StagesInv
<1>8. StraightInv' /\ BucketsInv'
  BY <1>3, <1>4 DEF StraightInv, BucketsInv, InBucket
<1>9. EntriesInv' /\ CountInv' /\ IteratorInv'
  BY <1>1, <1>5 DEF EntriesInv, CountInv, IteratorInv
<1>. QED  BY <1>4, <1>6, <1>7, <1>8, <1>9 DEF HashInv

\* *pE = e->next takes e out of its chain, with Before(e) for the entry before it,
\* and disturbs nothing else.
LEMMA Unlinks ==
    ASSUME HashInv, pc \notin {"rehash", "destroyed"}, NEW e \in Linked,
           NEW t, t = BucketsWithout(Before(e), e, Index(Size, e)),
           NEW n, n = NextWithout(Before(e), e)
    PROVE  /\ t \in [0..(Size - 1) -> Pointer] /\ DOMAIN table = 0..(Size - 1)
           /\ n \in [Keys -> Pointer]
           /\ \A c \in DOMAIN table : /\ Reachable(n, t[c]) = Chain(table, c) \ {e}
                                      /\ Straight(n, t[c])
           /\ next[e] \in Pointer /\ Reachable(n, next[e]) = From(next[e])
<1>1. PICK b : b = Index(Size, e)
  OBVIOUS
<1>2. PICK p : p = Before(e)
  OBVIOUS
<1>3. /\ b \in DOMAIN table /\ DOMAIN table = 0..(Size - 1) /\ e \in Chain(table, b)
      /\ table \in [0..(Size - 1) -> Pointer] /\ table[b] \in Pointer
      /\ \A c \in DOMAIN table : table[c] \in Pointer
  BY <1>1, BeforeTyped, TableTyped DEF HashInv, TypeOK
<1>4. /\ next \in [Keys -> Pointer] /\ e \in Keys /\ next[e] \in Pointer
      /\ \A c \in DOMAIN table : Straight(next, table[c]) /\ Chain(table, c) \subseteq Keys
  BY ChainsTyped, NullAssumption DEF Pointer
<1>5. \A c \in DOMAIN table \ {b} : \A k \in Chain(table, b) : k \notin Chain(table, c)
  BY <1>3 DEF HashInv, BucketsInv, InBucket
<1>6. CASE p = NULL
  <2>1. table[b] = e /\ t = [table EXCEPT ![b] = next[e]] /\ n = next
    BY <1>1, <1>2, <1>6, BeforeTyped DEF BucketsWithout, NextWithout
  <2>2. /\ t \in [0..(Size - 1) -> Pointer] /\ t[b] = next[e]
        /\ \A c \in DOMAIN table \ {b} : t[c] = table[c]
    BY <2>1, <1>3, <1>4
  <2>3. Chain(table, b) = {e} \union From(next[e]) /\ e \notin From(next[e])
    BY <2>1, <1>4, ChainStep DEF Chain, From, HashInv, StraightInv
  <2>4. \A k \in From(next[e]) : k \notin From(next[k])
    BY <2>3, <1>3, <1>4 DEF Chain, From, Straight
  <2>5. \A c \in DOMAIN table : Reachable(n, t[c]) = Chain(table, c) \ {e}
    BY <2>1, <2>2, <2>3, <1>3, <1>5 DEF Chain, From
  <2>6. \A c \in DOMAIN table : Straight(n, t[c])
    BY <2>1, <2>2, <2>4, <1>4 DEF Straight, From
  <2>. QED  BY <2>1, <2>2, <2>5, <2>6, <1>3, <1>4 DEF From
<1>7. CASE p # NULL
  <2>1. /\ p \in Chain(table, b) /\ next[p] = e /\ table[b] # e
        /\ t = table /\ n = [next EXCEPT ![p] = next[e]]
    BY <1>1, <1>2, <1>7, BeforeTyped DEF BucketsWithout, NextWithout
  <2>2. /\ n \in [Keys -> Pointer]
        /\ \A y \in Chain(table, b) \ {e} : Reachable(n, y) = From(y) \ {e}
        /\ Reachable(n, e) = From(e)
        /\ Straight(n, table[b])
    <3>1. e # NULL /\ p \in Reachable(next, table[b]) /\ next[p] # NULL /\ n = [next EXCEPT ![p] = next[next[p]]]
      BY <2>1, <1>4, NullAssumption DEF Chain, From
    <3>2. next \in [Keys -> Pointer] /\ table[b] \in Pointer /\ Straight(next, table[b])
      BY <1>3, <1>4
    <3>3. /\ n \in [Keys -> Pointer]
          /\ \A y \in Reachable(next, table[b]) \ {next[p]} : Reachable(n, y) = Reachable(next, y) \ {next[p]}
          /\ Reachable(n, next[p]) = Reachable(next, next[p])
          /\ Straight(n, table[b])
      BY <3>1, <3>2, ChainUnlink
    <3>. QED  BY <3>3, <2>1 DEF Chain, From
  <2>3. table[b] \in Chain(table, b)
    BY <1>3, <1>4, ChainClosed, ChainOfNull DEF Chain, From
  <2>4. ASSUME NEW c \in DOMAIN table \ {b}
        PROVE  Reachable(n, table[c]) = Chain(table, c) /\ Straight(n, table[c])
    <3>1. \A k \in Chain(table, c) : k \in Keys /\ k # p /\ n[k] = next[k]
      BY <2>1, <1>4, <1>5
    <3>2. Reachable(n, table[c]) = Chain(table, c)
      BY <3>1, <2>2, <1>3, <1>4, ChainFrame DEF Chain, From
    <3>3. ASSUME NEW k \in Chain(table, c)
          PROVE  Reachable(n, n[k]) = From(next[k])
      <4>1. next[k] \in Pointer /\ n[k] = next[k] /\ From(next[k]) \subseteq Chain(table, c)
        BY <3>1, <1>3, <1>4, ChainRest DEF Chain, From
      <4>2. \A l \in Reachable(next, next[k]) : n[l] = next[l]
        BY <4>1, <3>1 DEF From
      <4>. QED  BY <4>1, <4>2, <2>2, <1>4, ChainFrame DEF From
    <3>. QED  BY <3>2, <3>3, <1>4 DEF Straight, Chain, From
  <2>5. \A c \in DOMAIN table : Reachable(n, t[c]) = Chain(table, c) \ {e}
    <3>1. Reachable(n, t[b]) = Chain(table, b) \ {e}
      BY <2>1, <2>2, <2>3 DEF Chain
    <3>2. \A c \in DOMAIN table \ {b} : Reachable(n, t[c]) = Chain(table, c) \ {e}
      <4>1. \A c \in DOMAIN table \ {b} : e \notin Chain(table, c)
        BY <1>3, <1>5
      <4>2. \A c \in DOMAIN table \ {b} : Reachable(n, t[c]) = Chain(table, c)
        BY <2>1, <2>4
      <4>. QED  BY <4>1, <4>2
    <3>. QED  BY <3>1, <3>2
  <2>6. \A c \in DOMAIN table : Straight(n, t[c])
    BY <2>1, <2>2, <2>4
  <2>7. Reachable(n, next[e]) = From(next[e])
    <3>1. From(e) = {e} \union From(next[e]) /\ e \notin From(next[e])
      BY <1>4, ChainStep DEF From, HashInv, StraightInv
    <3>2. p \notin From(e)
      BY <2>1, <1>3, <1>4 DEF Straight, Chain, From
    <3>3. \A l \in Reachable(next, next[e]) : n[l] = next[l]
      BY <3>1, <3>2, <2>1, <1>4, ChainClosed DEF From
    <3>. QED  BY <3>3, <2>2, <1>4, ChainFrame DEF From
  <2>. QED  BY <2>1, <2>2, <2>5, <2>6, <2>7, <1>3, <1>4
<1>. QED  BY <1>6, <1>7

\* A step that takes e out, and may then write the fields of e.
LEMMA UnlinkStructure ==
    ASSUME HashInv, pc \notin {"rehash", "destroyed"}, pc' # "rehash",
           NEW e \in Linked, next' \in [Keys -> Pointer],
           table' = BucketsWithout(Before(e), e, Index(Size, e)),
           \A k \in Keys \ {e} : next'[k] = NextWithout(Before(e), e)[k],
           UNCHANGED <<hashOf, primeindex, newtable>>
    PROVE  /\ table' \in [0..(Size - 1) -> Pointer]
           /\ Linked' = Linked \ {e} /\ Size' = Size
           /\ \A c \in DOMAIN table : Chain(table, c)' = Chain(table, c) \ {e}
           /\ Reachable(next', next[e]) = From(next[e])
           /\ StraightInv' /\ BucketsInv'
<1>1. PICK t, n : t = BucketsWithout(Before(e), e, Index(Size, e)) /\ n = NextWithout(Before(e), e)
  OBVIOUS
<1>2. /\ t \in [0..(Size - 1) -> Pointer] /\ DOMAIN table = 0..(Size - 1)
      /\ n \in [Keys -> Pointer]
      /\ \A c \in DOMAIN table : /\ Reachable(n, t[c]) = Chain(table, c) \ {e}
                                 /\ Straight(n, t[c])
      /\ next[e] \in Pointer /\ Reachable(n, next[e]) = From(next[e])
  BY <1>1, Unlinks
<1>3. table' = t /\ DOMAIN table' = DOMAIN table /\ \A k \in Keys \ {e} : next'[k] = n[k]
  BY <1>1, <1>2
<1>4. ASSUME NEW q \in Pointer, e \notin Reachable(n, q)
      PROVE  Reachable(next', q) = Reachable(n, q)
  <2>1. \A k \in Reachable(n, q) : next'[k] = n[k]
    BY <1>2, <1>3, <1>4, ChainClosed
  <2>. QED  BY <2>1, <1>2, ChainFrame
<1>5. \A c \in DOMAIN table : Chain(table, c)' = Chain(table, c) \ {e}
  BY <1>2, <1>3, <1>4 DEF Chain, From
<1>6. e \in Keys /\ e \notin From(next[e])
  BY ChainsTyped DEF HashInv, StraightInv
<1>7. Reachable(next', next[e]) = From(next[e])
  BY <1>2, <1>4, <1>6
<1>8. InTable(newtable) = {} /\ DOMAIN newtable' = {} /\ Linked = InTable(table) /\ OldSize = Size
  BY TableTyped, SearchFinds
<1>9. InTable(newtable)' = {} /\ InTable(table)' = InTable(table) \ {e}
  BY <1>3, <1>5, <1>8 DEF InTable
<1>10. Linked' = Linked \ {e}
  BY <1>8, <1>9 DEF Linked
<1>11. Size' = Size /\ OldSize' = Size
  BY DEF Size, OldSize
<1>12. StraightInv'
  <2>1. ASSUME NEW k \in Linked', k \in Reachable(next', next'[k])
        PROVE  FALSE
    <3>1. PICK c \in DOMAIN table : k \in Chain(table, c) \ {e}
      BY <2>1, <1>8, <1>10 DEF InTable
    <3>2. /\ k \in Reachable(n, t[c]) /\ k # e /\ k \in Keys /\ next'[k] = n[k] /\ t[c] \in Pointer
          /\ e \notin Reachable(n, t[c])
      BY <3>1, <1>2, <1>3, ChainClosed
    <3>3. Reachable(n, n[k]) \subseteq Reachable(n, t[c]) /\ n[k] \in Pointer
      BY <3>2, <1>2, ChainRest
    <3>4. k \in Reachable(n, n[k])
      BY <3>2, <3>3, <2>1, <1>4
    <3>. QED  BY <3>2, <3>4, <1>2 DEF Straight
  <2>. QED  BY <2>1 DEF StraightInv, From
<1>13. BucketsInv'
  <2>1. InBucket(table, OldSize)'
    BY <1>3, <1>5, <1>8, <1>11 DEF HashInv, BucketsInv, InBucket, Index
  <2>2. InBucket(newtable, Size)'
    BY <1>8 DEF InBucket
  <2>. QED  BY <2>1, <2>2, <1>9 DEF BucketsInv
<1>. QED  BY <1>2, <1>3, <1>5, <1>7, <1>10, <1>11, <1>12, <1>13

LEMMA RemoveUnlinkPreserves ==
    ASSUME HashInv, RemoveUnlink
    PROVE  HashInv' /\ key \in Linked /\ Linked' = Linked \ {key}
<1>1. pc = "unlink" /\ pc' = "free" /\ ~Inserting /\ ~Inserting'
  BY DEF RemoveUnlink, Inserting
<1>2. UNCHANGED <<hashOf, primeindex, entries, val, newtable, call, iterator>>
  BY DEF RemoveUnlink
<1>3. key \in Keys /\ key \in Linked /\ prev = Before(key)
  BY <1>1, SearchFinds DEF HashInv, StagesInv
<1>4. next' = NextWithout(Before(key), key) /\ next' \in [Keys -> Pointer]
      /\ table' = BucketsWithout(Before(key), key, Index(Size, key))
  BY <1>1, <1>3, Unlinks DEF RemoveUnlink
<1>5. /\ table' \in [0..(Size - 1) -> Pointer]
      /\ Linked' = Linked \ {key} /\ Size' = Size /\ StraightInv' /\ BucketsInv'
  BY <1>1, <1>2, <1>3, <1>4, UnlinkStructure
<1>6. entrycount = Cardinality(Linked) /\ entrycount' = Cardinality(Linked) - 1
      /\ Cardinality(Linked') = Cardinality(Linked) - 1 /\ Cardinality(Linked) > 0
  <2>1. Cardinality(Linked) \in Nat /\ Cardinality(Linked) > 0
        /\ Cardinality(Linked') = Cardinality(Linked) - 1
    BY <1>3, <1>5, CountTyped
  <2>2. entrycount = Cardinality(Linked)
    BY <2>1, <1>1 DEF HashInv, CountInv
  <2>. QED  BY <2>1, <2>2 DEF RemoveUnlink
<1>7. TypeOK'
  <2>1. entrycount' \in 0..Cardinality(Keys)
    BY <1>6, CountTyped
  <2>. QED  BY <2>1, <1>1, <1>2, <1>4, <1>5 DEF HashInv, TypeOK, call, iterator
<1>8. StagesInv'
  BY <1>1, <1>2, <1>3, <1>5 DEF StagesInv, Inserting, call
<1>9. EntriesInv'
  BY <1>1, <1>2, <1>3, <1>5 DEF HashInv, EntriesInv, InHand, call
<1>10. CountInv'
  BY <1>1, <1>5, <1>6, CountTyped DEF CountInv
<1>11. IteratorInv'
  BY <1>1 DEF IteratorInv
<1>. QED  BY <1>3, <1>5, <1>7, <1>8, <1>9, <1>10, <1>11 DEF HashInv

-----------------------------------------------------------------------------
(* The iterator does.                                                      *)

\* HeadFrom stands on the first entry of the buckets from b on, and leaves none
\* of them behind.
LEMMA HeadFromFirst ==
    ASSUME HashInv, pc \in {"idle", "iterate"}, NEW b \in Nat
    PROVE  LET i == HeadFrom(b)
           IN  /\ i \in [e: Pointer, parent: Pointer, index: Nat]
               /\ i.parent = NULL
               /\ i.e # NULL => /\ i.index \in b..(Size - 1) /\ i.e = table[i.index]
                                /\ i.e \in Chain(table, i.index) /\ Before(i.e) = NULL
               /\ i.e = NULL => i.index = Size
               /\ Ahead(i) = LaterBuckets(b)
<1>. DEFINE full == {c \in b..(Size - 1) : table[c] # NULL}
<1>1. /\ Size \in Nat \ {0} /\ DOMAIN table = 0..(Size - 1)
      /\ \A c \in 0..(Size - 1) : table[c] \in Pointer
      /\ next \in [Keys -> Pointer]
  BY TableTyped, ChainsTyped
<1>2. \A c \in b..(Size - 1) : c \in 0..(Size - 1)
  BY <1>1
<1>3. \A c \in b..(Size - 1) : c \notin full => Chain(table, c) = {}
  BY <1>1, ChainOfNull DEF Chain, From
<1>4. CASE full = {}
  <2>1. HeadFrom(b) = [e |-> NULL, parent |-> NULL, index |-> Size]
    BY <1>4 DEF HeadFrom
  <2>2. LaterBuckets(b) = {}
    BY <1>3, <1>4 DEF LaterBuckets
  <2>3. (Size + 1)..(Size - 1) = {}
    BY <1>1
  <2>4. LaterBuckets(Size + 1) = {}
    BY <2>3 DEF LaterBuckets
  <2>. QED  BY <2>1, <2>2, <2>4, <1>1, ChainOfNull DEF Ahead, From, Pointer
<1>5. CASE full # {}
  <2>1. full \in SUBSET Nat
    BY <1>2
  <2>2. \E c \in full : \A d \in full : c <= d
    <3>. HIDE DEF full
    <3>. QED  BY <2>1, <1>5, LeastNatural
  <2>3. PICK c \in full : HeadFrom(b) = [e |-> table[c], parent |-> NULL, index |-> c]
                          /\ \A d \in full : c <= d
    BY <1>5, <2>2 DEF HeadFrom
  <2>4. c \in b..(Size - 1) /\ c \in 0..(Size - 1) /\ table[c] \in Keys /\ table[c] \in Pointer
    BY <1>1, <1>2 DEF Pointer
  <2>5. table[c] \in Chain(table, c) /\ Index(Size, table[c]) = c
    <3>1. table[c] \in Chain(table, c)
      BY <2>4, <1>1, ChainClosed, NullAssumption DEF Chain, From
    <3>. QED  BY <3>1, <2>4, <1>1, TableTyped DEF HashInv, BucketsInv, InBucket
  <2>6. Before(table[c]) = NULL
    BY <2>5 DEF Before
  <2>7. LaterBuckets(b) = Chain(table, c) \union LaterBuckets(c + 1)
    <3>1. \A d \in b..(Size - 1) : d < c => Chain(table, d) = {}
      BY <2>3, <1>2, <1>3, <2>4
    <3>2. \A d \in b..(Size - 1) : d < c \/ d = c \/ d \in (c + 1)..(Size - 1)
      BY <2>4, <1>1
    <3>3. \A d \in (c + 1)..(Size - 1) : d \in b..(Size - 1)
      BY <2>4, <1>1
    <3>. QED  BY <3>1, <3>2, <3>3, <2>4 DEF LaterBuckets
  <2>. QED  BY <2>3, <2>4, <2>5, <2>6, <2>7, NullAssumption DEF Ahead, Chain, Pointer
<1>. QED  BY <1>4, <1>5

\* hashtable_iterator_advance passes the entry it stands on, and no other.
LEMMA AdvancedPassesOne ==
    ASSUME HashInv, pc = "iterate", itr.e # NULL
    PROVE  LET i == Advanced
           IN  /\ i \in [e: Pointer, parent: Pointer, index: Nat]
               /\ i.e # NULL =>
                    /\ i.index \in 0..(Size - 1) /\ i.e \in Chain(table, i.index)
                    /\ i.parent = Before(i.e)
                    /\ \/ i.parent = itr.e /\ i.e = next[itr.e] /\ i.index = itr.index
                       \/ i.parent = NULL /\ i.e = table[i.index] /\ i.index > itr.index
               /\ i.e = NULL => i.index >= Size /\ i.parent = NULL
               /\ Ahead(i) = Ahead(itr) \ {itr.e}
               /\ seen \cap Ahead(i) = {} /\ owed = seen \union Ahead(i)
               /\ i.e # NULL => i.e \in Ahead(i)
<1>. DEFINE e == itr.e
            b == itr.index
            i == Advanced
<1>1. /\ itr \in [e: Pointer, parent: Pointer, index: Nat]
      /\ b \in 0..(Size - 1) /\ e \in Chain(table, b) /\ e \in Keys
      /\ owed = seen \union Ahead(itr) /\ seen \cap Ahead(itr) = {e}
  BY NullAssumption DEF HashInv, TypeOK, IteratorInv, Pointer
<1>2. /\ Size \in Nat \ {0} /\ DOMAIN table = 0..(Size - 1) /\ b \in DOMAIN table
      /\ table[b] \in Pointer /\ Straight(next, table[b]) /\ InBucket(table, Size)
      /\ next \in [Keys -> Pointer] /\ next[e] \in Pointer
  BY <1>1, TableTyped, ChainsTyped DEF HashInv, BucketsInv
<1>3. From(e) = {e} \union From(next[e]) /\ e \notin From(next[e])
  BY <1>1, <1>2, ChainStep DEF Straight, Chain, From
<1>4. e \notin LaterBuckets(b + 1)
  <2>1. \A c \in (b + 1)..(Size - 1) : c \in DOMAIN table /\ c # b
    BY <1>1, <1>2
  <2>. QED  BY <2>1, <1>1, <1>2 DEF LaterBuckets, InBucket
<1>5. Ahead(itr) \ {e} = From(next[e]) \union LaterBuckets(b + 1)
  BY <1>3, <1>4 DEF Ahead
<1>6. CASE next[e] # NULL
  <2>1. i = [e |-> next[e], parent |-> e, index |-> b]
    BY <1>1, <1>6 DEF Advanced
  <2>2. next[e] # table[b] /\ next[e] \in Chain(table, b)
        /\ (CHOOSE q \in Chain(table, b) : next[q] = next[e]) = e
    BY <1>1, <1>2, <1>6, StraightWalk DEF Chain, From
  <2>3. Index(Size, next[e]) = b
    BY <2>2, <1>2 DEF InBucket
  <2>4. Before(next[e]) = e
    BY <2>2, <2>3 DEF Before
  <2>5. Ahead(i) = Ahead(itr) \ {e}
    BY <2>1, <1>5 DEF Ahead
  <2>6. next[e] \in Keys /\ next[e] \in From(next[e])
    BY <1>2, <1>6, ChainClosed DEF Pointer, From
  <2>7. next[e] \in Ahead(i)
    BY <2>1, <2>6 DEF Ahead
  <2>. QED  BY <2>1, <2>2, <2>4, <2>5, <2>7, <1>1, <1>2, <1>6 DEF Pointer
<1>7. CASE next[e] = NULL
  <2>1. i = HeadFrom(b + 1) /\ b + 1 \in Nat
    BY <1>1, <1>7 DEF Advanced
  <2>2. /\ i \in [e: Pointer, parent: Pointer, index: Nat]
        /\ i.parent = NULL
        /\ i.e # NULL => /\ i.index \in (b + 1)..(Size - 1) /\ i.e = table[i.index]
                         /\ i.e \in Chain(table, i.index) /\ Before(i.e) = NULL
        /\ i.e = NULL => i.index = Size
        /\ Ahead(i) = LaterBuckets(b + 1)
    <3>. HIDE DEF i
    <3>. QED  BY <2>1, HeadFromFirst
  <2>. HIDE DEF i
  <2>3. Ahead(i) = Ahead(itr) \ {e}
    BY <2>2, <1>2, <1>5, <1>7, ChainOfNull DEF From
  <2>4. i.e # NULL => i.e \in Ahead(i)
    <3>1. i.e # NULL => i.e \in From(i.e)
      BY <2>2, <1>2, ChainClosed DEF From
    <3>. QED  BY <3>1 DEF Ahead
  <2>5. i.e # NULL => i.index \in 0..(Size - 1) /\ i.index > b
    BY <2>2, <1>1, <1>2
  <2>. QED  BY <2>2, <2>3, <2>4, <2>5, <1>1, <1>2 DEF i
<1>. QED  BY <1>6, <1>7

\* To put the iterator somewhere it is enough to know what is ahead of it there.
LEMMA IteratorPlaced ==
    ASSUME HashInv, pc \in {"idle", "iterate"}, pc' = "iterate",
           UNCHANGED <<hashOf, buckets, entrycount, fields, newtable, call>>,
           NEW i \in [e: Pointer, parent: Pointer, index: Nat], itr' = i,
           i.e # NULL => /\ i.index \in 0..(Size - 1) /\ i.e \in Chain(table, i.index)
                         /\ i.parent = Before(i.e),
           i.e = NULL => i.index >= Size /\ i.parent = NULL,
           seen' \subseteq Keys, owed' = seen' \union Ahead(i),
           seen' \cap Ahead(i) = {i.e} \ {NULL}
    PROVE  HashInv' /\ Linked' = Linked
<1>1. ~Inserting /\ ~Inserting'
  BY DEF Inserting
<1>2. UNCHANGED <<hashOf, table, primeindex, entrycount, entries, next, val, newtable, key, arg, prev>>
  BY DEF buckets, fields, call
<1>3. Linked' = Linked /\ Size' = Size /\ StraightInv' /\ BucketsInv'
  BY <1>2, SameStructure, ChainsTyped DEF buckets
<1>4. i.index \in Nat /\ i.e \in Pointer /\ Ahead(i) \subseteq Keys
  <2>1. From(i.e) \subseteq Keys
    BY ChainsTyped, ChainClosed DEF From
  <2>2. \A c \in (i.index + 1)..(Size - 1) : c \in DOMAIN table
    BY TableTyped
  <2>3. LaterBuckets(i.index + 1) \subseteq Keys
    BY <2>2, ChainsTyped DEF LaterBuckets
  <2>. QED  BY <2>1, <2>3 DEF Ahead
<1>5. /\ Ahead(i)' = Ahead(i) /\ Before(i.e)' = Before(i.e)
      /\ Chain(table, i.index)' = Chain(table, i.index)
  BY <1>2, <1>3 DEF Ahead, LaterBuckets, Before, Chain, From, Index
<1>6. TypeOK'
  BY <1>2, <1>3, <1>4 DEF HashInv, TypeOK
<1>7. StagesInv'
  BY <1>1 DEF StagesInv
<1>8. EntriesInv'
  BY <1>2, <1>3 DEF HashInv, EntriesInv, InHand
<1>9. CountInv'
  BY <1>1, <1>2, <1>3 DEF HashInv, CountInv
<1>10. IteratorInv'
  BY <1>3, <1>5 DEF IteratorInv
<1>. QED  BY <1>3, <1>6, <1>7, <1>8, <1>9, <1>10 DEF HashInv

LEMMA IteratorPreserves ==
    ASSUME HashInv, Iterator
    PROVE  HashInv' /\ Linked' = Linked
<1>1. pc = "idle" /\ pc' = "iterate"
      /\ UNCHANGED <<hashOf, buckets, entrycount, fields, newtable, call>>
  BY DEF Iterator
<1>2. PICK i : i = HeadFrom(0)
  OBVIOUS
<1>3. /\ i \in [e: Pointer, parent: Pointer, index: Nat]
      /\ i.parent = NULL
      /\ i.e # NULL => /\ i.index \in 0..(Size - 1) /\ i.e = table[i.index]
                       /\ i.e \in Chain(table, i.index) /\ Before(i.e) = NULL
      /\ i.e = NULL => i.index = Size
      /\ Ahead(i) = LaterBuckets(0)
  BY <1>1, <1>2, HeadFromFirst
<1>4. itr' = i /\ seen' = {i.e} \ {NULL} /\ owed' = InTable(table)
  BY <1>2 DEF Iterator
<1>5. Size \in Nat \ {0} /\ DOMAIN table = 0..(Size - 1)
  BY <1>1, TableTyped
<1>6. InTable(table) = LaterBuckets(0)
  BY <1>5 DEF LaterBuckets, InTable
<1>7. i.e # NULL => i.e \in Keys /\ i.e \in Ahead(i)
  BY <1>3, ChainsTyped, ChainClosed DEF Ahead, From, Pointer
<1>8. i.e = NULL => i.index >= Size /\ i.parent = NULL
  BY <1>3, <1>5
<1>9. i.e # NULL => /\ i.index \in 0..(Size - 1) /\ i.e \in Chain(table, i.index)
                    /\ i.parent = Before(i.e)
  BY <1>3
<1>10. /\ seen' \subseteq Keys /\ owed' = seen' \union Ahead(i)
       /\ seen' \cap Ahead(i) = {i.e} \ {NULL}
  BY <1>3, <1>4, <1>6, <1>7
<1>. QED  BY <1>1, <1>3, <1>4, <1>8, <1>9, <1>10, IteratorPlaced

LEMMA IteratorAdvancePreserves ==
    ASSUME HashInv, IteratorAdvance
    PROVE  HashInv' /\ Linked' = Linked /\ itr'.e \notin seen
<1>1. pc = "iterate" /\ pc' = "iterate" /\ itr.e # NULL
      /\ UNCHANGED <<hashOf, buckets, entrycount, fields, newtable, call>>
  BY DEF IteratorAdvance
<1>2. PICK i : i = Advanced
  OBVIOUS
<1>3. /\ i \in [e: Pointer, parent: Pointer, index: Nat]
      /\ i.e # NULL => /\ i.index \in 0..(Size - 1) /\ i.e \in Chain(table, i.index)
                       /\ i.parent = Before(i.e)
      /\ i.e = NULL => i.index >= Size /\ i.parent = NULL
      /\ seen \cap Ahead(i) = {} /\ owed = seen \union Ahead(i)
      /\ i.e # NULL => i.e \in Ahead(i)
  BY <1>1, <1>2, AdvancedPassesOne
<1>4. itr' = i /\ seen' = seen \union ({i.e} \ {NULL}) /\ owed' = owed
  BY <1>2 DEF IteratorAdvance, Reach
<1>5. seen \subseteq Keys
  BY DEF HashInv, TypeOK
<1>6. /\ seen' \subseteq Keys /\ owed' = seen' \union Ahead(i)
      /\ seen' \cap Ahead(i) = {i.e} \ {NULL} /\ i.e \notin seen
  BY <1>3, <1>4, <1>5, NullAssumption DEF Pointer
<1>7. HashInv' /\ Linked' = Linked
  BY <1>1, <1>3, <1>4, <1>6, IteratorPlaced
<1>. QED  BY <1>4, <1>6, <1>7

LEMMA IteratorSearchPreserves ==
    ASSUME HashInv, NEW k \in Keys, IteratorSearch(k)
    PROVE  HashInv' /\ Linked' = Linked
<1>1. pc = "iterate" /\ pc' = "iterate" /\ Search(k)
      /\ UNCHANGED <<hashOf, buckets, entrycount, fields, newtable, call>>
  BY DEF IteratorSearch
<1>2. PICK i : i = [e |-> k, parent |-> Before(k), index |-> Index(Size, k)]
  OBVIOUS
<1>3. /\ k \in Linked /\ Index(Size, k) \in 0..(Size - 1) /\ Size \in Nat
      /\ k \in Chain(table, Index(Size, k)) /\ Before(k) \in Linked \union {NULL}
  BY <1>1, SearchFinds, BeforeTyped, TableTyped DEF Search
<1>4. i \in [e: Pointer, parent: Pointer, index: Nat] /\ i.e # NULL
  <2>1. Index(Size, k) \in Nat /\ Before(k) \in Pointer /\ k \in Pointer
    BY <1>3, ChainsTyped DEF Pointer
  <2>. QED  BY <2>1, <1>2, NullAssumption
<1>5. itr' = i /\ seen' = {k} /\ owed' = Ahead(i)
  BY <1>2 DEF IteratorSearch, Ahead, LaterBuckets
<1>6. k \in Ahead(i)
  BY <1>2, ChainsTyped, ChainClosed, NullAssumption DEF Ahead, From, Pointer
<1>7. i.e # NULL => /\ i.index \in 0..(Size - 1) /\ i.e \in Chain(table, i.index)
                    /\ i.parent = Before(i.e)
  BY <1>2, <1>3
<1>8. /\ seen' \subseteq Keys /\ owed' = seen' \union Ahead(i)
      /\ seen' \cap Ahead(i) = {i.e} \ {NULL}
  BY <1>2, <1>4, <1>5, <1>6
<1>. QED  BY <1>1, <1>4, <1>5, <1>7, <1>8, IteratorPlaced

LEMMA IteratorFreePreserves ==
    ASSUME HashInv, IteratorFree
    PROVE  HashInv' /\ Linked' = Linked
<1>1. pc = "iterate" /\ pc' = "idle" /\ ~Inserting /\ ~Inserting'
  BY DEF IteratorFree, Inserting
<1>2. UNCHANGED <<hashOf, buckets, entrycount, fields, newtable, call>>
  BY DEF IteratorFree
<1>3. Linked' = Linked /\ Size' = Size /\ StraightInv' /\ BucketsInv'
  BY <1>1, <1>2, SameStructure, ChainsTyped DEF fields
<1>4. TypeOK'
  BY <1>1, <1>2, <1>3 DEF IteratorFree, NoIterator, HashInv, TypeOK, Pointer, fields, buckets, call
<1>5. StagesInv'
  BY <1>1 DEF StagesInv
<1>6. EntriesInv'
  BY <1>1, <1>2, <1>3 DEF HashInv, EntriesInv, InHand, fields
<1>7. CountInv'
  BY <1>1, <1>2, <1>3 DEF HashInv, CountInv
<1>8. IteratorInv'
  BY <1>1 DEF IteratorInv
<1>. QED  BY <1>3, <1>4, <1>5, <1>6, <1>7, <1>8 DEF HashInv

LEMMA IteratorRemovePreserves ==
    ASSUME HashInv, IteratorRemove
    PROVE  /\ HashInv' /\ itr'.e \notin seen
           /\ itr.e \in Linked /\ Linked' = Linked \ {itr.e}
<1>1. pc = "iterate" /\ pc' = "iterate" /\ itr.e # NULL /\ ~Inserting /\ ~Inserting'
  BY DEF IteratorRemove, Inserting
<1>2. UNCHANGED <<hashOf, primeindex, newtable, pc, call, owed>>
  BY DEF IteratorRemove
<1>3. PICK i, e, b : i = Advanced /\ e = itr.e /\ b = itr.index
  OBVIOUS
<1>4. /\ b \in 0..(Size - 1) /\ e \in Chain(table, b) /\ itr.parent = Before(e)
      /\ b = Index(Size, e) /\ e \in Linked /\ e \in Keys
      /\ Size \in Nat \ {0} /\ DOMAIN table = 0..(Size - 1)
  <2>1. b \in 0..(Size - 1) /\ e \in Chain(table, b) /\ itr.parent = Before(e)
    BY <1>1, <1>3 DEF HashInv, IteratorInv
  <2>2. Size \in Nat \ {0} /\ DOMAIN table = 0..(Size - 1) /\ OldSize = Size
    BY <1>1, TableTyped
  <2>. QED  BY <2>1, <2>2, ChainsTyped DEF HashInv, BucketsInv, InBucket
<1>5. /\ i \in [e: Pointer, parent: Pointer, index: Nat]
      /\ i.e # NULL =>
           /\ i.index \in 0..(Size - 1) /\ i.e \in Chain(table, i.index)
           /\ i.parent = Before(i.e)
           /\ \/ i.parent = e /\ i.e = next[e] /\ i.index = b
              \/ i.parent = NULL /\ i.e = table[i.index] /\ i.index > b
      /\ i.e = NULL => i.index >= Size /\ i.parent = NULL
      /\ Ahead(i) = Ahead(itr) \ {e}
      /\ seen \cap Ahead(i) = {} /\ owed = seen \union Ahead(i)
      /\ i.e # NULL => i.e \in Ahead(i)
  BY <1>1, <1>3, AdvancedPassesOne
<1>6. /\ table' = BucketsWithout(Before(e), e, b)
      /\ next' = [k \in Keys |-> IF k = e THEN NULL ELSE NextWithout(Before(e), e)[k]]
      /\ val' = [k \in Keys |-> IF k = e THEN NULL ELSE val[k]]
      /\ entries' = entries \ {e} /\ entrycount' = entrycount - 1
      /\ itr' = Corrected(i) /\ seen' = seen \union ({itr'.e} \ {NULL}) /\ owed' = owed
  BY <1>3, <1>4 DEF IteratorRemove, Free, Reach
<1>7. NextWithout(Before(e), e) \in [Keys -> Pointer]
  BY <1>1, <1>4, Unlinks
<1>8. next' \in [Keys -> Pointer] /\ \A k \in Keys \ {e} : next'[k] = NextWithout(Before(e), e)[k]
  BY <1>6, <1>7 DEF Pointer
<1>9. /\ table' \in [0..(Size - 1) -> Pointer]
      /\ Linked' = Linked \ {e} /\ Size' = Size
      /\ \A c \in DOMAIN table : Chain(table, c)' = Chain(table, c) \ {e}
      /\ Reachable(next', next[e]) = From(next[e])
      /\ StraightInv' /\ BucketsInv'
  BY <1>1, <1>2, <1>4, <1>6, <1>8, UnlinkStructure
<1>10. PICK j : j = itr'
  OBVIOUS
<1>11. /\ j = Corrected(i) /\ j.e = i.e /\ j.index = i.index
       /\ j.parent = (IF i.parent = e THEN Before(e) ELSE i.parent)
       /\ j \in [e: Pointer, parent: Pointer, index: Nat]
  <2>1. Before(e) \in Pointer
    BY <1>1, <1>4, BeforeTyped, ChainsTyped DEF Pointer
  <2>. QED  BY <2>1, <1>3, <1>4, <1>5, <1>6, <1>10 DEF Corrected
<1>12. i.e \in Pointer /\ i.e # e /\ i.index \in Nat /\ i.e \notin seen /\ e # NULL /\ seen \subseteq Keys
  BY <1>4, <1>5, NullAssumption DEF HashInv, TypeOK
<1>13. \A c \in 0..(Size - 1) : c # b => e \notin Chain(table, c) /\ table'[c] = table[c]
  <2>1. \A c \in 0..(Size - 1) : c # b => e \notin Chain(table, c)
    BY <1>1, <1>4, TableTyped DEF HashInv, BucketsInv, InBucket
  <2>2. \A c \in 0..(Size - 1) : c # b => table'[c] = table[c]
    BY <1>4, <1>6 DEF BucketsWithout
  <2>. QED  BY <2>1, <2>2
<1>14. i.e # NULL => i.e \in Chain(table, i.index)' /\ Index(Size, i.e)' = i.index
  <2>1. \A k : Index(Size, k)' = Index(Size, k)
    BY <1>2, <1>9 DEF Index
  <2>2. i.e # NULL => Index(Size, i.e) = i.index
    BY <1>1, <1>4, <1>5, TableTyped DEF HashInv, BucketsInv, InBucket
  <2>. QED  BY <2>1, <2>2, <1>4, <1>5, <1>9, <1>12
<1>15. ASSUME i.e # NULL
       PROVE  Before(i.e)' = j.parent
  <2>1. CASE i.parent = e /\ Before(e) = NULL
    <3>1. table[b] = e /\ table' = [table EXCEPT ![b] = next[e]] /\ i.e = next[e] /\ i.index = b
      BY <2>1, <1>1, <1>4, <1>5, <1>6, <1>12, <1>15, BeforeTyped DEF BucketsWithout
    <3>2. table'[b] = i.e
      BY <3>1, <1>4, <1>1 DEF HashInv, TypeOK
    <3>. QED  BY <3>1, <3>2, <2>1, <1>11, <1>14, <1>15 DEF Before
  <2>2. CASE i.parent = e /\ Before(e) # NULL
    <3>1. PICK p : p = Before(e)
      OBVIOUS
    <3>2. p \in Chain(table, b) /\ next[p] = e /\ table' = table /\ i.e = next[e] /\ i.index = b
          /\ NextWithout(p, e) = [next EXCEPT ![p] = next[e]]
      BY <3>1, <2>2, <1>1, <1>4, <1>5, <1>6, <1>12, BeforeTyped DEF BucketsWithout, NextWithout
    <3>3. p \in Keys /\ p # e
      <4>1. e \notin From(next[e]) /\ Chain(table, b) \subseteq Keys
        BY <1>4, ChainsTyped DEF HashInv, StraightInv
      <4>2. e \in From(e)
        BY <1>4, ChainsTyped, ChainStep DEF From
      <4>. QED  BY <4>1, <4>2, <3>2
    <3>4. next'[p] = i.e
      BY <3>1, <3>2, <3>3, <1>6, ChainsTyped
    <3>5. /\ p \in Reachable(next', table'[b]) /\ Reachable(next', table'[b]) = Chain(table, b)'
          /\ table'[b] \in Pointer
      BY <3>2, <3>3, <1>4, <1>9 DEF Chain, From
    <3>6. Straight(next', table'[b])
      <4>1. Reachable(next', table'[b]) \subseteq Linked'
        BY <3>5, <1>4, <1>9, ChainsTyped
      <4>. QED  BY <4>1, <1>9 DEF Straight, StraightInv, From
    <3>7. next'[p] # table'[b] /\ (CHOOSE r \in Reachable(next', table'[b]) : next'[r] = next'[p]) = p
      BY <3>4, <3>5, <3>6, <1>8, <1>15, StraightWalk
    <3>8. table'[b] # i.e /\ (CHOOSE r \in Chain(table, b)' : next'[r] = i.e) = p
      BY <3>4, <3>5, <3>7
    <3>9. Before(i.e)' = p
      BY <3>2, <3>8, <1>14, <1>15 DEF Before
    <3>. QED  BY <3>1, <3>9, <2>2, <1>11
  <2>3. CASE i.parent # e
    <3>1. i.parent = NULL /\ i.e = table[i.index] /\ i.index > b /\ i.index \in 0..(Size - 1)
      BY <2>3, <1>5, <1>15
    <3>2. table'[i.index] = i.e
      BY <3>1, <1>4, <1>13
    <3>. QED  BY <3>1, <3>2, <2>3, <1>11, <1>14, <1>15 DEF Before
  <2>. QED  BY <2>1, <2>2, <2>3
<1>16. Ahead(i)' = Ahead(i)
  <2>1. Reachable(next', i.e) = From(i.e)
    <3>1. CASE i.e = NULL
      BY <3>1, <1>8, ChainsTyped, ChainOfNull DEF From
    <3>2. CASE i.e # NULL /\ i.e = next[e]
      BY <3>2, <1>9 DEF From
    <3>3. CASE i.e # NULL /\ i.e = table[i.index] /\ i.index > b /\ i.index \in 0..(Size - 1)
      <4>1. i.index # b /\ i.index \in DOMAIN table
        BY <3>3, <1>4
      <4>2. e \notin Chain(table, i.index) /\ table'[i.index] = i.e
            /\ Chain(table, i.index)' = Chain(table, i.index) \ {e}
        BY <4>1, <3>3, <1>9, <1>13
      <4>3. Chain(table, i.index)' = Reachable(next', i.e) /\ Chain(table, i.index) = From(i.e)
        BY <4>2, <3>3 DEF Chain, From
      <4>. QED  BY <4>2, <4>3
    <3>4. \/ i.e = NULL
          \/ i.e # NULL /\ i.e = next[e]
          \/ i.e # NULL /\ i.e = table[i.index] /\ i.index > b /\ i.index \in 0..(Size - 1)
      BY <1>5
    <3>. QED  BY <3>1, <3>2, <3>3, <3>4
  <2>2. \A c \in (i.index + 1)..(Size - 1) : c \in 0..(Size - 1) /\ c # b
    BY <1>4, <1>5, <1>12
  <2>3. \A c \in (i.index + 1)..(Size - 1) : Chain(table, c)' = Chain(table, c)
    BY <2>2, <1>4, <1>9, <1>13
  <2>4. LaterBuckets(i.index + 1)' = LaterBuckets(i.index + 1)
    BY <2>3, <1>9 DEF LaterBuckets
  <2>. QED  BY <2>1, <2>4 DEF Ahead, From
<1>17. TypeOK'
  <2>1. entrycount' \in 0..Cardinality(Keys)
    <3>1. Cardinality(Linked) \in Nat /\ Cardinality(Linked) > 0 /\ Cardinality(Keys) \in Nat
          /\ Cardinality(Linked) <= Cardinality(Keys)
      BY <1>4, CountTyped
    <3>2. entrycount = Cardinality(Linked)
      BY <3>1, <1>1 DEF HashInv, CountInv
    <3>. QED  BY <3>1, <3>2, <1>6
  <2>2. val' \in [Keys -> Values \union {NULL}] /\ entries' \subseteq Keys
    BY <1>6 DEF HashInv, TypeOK
  <2>3. seen' \subseteq Keys /\ itr' \in [e: Pointer, parent: Pointer, index: Nat]
    BY <1>6, <1>10, <1>11, <1>12 DEF Pointer
  <2>. QED  BY <2>1, <2>2, <2>3, <1>1, <1>2, <1>8, <1>9 DEF HashInv, TypeOK, call
<1>18. StagesInv'
  BY <1>1 DEF StagesInv
<1>19. EntriesInv'
  BY <1>1, <1>4, <1>6, <1>9 DEF HashInv, EntriesInv, InHand
<1>20. CountInv'
  <2>1. Cardinality(Linked') = Cardinality(Linked) - 1 /\ Cardinality(Linked) \in Nat
    BY <1>4, <1>9, CountTyped
  <2>2. entrycount = Cardinality(Linked)
    BY <2>1, <1>1 DEF HashInv, CountInv
  <2>. QED  BY <2>1, <2>2, <1>1, <1>6 DEF CountInv
<1>21. IteratorInv'
  <2>1. Ahead(itr)' = Ahead(i)
    BY <1>10, <1>11, <1>16 DEF Ahead
  <2>2. itr'.e # NULL => /\ itr'.index \in 0..(Size' - 1) /\ itr'.e \in Chain(table, itr.index)'
                         /\ itr'.parent = Before(itr.e)'
    BY <1>5, <1>9, <1>10, <1>11, <1>14, <1>15
  <2>3. itr'.e = NULL => itr'.index >= Size' /\ itr'.parent = NULL
    BY <1>5, <1>9, <1>10, <1>11, <1>12
  <2>4. owed' = seen' \union Ahead(itr)' /\ seen' \cap Ahead(itr)' = {itr'.e} \ {NULL}
    BY <2>1, <1>5, <1>6, <1>10, <1>11, <1>12
  <2>. QED  BY <2>2, <2>3, <2>4 DEF IteratorInv
<1>. QED  BY <1>3, <1>4, <1>9, <1>10, <1>11, <1>12, <1>17, <1>18, <1>19, <1>20, <1>21 DEF HashInv

-----------------------------------------------------------------------------
(* The invariant holds, and the properties follow.                         *)

\* create_hashtable finds the first size above minsize, for there is one.
LEMMA FirstSize ==
    ASSUME NEW m \in MinSizes
    PROVE  (CHOOSE i \in 1..Len(Primes) : Primes[i] > m /\ \A j \in 1..(i - 1) : Primes[j] <= m)
             \in 1..Len(Primes)
<1>. DEFINE T == {i \in 1..Len(Primes) : Primes[i] > m}
<1>1. Len(Primes) \in Nat \ {0} /\ m \in Nat /\ m < Primes[Len(Primes)]
      /\ \A i \in 1..Len(Primes) : Primes[i] \in Nat
  BY PrimesAssumption
<1>2. Len(Primes) \in T /\ T \in SUBSET Nat
  BY <1>1
<1>3. \E x \in T : \A y \in T : x <= y
  <2>. HIDE DEF T
  <2>. QED  BY <1>2, LeastNatural
<1>4. PICK x \in T : \A y \in T : x <= y
  BY <1>3
<1>5. \A j \in 1..(x - 1) : Primes[j] <= m
  <2>1. \A j \in 1..(x - 1) : j \in 1..Len(Primes) /\ j \notin T
    BY <1>1, <1>4
  <2>. QED  BY <2>1, <1>1
<1>. QED  BY <1>4, <1>5

LEMMA InitHashInv == Init => HashInv
<1>. SUFFICES ASSUME Init
              PROVE  HashInv
  OBVIOUS
<1>1. primeindex \in 1..Len(Primes)
  BY FirstSize DEF Init
<1>2. Size \in Nat \ {0} /\ pc = "idle"
  BY <1>1, SizesArePositive DEF Init, Size
<1>3. table = [b \in 0..(Size - 1) |-> NULL] /\ newtable = <<>> /\ next \in [Keys -> Pointer]
  BY DEF Init, Empty, Pointer
<1>4. DOMAIN newtable = {} /\ \A b \in DOMAIN table : Chain(table, b) = {}
  BY <1>3, ChainOfNull DEF Chain, From
<1>5. InTable(table) = {} /\ InTable(newtable) = {} /\ Linked = {}
  BY <1>4 DEF InTable, Linked
<1>6. TypeOK
  <2>1. 0 \in 0..Cardinality(Keys)
    BY KeysAssumption, FS_CardinalityType
  <2>2. table \in [0..(Size - 1) -> Pointer]
    BY <1>3 DEF Pointer
  <2>. QED  BY <2>1, <2>2, <1>1, <1>2, <1>3 DEF Init, TypeOK, Pointer, NoIterator
<1>7. StagesInv
  BY <1>2 DEF StagesInv, Inserting
<1>8. StraightInv /\ BucketsInv
  BY <1>4, <1>5 DEF StraightInv, BucketsInv, InBucket
<1>9. EntriesInv /\ CountInv /\ IteratorInv
  BY <1>2, <1>5, FS_EmptySet DEF Init, EntriesInv, CountInv, IteratorInv, InHand, Inserting
<1>. QED  BY <1>6, <1>7, <1>8, <1>9 DEF HashInv

LEMMA StutterPreserves ==
    ASSUME HashInv, UNCHANGED vars
    PROVE  HashInv' /\ Linked' = Linked
<1>1. /\ hashOf' = hashOf /\ table' = table /\ primeindex' = primeindex
      /\ entrycount' = entrycount /\ entries' = entries /\ next' = next /\ val' = val
      /\ newtable' = newtable /\ pc' = pc /\ key' = key /\ arg' = arg /\ prev' = prev
      /\ itr' = itr /\ seen' = seen /\ owed' = owed
  BY DEF vars, buckets, fields, call, iterator
<1>2. From(NULL)' = From(NULL) /\ Linked' = Linked /\ Size' = Size
      /\ (\A p : From(p)' = From(p))
  BY <1>1 DEF From, Linked, InTable, Chain, Size
<1>3. TypeOK'
  BY <1>1, <1>2 DEF HashInv, TypeOK
<1>4. StagesInv'
  BY <1>1, <1>2 DEF HashInv, StagesInv, Inserting, Search, Before, Chain, Index, From
<1>5. StraightInv' /\ BucketsInv'
  BY <1>1, <1>2 DEF HashInv, StraightInv, BucketsInv, InBucket, OldSize, InTable, Chain, Index, Size
<1>6. EntriesInv' /\ CountInv'
  BY <1>1, <1>2 DEF HashInv, EntriesInv, CountInv, InHand, Inserting
<1>7. IteratorInv'
  BY <1>1, <1>2 DEF HashInv, IteratorInv, Ahead, LaterBuckets, Before, Chain, Index, From
<1>. QED  BY <1>2, <1>3, <1>4, <1>5, <1>6, <1>7 DEF HashInv

LEMMA NextHashInv == HashInv /\ [Next]_vars => HashInv'
<1>. SUFFICES ASSUME HashInv, [Next]_vars
              PROVE  HashInv'
  OBVIOUS
<1>1. CASE \E k \in Keys, v \in Values : Insert(k, v) \/ Change(k, v)
  BY <1>1, InsertPreserves, ChangePreserves
<1>2. CASE Expand
  BY <1>2, ExpandAllocPreserves, ExpandFailsPreserves, RehashPreserves, RehashDonePreserves
     DEF Expand
<1>3. CASE Alloc \/ AllocFails \/ Link
  BY <1>3, AllocPreserves, AllocFailsPreserves, LinkPreserves
<1>4. CASE \E k \in Keys : RemoveFind(k)
  BY <1>4, RemoveFindPreserves
<1>5. CASE RemoveUnlink \/ RemoveFree \/ Destroy
  BY <1>5, RemoveUnlinkPreserves, RemoveFreePreserves, DestroyPreserves
<1>6. CASE Iterate
  BY <1>6, IteratorPreserves, IteratorAdvancePreserves, IteratorRemovePreserves,
     IteratorFreePreserves, IteratorSearchPreserves DEF Iterate
<1>7. CASE Done \/ UNCHANGED vars
  BY <1>7, StutterPreserves DEF Done
<1>. QED  BY <1>1, <1>2, <1>3, <1>4, <1>5, <1>6, <1>7 DEF Next

\* The inductive invariant of the table holds in every state.
THEOREM HashInvariant == Spec => []HashInv
<1>. QED  BY InitHashInv, NextHashInv, PTL DEF Spec

\* Every variable has its type in every state.
THEOREM HashTypeCorrect == Spec => []TypeOK
<1>1. HashInv => TypeOK
  BY DEF HashInv
<1>. QED  BY <1>1, HashInvariant, PTL

\* The chains are sound: each entry hangs where a search looks for it, in one
\* chain only, no pointer dangles, no entry is lost and the count is exact.
THEOREM HashChainsSound == Spec => []ChainsSound
<1>. SUFFICES ASSUME HashInv
              PROVE  ChainsSound
  BY HashInvariant, PTL
<1>1. EntriesInTheirBuckets
  <2>1. CASE pc = "destroyed"
    BY <2>1, TableTyped DEF EntriesInTheirBuckets, InBucket
  <2>2. CASE pc # "destroyed"
    <3>1. OldSize \in Nat \ {0} /\ DOMAIN table = 0..(OldSize - 1)
      BY <2>2, TableTyped
    <3>2. Cardinality(0..(OldSize - 1)) = OldSize
      BY <3>1, FS_Interval
    <3>. QED  BY <3>1, <3>2 DEF EntriesInTheirBuckets, HashInv, BucketsInv
  <2>. QED  BY <2>1, <2>2
<1>2. NoDanglingPointer
  <2>. SUFFICES ASSUME pc \notin {"destroyed", "crashed"}
                PROVE  /\ entries = InTable(table) \union InTable(newtable) \union InHand
                       /\ pc = "link" => next[key] \in entries \union {NULL}
                       /\ pc = "unlink" => {key, prev} \subseteq entries \union {NULL}
                       /\ pc = "iterate" => {itr.e, itr.parent} \subseteq entries \union {NULL}
    BY DEF NoDanglingPointer
  <2>1. entries = Linked \union InHand
    BY DEF HashInv, EntriesInv
  <2>2. pc = "link" => next[key] \in Linked \union {NULL}
    <3>. SUFFICES ASSUME pc = "link"
                  PROVE  next[key] \in Linked \union {NULL}
      OBVIOUS
    <3>1. key \in Keys /\ next[key] = table[Index(Size, key)]
      BY DEF HashInv, StagesInv, Inserting
    <3>2. Index(Size, key) \in DOMAIN table
      BY <3>1, SearchFinds
    <3>. QED  BY <3>1, <3>2, TableTyped, ChainsTyped, ChainClosed DEF Chain, From
  <2>3. pc = "unlink" => {key, prev} \subseteq Linked \union {NULL}
    BY SearchFinds, BeforeTyped DEF HashInv, StagesInv
  <2>4. pc = "iterate" => {itr.e, itr.parent} \subseteq Linked \union {NULL}
    <3>1. pc = "iterate" /\ itr.e # NULL => itr.e \in Linked /\ itr.parent = Before(itr.e)
      BY TableTyped, ChainsTyped DEF HashInv, IteratorInv
    <3>2. pc = "iterate" /\ itr.e = NULL => itr.parent = NULL
      BY DEF HashInv, IteratorInv
    <3>. QED  BY <3>1, <3>2, BeforeTyped
  <2>. QED  BY <2>1, <2>2, <2>3, <2>4 DEF Linked
<1>3. CountIsExact
  <2>. SUFFICES ASSUME pc \in {"idle", "iterate"}
                PROVE  entrycount = Cardinality(InTable(table))
    BY DEF CountIsExact
  <2>1. Linked = InTable(table) /\ Cardinality(Linked) \in Nat
    BY SearchFinds, CountTyped
  <2>. QED  BY <2>1 DEF HashInv, CountInv, Inserting
<1>4. AllFreed
  BY DEF AllFreed, HashInv, EntriesInv
<1>. QED  BY <1>1, <1>2, <1>3, <1>4 DEF ChainsSound

\* The iterator knows the entry before its own, and at the end of the table it
\* has reached every key it owed, whatever was removed on the way.
THEOREM HashIteratorSound == Spec => []IteratorSound
<1>. SUFFICES ASSUME HashInv
              PROVE  IteratorSound
  BY HashInvariant, PTL
<1>1. ParentIsBefore
  <2>. SUFFICES ASSUME pc = "iterate", itr.e # NULL
                PROVE  itr.index = Index(Size, itr.e) /\ itr.parent = Before(itr.e)
    BY DEF ParentIsBefore
  <2>1. itr.index \in 0..(Size - 1) /\ itr.e \in Chain(table, itr.index) /\ itr.parent = Before(itr.e)
    BY DEF HashInv, IteratorInv
  <2>. QED  BY <2>1, TableTyped DEF HashInv, BucketsInv, InBucket
<1>2. IterationIsComplete
  <2>. SUFFICES ASSUME pc = "iterate", itr.e = NULL
                PROVE  seen = owed
    BY DEF IterationIsComplete
  <2>1. itr.index >= Size /\ itr.index \in Nat /\ Size \in Nat /\ owed = seen \union Ahead(itr)
    BY TableTyped DEF HashInv, IteratorInv, TypeOK
  <2>2. (itr.index + 1)..(Size - 1) = {} /\ From(itr.e) = {}
    BY <2>1, ChainsTyped, ChainOfNull DEF From
  <2>. QED  BY <2>1, <2>2 DEF Ahead, LaterBuckets
<1>. QED  BY <1>1, <1>2 DEF IteratorSound

\* An iteration reaches no key twice.
THEOREM HashReachesOnce == Spec => ReachesOnce
<1>1. HashInv /\ [Next]_vars => [IteratorAdvance \/ IteratorRemove => itr'.e \notin seen]_vars
  BY IteratorAdvancePreserves, IteratorRemovePreserves
<1>. QED  BY <1>1, HashInvariant, PTL DEF Spec, ReachesOnce

-----------------------------------------------------------------------------
(* The table implements KeyMap.                                            *)

LEMMA BindingsAreLinked ==
    HashInv => Bindings = Linked
BY TableTyped DEF Bindings, Linked, InTable

LEMMA BindingsAreLinkedNext ==
    HashInv' => Bindings' = Linked'
<1>1. HashInv' => (Bindings = Linked)'
  BY BindingsAreLinked, PTL
<1>. QED  BY <1>1

\* A step that neither binds nor unbinds a key, nor writes the value of one,
\* leaves the map as it is.
LEMMA SameMap ==
    ASSUME HashInv, HashInv', Linked' = Linked, \A k \in Linked : val'[k] = val[k]
    PROVE  UNCHANGED [k \in Bindings |-> val[k]]
<1>1. Bindings = Linked /\ Bindings' = Linked'
  BY BindingsAreLinked, BindingsAreLinkedNext
<1>. QED  BY <1>1

LEMMA InitImplements == Init => MapImplemented!Init
<1>. SUFFICES ASSUME Init
              PROVE  [k \in Bindings |-> val[k]] = [k \in {} |-> CHOOSE v \in Values : TRUE]
  BY DEF MapImplemented!Init
<1>1. Bindings = {}
  <2>1. primeindex \in 1..Len(Primes)
    BY FirstSize DEF Init
  <2>2. next \in [Keys -> Pointer] /\ DOMAIN newtable = {} /\ \A b \in DOMAIN table : table[b] = NULL
    BY DEF Init, Empty, Pointer
  <2>3. \A b \in DOMAIN table : Chain(table, b) = {}
    BY <2>2, ChainOfNull DEF Chain, From
  <2>. QED  BY <2>2, <2>3 DEF Bindings, InTable
<1>. QED  BY <1>1

LEMMA LinkImplements ==
    ASSUME HashInv, Link
    PROVE  \E k \in Keys, v \in Values : MapImplemented!Insert(k, v)
<1>1. PICK k, v : k = key /\ v = arg
  OBVIOUS
<1>2. /\ HashInv' /\ k \in Keys \ Linked /\ Linked' = Linked \union {k} /\ val[k] = v
      /\ val' = val /\ v \in Values
  BY <1>1, LinkPreserves DEF Link, fields, HashInv, StagesInv, Inserting
<1>3. Bindings = Linked /\ Bindings' = Linked'
  BY <1>2, BindingsAreLinked, BindingsAreLinkedNext
<1>4. DOMAIN [l \in Bindings |-> val[l]] = Linked
  BY <1>3
<1>5. [l \in Bindings' |-> val'[l]]
        = [l \in Linked \union {k} |-> IF l = k THEN v ELSE [m \in Bindings |-> val[m]][l]]
  BY <1>2, <1>3
<1>6. MapImplemented!Insert(k, v)
  BY <1>2, <1>4, <1>5 DEF MapImplemented!Insert, MapImplemented!Bound
<1>. QED  BY <1>2, <1>6

\* A step that unbinds k.
LEMMA UnlinkImplements ==
    ASSUME HashInv, HashInv', NEW k \in Linked, Linked' = Linked \ {k},
           \A l \in Linked \ {k} : val'[l] = val[l]
    PROVE  k \in Keys /\ MapImplemented!Remove(k)
<1>1. Bindings = Linked /\ Bindings' = Linked \ {k}
  BY BindingsAreLinked, BindingsAreLinkedNext
<1>2. DOMAIN [l \in Bindings |-> val[l]] = Linked
  BY <1>1
<1>3. [l \in Bindings' |-> val'[l]] = [l \in Linked \ {k} |-> [m \in Bindings |-> val[m]][l]]
  BY <1>1
<1>4. k \in Keys
  BY ChainsTyped
<1>. QED  BY <1>2, <1>3, <1>4 DEF MapImplemented!Remove, MapImplemented!Unbind, MapImplemented!Bound

LEMMA ChangeImplements ==
    ASSUME HashInv, NEW k \in Keys, NEW v \in Values, Change(k, v)
    PROVE  MapImplemented!Change(k, v)
<1>1. HashInv' /\ Linked' = Linked
  BY ChangePreserves
<1>2. k \in Linked /\ val' = [val EXCEPT ![k] = v] /\ val \in [Keys -> Values \union {NULL}]
      /\ Linked \subseteq Keys
  BY SearchFinds, ChainsTyped DEF Change, HashInv, TypeOK
<1>3. Bindings = Linked /\ Bindings' = Linked
  BY <1>1, BindingsAreLinked, BindingsAreLinkedNext
<1>4. DOMAIN [l \in Bindings |-> val[l]] = Linked
  BY <1>3
<1>5. [l \in Bindings' |-> val'[l]] = [[l \in Bindings |-> val[l]] EXCEPT ![k] = v]
  BY <1>2, <1>3
<1>. QED  BY <1>2, <1>4, <1>5 DEF MapImplemented!Change, MapImplemented!Bound

LEMMA DestroyImplements ==
    ASSUME HashInv, Destroy
    PROVE  MapImplemented!Destroy
<1>1. HashInv' /\ Linked' = {}
  BY DestroyPreserves
<1>2. Bindings' = {}
  BY <1>1, BindingsAreLinkedNext
<1>3. DOMAIN [l \in Bindings |-> val[l]] = Bindings
  OBVIOUS
<1>. QED  BY <1>2, <1>3 DEF MapImplemented!Destroy, MapImplemented!Unbind, MapImplemented!Bound

\* A step inserts when it links an entry, removes when it unlinks one, changes a
\* value or destroys the table, and otherwise the map stays as it is.
LEMMA StepImplements ==
    HashInv /\ [Next]_vars => [MapImplemented!Next]_([k \in Bindings |-> val[k]])
<1>. DEFINE M == [k \in Bindings |-> val[k]]
<1>. SUFFICES ASSUME HashInv, [Next]_vars
              PROVE  MapImplemented!Next \/ UNCHANGED M
  OBVIOUS
<1>1. HashInv'
  BY NextHashInv
<1>2. ASSUME Linked' = Linked, val' = val
      PROVE  UNCHANGED M
  BY <1>1, <1>2, SameMap
<1>3. CASE \E k \in Keys, v \in Values : Insert(k, v)
  BY <1>2, <1>3, InsertPreserves DEF Insert, fields
<1>4. CASE \E k \in Keys, v \in Values : Change(k, v)
  BY <1>4, ChangeImplements DEF MapImplemented!Next
<1>5. CASE Expand
  BY <1>2, <1>5, ExpandAllocPreserves, ExpandFailsPreserves, RehashPreserves, RehashDonePreserves
     DEF Expand, ExpandAlloc, ExpandFails, ExpandRealloc, Rehash, RehashDone, fields
<1>6. CASE Alloc
  <2>1. Linked' = Linked /\ \A k \in Linked : val'[k] = val[k]
    BY <1>6, AllocPreserves, ChainsTyped DEF Alloc, HashInv, StagesInv, Inserting, TypeOK
  <2>. QED  BY <2>1, <1>1, SameMap
<1>7. CASE AllocFails
  BY <1>2, <1>7, AllocFailsPreserves DEF AllocFails, fields
<1>8. CASE Link
  BY <1>8, LinkImplements DEF MapImplemented!Next
<1>9. CASE \E k \in Keys : RemoveFind(k)
  BY <1>2, <1>9, RemoveFindPreserves DEF RemoveFind, fields
<1>10. CASE RemoveUnlink
  <2>1. PICK k : k = key
    OBVIOUS
  <2>2. k \in Linked /\ Linked' = Linked \ {k} /\ val' = val
    BY <2>1, <1>10, RemoveUnlinkPreserves DEF RemoveUnlink
  <2>3. k \in Keys /\ MapImplemented!Remove(k)
    BY <2>2, <1>1, UnlinkImplements
  <2>. QED  BY <2>3 DEF MapImplemented!Next
<1>11. CASE RemoveFree
  <2>1. Linked' = Linked /\ key \notin Linked
    BY <1>11, RemoveFreePreserves DEF RemoveFree, HashInv, StagesInv
  <2>2. \A k \in Linked : val'[k] = val[k]
    BY <2>1, <1>11, ChainsTyped DEF RemoveFree, Free
  <2>. QED  BY <2>1, <2>2, <1>1, SameMap
<1>12. CASE Destroy
  BY <1>12, DestroyImplements DEF MapImplemented!Next
<1>13. CASE Iterator \/ IteratorAdvance \/ IteratorFree \/ \E k \in Keys : IteratorSearch(k)
  BY <1>2, <1>13, IteratorPreserves, IteratorAdvancePreserves, IteratorFreePreserves,
     IteratorSearchPreserves
     DEF Iterator, IteratorAdvance, IteratorFree, IteratorSearch, fields
<1>14. CASE IteratorRemove
  <2>1. PICK k : k = itr.e
    OBVIOUS
  <2>2. k \in Linked /\ Linked' = Linked \ {k}
    BY <2>1, <1>14, IteratorRemovePreserves
  <2>3. \A l \in Linked \ {k} : val'[l] = val[l]
    BY <2>1, <1>14, ChainsTyped DEF IteratorRemove, Free
  <2>4. k \in Keys /\ MapImplemented!Remove(k)
    BY <2>2, <2>3, <1>1, UnlinkImplements
  <2>. QED  BY <2>4 DEF MapImplemented!Next
<1>15. CASE Done \/ UNCHANGED vars
  <2>1. UNCHANGED vars
    BY <1>15 DEF Done
  <2>. QED  BY <2>1, <1>2, StutterPreserves DEF vars, fields
<1>. QED  BY <1>3, <1>4, <1>5, <1>6, <1>7, <1>8, <1>9, <1>10, <1>11, <1>12, <1>13, <1>14, <1>15
          DEF Next, Iterate

\* The table implements the map: an insertion takes effect when its entry is
\* linked, a removal when it is unlinked, and growing changes nothing.
THEOREM HashImplementsMap == Spec => Implements
<1>. QED  BY InitImplements, StepImplements, HashInvariant, PTL
          DEF Spec, Implements, MapImplemented!Spec

=============================================================================
