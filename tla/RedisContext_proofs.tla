------------------------ MODULE RedisContext_proofs ------------------------
(***************************************************************************)
(* The reply under construction is sound and the commands arrive intact,   *)
(* for every stack size, every set of replies and any number of commands.  *)
(***************************************************************************)
EXTENDS RedisContext, FiniteSetTheorems, SequenceTheorems, WellFoundedInduction, TLAPS

USE DEF NULL

(***************************************************************************)
(* Natural numbers and sequences.                                          *)
(***************************************************************************)

\* A nonempty set of natural numbers has a least element.
LEMMA LeastNatural ==
    ASSUME NEW T \in SUBSET Nat, T # {}
    PROVE  \E x \in T : \A y \in T : x <= y
<1>1. PICK R : R = {p \in Nat \X Nat : p[1] < p[2]}
  OBVIOUS
<1>2. IsWellFoundedOn(R, Nat)
  BY <1>1, NatLessThanWellFounded DEF OpToRel
<1>3. PICK x \in T : \A y \in T : ~(<<y, x>> \in R)
  BY <1>2, WFMin
<1>4. \A y \in T : ~(y < x)
  BY <1>1, <1>3
<1>. QED  BY <1>4

\* A nonempty set of numbers up to n has a greatest element.
LEMMA GreatestNatural ==
    ASSUME NEW n \in Nat, NEW T \in SUBSET (0..n), T # {}
    PROVE  \E x \in T : \A y \in T : x >= y
<1>. DEFINE U == {n - x : x \in T}
<1>1. U \in SUBSET Nat /\ U # {}
  <2>1. \A x \in T : x \in 0..n
    OBVIOUS
  <2>2. \A x \in T : n - x \in Nat
    BY <2>1
  <2>. QED  BY <2>2
<1>2. \E u \in U : \A w \in U : u <= w
  <2>. HIDE DEF U
  <2>. QED  BY <1>1, LeastNatural
<1>3. PICK x \in T : \A y \in T : n - x <= n - y
  BY <1>2
<1>4. \A y \in T : y \in Int
  OBVIOUS
<1>. QED  BY <1>3, <1>4

\* Induction: a set that 0 is in and n + 1 with n has all natural numbers.
LEMMA InductionOnNat ==
    ASSUME NEW T, 0 \in T, \A n \in Nat : n \in T => n + 1 \in T
    PROVE  Nat \subseteq T
<1>. DEFINE U == Nat \ T
<1>1. CASE U # {}
  <2>1. PICK x \in U : \A y \in U : x <= y
    BY <1>1, LeastNatural
  <2>2. x # 0 /\ x - 1 \in Nat /\ x - 1 \notin U
    BY <2>1
  <2>. QED  BY <2>1, <2>2
<1>. QED  BY <1>1

\* A function on 0..n that starts with a and follows the step.
Recursion(S, a, step, n) ==
    \E g \in [0..n -> S] : g[0] = a /\ \A i \in 1..n : g[i] = step[i][g[i - 1]]

\* A value for 0 and a step define a function on 0..n.
LEMMA RecursionOnNat ==
    ASSUME NEW S, NEW a \in S, NEW step \in [Nat -> [S -> S]], NEW n \in Nat
    PROVE  Recursion(S, a, step, n)
<1>. DEFINE Def(m) == \E g \in [0..m -> S] :
                         g[0] = a /\ \A i \in 1..m : g[i] = step[i][g[i - 1]]
            T == {m \in Nat : Def(m)}
<1>1. Def(0)
  <2>1. [i \in 0..0 |-> a] \in [0..0 -> S]
    OBVIOUS
  <2>2. 0 \in 0..0 /\ 1..0 = {}
    OBVIOUS
  <2>3. [i \in 0..0 |-> a][0] = a
    BY <2>2
  <2>. QED  BY <2>1, <2>2, <2>3
<1>2. ASSUME NEW m \in Nat, Def(m)
      PROVE  Def(m + 1)
  <2>1. PICK g \in [0..m -> S] : g[0] = a /\ \A i \in 1..m : g[i] = step[i][g[i - 1]]
    BY <1>2
  <2>. DEFINE h == [i \in 0..(m + 1) |-> IF i = m + 1 THEN step[m + 1][g[m]] ELSE g[i]]
  <2>2. m + 1 \in Nat /\ g[m] \in S
    BY <2>1
  <2>3. \A i \in 0..m : h[i] = g[i] /\ g[i] \in S
    BY <2>1
  <2>4. h[m + 1] = step[m + 1][g[m]] /\ h[m + 1] \in S
    BY <2>2
  <2>5. h \in [0..(m + 1) -> S]
    BY <2>2, <2>3
  <2>6. h[0] = a
    BY <2>1, <2>3
  <2>7. ASSUME NEW i \in 1..(m + 1)
        PROVE  h[i] = step[i][h[i - 1]]
    <3>. HIDE DEF h
    <3>1. CASE i = m + 1
      BY <3>1, <2>3, <2>4
    <3>2. CASE i # m + 1
      <4>1. i \in 1..m /\ i \in 0..m /\ i - 1 \in 0..m
        BY <3>2
      <4>. QED  BY <4>1, <2>1, <2>3
    <3>. QED  BY <3>1, <3>2
  <2>. QED  BY <2>5, <2>6, <2>7
<1>3. 0 \in T /\ \A m \in Nat : m \in T => m + 1 \in T
  <2>. HIDE DEF Def
  <2>. QED  BY <1>1, <1>2
<1>4. Nat \subseteq T
  <2>. HIDE DEF T
  <2>. QED  BY <1>3, InductionOnNat
<1>. QED  BY <1>4 DEF Recursion

LEMMA SeqDomain == \A S : \A s \in Seq(S) : Len(s) \in Nat /\ DOMAIN s = 1..Len(s)
  BY LenProperties

LEMMA EmptyIsLenZero == \A S : \A s \in Seq(S) : s = <<>> <=> Len(s) = 0
  BY EmptySeq

\* The first n elements, and those that follow them.
LEMMA Prefix ==
    ASSUME NEW S, NEW s \in Seq(S), NEW n \in 0..Len(s)
    PROVE  /\ SubSeq(s, 1, n) \in Seq(S) /\ Len(SubSeq(s, 1, n)) = n
           /\ \A i \in 1..n : SubSeq(s, 1, n)[i] = s[i]
<1>1. Len(s) \in Nat /\ \A i \in 1..Len(s) : s[i] \in S
  BY SeqDomain, ElementOfSeq
<1>2. 1 \in Int /\ n \in Int /\ n >= 0 /\ n - 1 + 1 = n /\ \A i \in 1..n : s[i] \in S /\ 1 + i - 1 = i
  BY <1>1
<1>3. /\ SubSeq(s, 1, n) \in Seq(S)
      /\ Len(SubSeq(s, 1, n)) = IF 1 <= n THEN n - 1 + 1 ELSE 0
      /\ \A i \in 1 .. n - 1 + 1 : SubSeq(s, 1, n)[i] = s[1 + i - 1]
  BY <1>2, SubSeqProperties
<1>4. PICK q : q = SubSeq(s, 1, n)
  OBVIOUS
<1>. QED  BY <1>2, <1>3, <1>4

LEMMA Suffix ==
    ASSUME NEW S, NEW s \in Seq(S), NEW n \in 0..Len(s)
    PROVE  LET q == SubSeq(s, n + 1, Len(s))
           IN  /\ q \in Seq(S) /\ Len(q) = Len(s) - n
               /\ \A i \in 1 .. Len(s) - n : q[i] = s[n + i]
<1>1. Len(s) \in Nat /\ \A i \in 1..Len(s) : s[i] \in S
  BY SeqDomain, ElementOfSeq
<1>2. PICK l \in Nat : l = Len(s)
  BY <1>1
<1>3. /\ n + 1 \in Int /\ l \in Int /\ n <= l /\ l - (n + 1) + 1 = l - n
      /\ \A i \in n + 1 .. l : s[i] \in S
      /\ \A i \in 1 .. l - n : n + 1 + i - 1 = n + i
  BY <1>1, <1>2
<1>4. PICK q : q = SubSeq(s, n + 1, l)
  OBVIOUS
<1>5. /\ SubSeq(s, n + 1, l) \in Seq(S)
      /\ Len(SubSeq(s, n + 1, l)) = IF n + 1 <= l THEN l - (n + 1) + 1 ELSE 0
      /\ \A i \in 1 .. l - (n + 1) + 1 : SubSeq(s, n + 1, l)[i] = s[n + 1 + i - 1]
  BY <1>3, SubSeqProperties
<1>6. q \in Seq(S) /\ Len(q) = l - n
  BY <1>3, <1>4, <1>5
<1>7. \A i \in 1 .. l - n : q[i] = s[n + i]
  BY <1>3, <1>4, <1>5
<1>. QED  BY <1>2, <1>4, <1>6, <1>7

\* A sequence is its first n elements and those that follow them.
LEMMA Split ==
    ASSUME NEW S, NEW s \in Seq(S), NEW n \in 0..Len(s)
    PROVE  s = SubSeq(s, 1, n) \o SubSeq(s, n + 1, Len(s))
<1>1. PICK l \in Nat : l = Len(s)
  BY LenProperties
<1>2. PICK a \in Seq(S) : a = SubSeq(s, 1, n)
  BY Prefix
<1>3. PICK b \in Seq(S) : b = SubSeq(s, n + 1, Len(s))
  BY Suffix
<1>4. n \in Nat /\ n <= l
  BY <1>1
<1>5. Len(a) = n /\ \A i \in 1..n : a[i] = s[i]
  BY <1>2, Prefix
<1>6. Len(b) = l - n /\ \A i \in 1 .. l - n : b[i] = s[n + i]
  BY <1>1, <1>3, Suffix
<1>7. PICK c : c = a \o b
  OBVIOUS
<1>8. c \in Seq(S) /\ Len(c) = Len(a) + Len(b)
      /\ \A i \in 1 .. Len(a) + Len(b) : c[i] = IF i <= Len(a) THEN a[i] ELSE b[i - Len(a)]
  BY <1>7, ConcatProperties
<1>9. ASSUME NEW i \in 1..l
      PROVE  c[i] = s[i]
  <2>1. c[i] = IF i <= n THEN a[i] ELSE b[i - n]
    BY <1>4, <1>5, <1>6, <1>8
  <2>2. CASE i <= n
    BY <2>1, <2>2, <1>5
  <2>3. CASE ~(i <= n)
    <3>1. i - n \in 1 .. l - n /\ n + (i - n) = i
      BY <2>3, <1>4
    <3>. QED  BY <2>1, <2>3, <3>1, <1>6
  <2>. QED  BY <2>2, <2>3
<1>10. Len(c) = Len(s) /\ \A i \in 1..Len(c) : c[i] = s[i]
  BY <1>1, <1>4, <1>5, <1>6, <1>8, <1>9
<1>. QED  BY <1>2, <1>3, <1>7, <1>8, <1>10, SeqEqual

\* What follows the first c elements, when they are all of the first part.
LEMMA SuffixOfConcat ==
    ASSUME NEW S, NEW a \in Seq(S), NEW b \in Seq(S), NEW c \in 0..Len(a)
    PROVE  SubSeq(a \o b, c + 1, Len(a \o b)) = SubSeq(a, c + 1, Len(a)) \o b
<1>1. PICK la \in Nat : la = Len(a)
  BY LenProperties
<1>2. PICK lb \in Nat : lb = Len(b)
  BY LenProperties
<1>3. PICK p : p = a \o b
  OBVIOUS
<1>4. p \in Seq(S) /\ Len(p) = la + lb
      /\ \A i \in 1 .. la + lb : p[i] = IF i <= la THEN a[i] ELSE b[i - la]
  BY <1>1, <1>2, <1>3, ConcatProperties
<1>5. PICK q : q = SubSeq(a, c + 1, Len(a))
  OBVIOUS
<1>6. q \in Seq(S) /\ Len(q) = la - c /\ \A i \in 1 .. la - c : q[i] = a[c + i]
  BY <1>1, <1>5, Suffix
<1>7. PICK d : d = SubSeq(p, c + 1, Len(p))
  OBVIOUS
<1>8. c \in 0..Len(p) /\ c \in Nat /\ c <= la
  BY <1>1, <1>4
<1>9. d \in Seq(S) /\ Len(d) = la + lb - c /\ \A i \in 1 .. la + lb - c : d[i] = p[c + i]
  BY <1>4, <1>7, <1>8, Suffix
<1>10. PICK e : e = q \o b
  OBVIOUS
<1>11. PICK lq \in Nat : lq = la - c
  BY <1>8
<1>12. e \in Seq(S) /\ Len(e) = lq + lb
       /\ \A i \in 1 .. lq + lb : e[i] = IF i <= lq THEN q[i] ELSE b[i - lq]
  <2>1. Len(q) = lq
    BY <1>6, <1>11
  <2>2. /\ q \o b \in Seq(S) /\ Len(q \o b) = Len(q) + Len(b)
        /\ \A i \in 1 .. Len(q) + Len(b) :
             (q \o b)[i] = IF i <= Len(q) THEN q[i] ELSE b[i - Len(q)]
    BY <1>6, ConcatProperties
  <2>. QED  BY <2>1, <2>2, <1>2, <1>10
<1>13. ASSUME NEW i \in 1 .. lq + lb
       PROVE  e[i] = d[i]
  <2>1. c + i \in 1 .. la + lb /\ i \in 1 .. la + lb - c
    BY <1>8, <1>11
  <2>2. d[i] = p[c + i]
    BY <2>1, <1>9
  <2>3. p[c + i] = IF c + i <= la THEN a[c + i] ELSE b[c + i - la]
    BY <2>1, <1>4
  <2>4. CASE i <= lq
    <3>1. i \in 1 .. la - c /\ c + i <= la
      BY <2>4, <1>8, <1>11
    <3>. QED  BY <2>2, <2>3, <2>4, <3>1, <1>6, <1>12
  <2>5. CASE ~(i <= lq)
    <3>1. ~(c + i <= la) /\ i - lq = c + i - la
      BY <2>5, <1>8, <1>11
    <3>. QED  BY <2>2, <2>3, <2>5, <3>1, <1>12
  <2>. QED  BY <2>4, <2>5
<1>14. Len(e) = Len(d) /\ \A i \in 1..Len(e) : e[i] = d[i]
  BY <1>8, <1>9, <1>11, <1>12, <1>13
<1>15. e = d
  BY <1>9, <1>12, <1>14, SeqEqual
<1>. QED  BY <1>3, <1>5, <1>7, <1>10, <1>15

(***************************************************************************)
(* The reader: what its stack and its heap are between any two steps.      *)
(***************************************************************************)

Types   == {"none", "error", "status", "integer", "string", "array", "nil"}
Objects == [type : Types, str : Seq(STRING), integer : Int, element : Seq(Nat)]
Tasks   == [type : Types, elements : Int, idx : Nat, obj : Nat]

Full(h, id) == \A j \in DOMAIN h[id].element : h[id].element[j] # NULL

\* The array of task k of the stack s is built up to this element.
Built(s, k, top) == IF k + 1 = Len(s) THEN top ELSE s[k + 1].idx + 1

\* A task below the top has an array of its own, that holds the next task's item.
Held(s, h, k) ==
    /\ s[k].obj \in DOMAIN h
    /\ DOMAIN h[s[k].obj].element = 1 .. s[k].elements
    /\ s[k + 1].idx < s[k].elements
    /\ \A l \in 1 .. Len(s) - 1 : s[l].obj = s[k].obj => l = k
Under(s) == {s[k].obj : k \in 1 .. Len(s) - 1}
Tower(s, h, top) ==
    /\ \A k \in 1 .. Len(s) - 1 :
        /\ Held(s, h, k)
        /\ \A j \in 1 .. s[k].elements :
                h[s[k].obj].element[j] # NULL <=> j <= Built(s, k, top)
    /\ \A id \in DOMAIN h : id \notin Under(s) => Full(h, id)

\* Every object but the oldest is at one place, of an older one.
Owned(h) ==
    /\ \A id \in 2..Len(h) : \E i \in DOMAIN h : \E j \in DOMAIN h[i].element :
            h[i].element[j] = id
    /\ \A i \in DOMAIN h : \A j \in DOMAIN h[i].element : h[i].element[j] # NULL =>
            /\ i < h[i].element[j]
            /\ \A k \in DOMAIN h : \A l \in DOMAIN h[k].element :
                    h[k].element[l] = h[i].element[j] => k = i /\ l = j

Heaps == {h \in Seq(Objects) :
            \A i \in DOMAIN h : \A j \in DOMAIN h[i].element : h[i].element[j] \in 0..Len(h)}
Stacks == {s \in Seq(Tasks) : Len(s) <= StackSize}

\* The inductive invariant of the reader.
ReaderInv ==
    /\ rerr \in BOOLEAN
    /\ buf \in Seq(STRING) /\ pos \in 0..Len(buf)
    /\ rstack \in Stacks /\ heap \in Heaps
    /\ reply = IF heap = <<>> THEN NULL ELSE 1
    /\ rstack # <<>> => Cur.obj = NULL
    /\ Len(rstack) = 1 => heap = <<>>
    /\ rerr => rstack = <<>> /\ heap = <<>>
    /\ Tower(rstack, heap, Cur.idx)
    /\ Owned(heap)

-----------------------------------------------------------------------------
(* An object more.                                                         *)

\* g is h and a new object, which is element i of object a (of none, if h is empty).
Grown(h, g, a, i) ==
    /\ Len(g) = Len(h) + 1
    /\ h # <<>> => a \in DOMAIN h /\ i \in DOMAIN h[a].element /\ h[a].element[i] = NULL
    /\ \A id \in DOMAIN h :
        /\ DOMAIN g[id].element = DOMAIN h[id].element
        /\ \A j \in DOMAIN h[id].element :
             g[id].element[j] = IF id = a /\ j = i THEN Len(g) ELSE h[id].element[j]
    /\ \A j \in DOMAIN g[Len(g)].element : g[Len(g)].element[j] = NULL

LEMMA TaskType == Task \in Tasks /\ Task.idx = 0 /\ Task.obj = NULL
<1>1. Task = [type |-> "none", elements |-> -1, idx |-> 0, obj |-> 0]
  BY DEF Task
<1>2. "none" \in Types
  BY DEF Types
<1>3. -1 \in Int /\ 0 \in Nat
  OBVIOUS
<1>. QED  BY <1>1, <1>2, <1>3 DEF Tasks

\* The stack is empty or has a top, and below the top an object for each task.
LEMMA StackBelow ==
    ASSUME ReaderInv, rstack # <<>>
    PROVE  /\ Len(rstack) \in Nat \ {0} /\ DOMAIN rstack = 1..Len(rstack)
           /\ \A k \in 1..Len(rstack) : rstack[k] \in Tasks
           /\ Cur \in Tasks
           /\ Len(heap) \in Nat /\ DOMAIN heap = 1..Len(heap)
           /\ \A id \in DOMAIN heap : heap[id] \in Objects
           /\ IsRoot => heap = <<>>
           /\ ~IsRoot => Len(rstack) - 1 \in 1..Len(rstack)
<1>1. rstack \in Seq(Tasks) /\ heap \in Seq(Objects)
  BY DEF ReaderInv, Stacks, Heaps
<1>2. Len(rstack) \in Nat \ {0} /\ DOMAIN rstack = 1..Len(rstack)
  BY <1>1, SeqDomain, EmptyIsLenZero
<1>3. \A k \in 1..Len(rstack) : rstack[k] \in Tasks
  BY <1>1, ElementOfSeq
<1>4. Len(heap) \in Nat /\ DOMAIN heap = 1..Len(heap)
  BY <1>1, SeqDomain
<1>5. \A id \in DOMAIN heap : heap[id] \in Objects
  BY <1>1, <1>4, ElementOfSeq
<1>. QED  BY <1>2, <1>3, <1>4, <1>5 DEF Cur, IsRoot, ReaderInv

\* create...Object makes one object more, at the place of the current task.
LEMMA CreatedGrows ==
    ASSUME ReaderInv, rstack # <<>>, NEW o \in Objects,
           \A j \in DOMAIN o.element : o.element[j] = NULL
    PROVE  /\ Created(o) \in Seq(Objects)
           /\ Created(o)[Len(heap) + 1] = o
           /\ Grown(heap, Created(o), rstack[Len(rstack) - 1].obj, Cur.idx + 1)
<1>. DEFINE grown == Append(heap, o)
            m == Len(rstack)
            a == rstack[m - 1].obj
            i == Cur.idx + 1
<1>1. heap \in Seq(Objects)
  BY DEF ReaderInv, Heaps
<1>2. grown \in Seq(Objects) /\ Len(grown) = Len(heap) + 1 /\ grown[Len(heap) + 1] = o
      /\ \A id \in 1..Len(heap) : grown[id] = heap[id]
  BY <1>1, AppendProperties
<1>3. m \in Nat \ {0} /\ Cur \in Tasks /\ Len(heap) \in Nat /\ DOMAIN heap = 1..Len(heap)
  BY StackBelow
<1>4. CASE IsRoot
  <2>1. heap = <<>> /\ Len(heap) = 0
    BY <1>4, <1>1, StackBelow, EmptyIsLenZero
  <2>2. Created(o) = grown
    BY <1>4 DEF Created
  <2>. HIDE DEF grown
  <2>. QED  BY <2>1, <2>2, <1>2, <1>3 DEF Grown
<1>5. CASE ~IsRoot
  <2>1. m - 1 \in 1 .. m - 1 /\ m - 1 \in 1..m /\ m - 1 + 1 = m
    <3>1. m \in Nat \ {0} /\ m # 1
      BY <1>5, <1>3 DEF IsRoot
    <3>. HIDE DEF m
    <3>. QED  BY <3>1
  <2>2. Held(rstack, heap, m - 1) /\ rstack[m - 1] \in Tasks
    BY <2>1, StackBelow DEF ReaderInv, Tower
  <2>3. a \in 1..Len(heap) /\ heap[a] \in Objects
    BY <2>2, <1>3, StackBelow DEF Held
  <2>4. Cur.idx < rstack[m - 1].elements /\ DOMAIN heap[a].element = 1..rstack[m - 1].elements
    BY <2>1, <2>2 DEF Held, Cur
  <2>5. Cur.idx \in Nat /\ rstack[m - 1].elements \in Int
    BY <1>3, <2>2 DEF Tasks
  <2>6. i \in DOMAIN heap[a].element
    BY <2>4, <2>5
  <2>7. heap[a].element[i] = NULL
    <3>1. \A j \in 1..rstack[m - 1].elements :
             heap[a].element[j] # NULL <=> j <= Built(rstack, m - 1, Cur.idx)
      BY <2>1 DEF ReaderInv, Tower
    <3>2. Built(rstack, m - 1, Cur.idx) = Cur.idx
      BY <2>1 DEF Built
    <3>. QED  BY <3>1, <3>2, <2>4, <2>5, <2>6
  <2>8. PICK h \in Seq(Objects) : h = grown
    BY <1>2
  <2>9. Created(o) = [h EXCEPT ![a].element[i] = Len(h)]
    BY <1>5, <2>8 DEF Created
  <2>10. a \in 1..Len(h) /\ h[a] = heap[a] /\ Len(h) \in Nat /\ DOMAIN h = 1..Len(h)
    BY <2>3, <2>8, <1>2, <1>3
  <2>11. PICK e : e = [h[a] EXCEPT !.element[i] = Len(h)]
    OBVIOUS
  <2>12. h[a].element \in Seq(Nat)
    BY <2>3, <2>10 DEF Objects
  <2>13. [h[a].element EXCEPT ![i] = Len(h)] \in Seq(Nat)
    BY <2>12, <2>10, <2>6, SeqDomain, ExceptSeq
  <2>14. e \in Objects /\ e.element = [h[a].element EXCEPT ![i] = Len(h)]
    BY <2>11, <2>13, <2>10, <2>3 DEF Objects
  <2>15. Created(o) = [h EXCEPT ![a] = e]
    BY <2>9, <2>11
  <2>16. /\ Created(o) \in Seq(Objects) /\ Len(Created(o)) = Len(h)
         /\ \A j \in 1..Len(h) : Created(o)[j] = IF j = a THEN e ELSE h[j]
    BY <2>15, <2>14, <2>10, ExceptSeq
  <2>17. Created(o)[Len(heap) + 1] = o
    BY <2>16, <2>8, <1>2, <1>3, <2>3
  <2>18. \A id \in DOMAIN heap :
            /\ DOMAIN Created(o)[id].element = DOMAIN heap[id].element
            /\ \A j \in DOMAIN heap[id].element :
                 Created(o)[id].element[j] = IF id = a /\ j = i THEN Len(Created(o)) ELSE heap[id].element[j]
    <3>. TAKE id \in DOMAIN heap
    <3>1. h[id] = heap[id] /\ id \in 1..Len(h)
      BY <2>8, <1>2, <1>3
    <3>2. CASE id = a
      BY <3>2, <3>1, <2>14, <2>16, <2>6, <2>10
    <3>3. CASE id # a
      BY <3>3, <3>1, <2>16
    <3>. QED  BY <3>2, <3>3
  <2>19. Len(Created(o)) = Len(heap) + 1
    BY <2>16, <2>8, <1>2
  <2>. HIDE DEF grown
  <2>. QED  BY <2>3, <2>6, <2>7, <2>16, <2>17, <2>18, <2>19, <1>3 DEF Grown
<1>. QED  BY <1>4, <1>5

LEMMA GrownHeap ==
    ASSUME NEW h \in Heaps, NEW g \in Seq(Objects), NEW a, NEW i, Grown(h, g, a, i)
    PROVE  /\ Len(h) \in Nat /\ DOMAIN h = 1..Len(h) /\ DOMAIN g = 1 .. Len(h) + 1
           /\ Len(g) = Len(h) + 1 /\ Len(g) # 0
           /\ \A id \in DOMAIN h : \A j \in DOMAIN h[id].element : h[id].element[j] \in 0..Len(h)
           /\ g \in Heaps
<1>1. h \in Seq(Objects)
  BY DEF Heaps
<1>2. Len(h) \in Nat /\ DOMAIN h = 1..Len(h) /\ Len(g) = Len(h) + 1
  BY <1>1, SeqDomain DEF Grown
<1>3. DOMAIN g = 1 .. Len(h) + 1
  BY <1>2, SeqDomain
<1>4. \A id \in DOMAIN h : \A j \in DOMAIN h[id].element : h[id].element[j] \in 0..Len(h)
  BY DEF Heaps
<1>5. ASSUME NEW id \in DOMAIN g, NEW j \in DOMAIN g[id].element
      PROVE  g[id].element[j] \in 0..Len(g)
  <2>1. CASE id \in DOMAIN h
    BY <2>1, <1>2, <1>4 DEF Grown
  <2>2. CASE id = Len(g)
    BY <2>2, <1>2 DEF Grown
  <2>. QED  BY <2>1, <2>2, <1>2, <1>3
<1>. QED  BY <1>2, <1>3, <1>4, <1>5 DEF Heaps

LEMMA GrownOwned ==
    ASSUME NEW h \in Heaps, NEW g \in Seq(Objects), NEW a, NEW i, Grown(h, g, a, i),
           Owned(h)
    PROVE  Owned(g)
<1>. DEFINE n == Len(h)
<1>1. /\ n \in Nat /\ DOMAIN h = 1..n /\ DOMAIN g = 1 .. n + 1 /\ Len(g) = n + 1
      /\ \A id \in DOMAIN h : \A j \in DOMAIN h[id].element : h[id].element[j] \in 0..n
  BY GrownHeap
<1>2. h # <<>> <=> n # 0
  BY EmptyIsLenZero DEF Heaps
<1>3. n # 0 => a \in 1..n /\ i \in DOMAIN h[a].element /\ h[a].element[i] = NULL
  BY <1>1, <1>2 DEF Grown
<1>4. \A id \in 1..n : DOMAIN g[id].element = DOMAIN h[id].element
  BY <1>1 DEF Grown
<1>5. \A id \in 1..n : \A j \in DOMAIN h[id].element :
         g[id].element[j] = IF id = a /\ j = i THEN n + 1 ELSE h[id].element[j]
  BY <1>1 DEF Grown
<1>6. \A j \in DOMAIN g[n + 1].element : g[n + 1].element[j] = NULL
  BY <1>1 DEF Grown
<1>. HIDE DEF n
<1>7. ASSUME NEW id \in 2 .. n + 1
      PROVE  \E k \in 1 .. n + 1 : \E l \in DOMAIN g[k].element : g[k].element[l] = id
  <2>1. CASE id = n + 1
    BY <2>1, <1>1, <1>3, <1>4, <1>5
  <2>2. CASE id # n + 1
    <3>1. id \in 2..n
      BY <2>2, <1>1
    <3>2. PICK k \in 1..n : \E l \in DOMAIN h[k].element : h[k].element[l] = id
      BY <3>1, <1>1 DEF Owned, n
    <3>3. PICK l \in DOMAIN h[k].element : h[k].element[l] = id
      BY <3>2
    <3>4. ~(k = a /\ l = i)
      BY <3>1, <3>3, <1>1, <1>3
    <3>5. g[k].element[l] = id /\ l \in DOMAIN g[k].element /\ k \in 1 .. n + 1
      BY <3>3, <3>4, <1>1, <1>4, <1>5
    <3>. QED  BY <3>5
  <2>. QED  BY <2>1, <2>2
<1>8. ASSUME NEW k \in 1 .. n + 1, NEW l \in DOMAIN g[k].element, g[k].element[l] # NULL
      PROVE  /\ k \in 1..n /\ l \in DOMAIN h[k].element
             /\ \/ k = a /\ l = i /\ g[k].element[l] = n + 1
                \/ /\ ~(k = a /\ l = i) /\ g[k].element[l] = h[k].element[l]
                   /\ g[k].element[l] \in 1..n /\ k < h[k].element[l]
  <2>1. k \in 1..n
    BY <1>8, <1>6, <1>1
  <2>2. l \in DOMAIN h[k].element
    BY <2>1, <1>4
  <2>3. CASE k = a /\ l = i
    BY <2>1, <2>2, <2>3, <1>5
  <2>4. CASE ~(k = a /\ l = i)
    <3>1. g[k].element[l] = h[k].element[l] /\ h[k].element[l] \in 1..n
      BY <2>1, <2>2, <2>4, <1>5, <1>8, <1>1
    <3>2. k < h[k].element[l]
      BY <3>1, <2>1, <2>2, <1>1, <1>8 DEF Owned
    <3>. QED  BY <2>1, <2>2, <2>4, <3>1, <3>2
  <2>. QED  BY <2>3, <2>4
<1>9. ASSUME NEW k \in 1 .. n + 1, NEW l \in DOMAIN g[k].element, g[k].element[l] # NULL
      PROVE  k < g[k].element[l]
  BY <1>8, <1>9, <1>1
<1>10. ASSUME NEW k \in 1 .. n + 1, NEW l \in DOMAIN g[k].element, g[k].element[l] # NULL,
              NEW p \in 1 .. n + 1, NEW q \in DOMAIN g[p].element, g[p].element[q] = g[k].element[l]
       PROVE  p = k /\ q = l
  <2>1. g[p].element[q] # NULL
    BY <1>10
  <2>2. CASE g[k].element[l] = n + 1
    BY <2>1, <2>2, <1>8, <1>10, <1>1
  <2>3. CASE g[k].element[l] # n + 1
    <3>1. /\ k \in 1..n /\ l \in DOMAIN h[k].element /\ g[k].element[l] = h[k].element[l]
          /\ p \in 1..n /\ q \in DOMAIN h[p].element /\ g[p].element[q] = h[p].element[q]
      BY <2>1, <2>3, <1>8, <1>10
    <3>2. h[k].element[l] # NULL /\ h[p].element[q] = h[k].element[l]
      BY <3>1, <1>10
    <3>3. k \in DOMAIN h /\ p \in DOMAIN h
      BY <3>1, <1>1
    <3>4. \A r \in DOMAIN h : \A t \in DOMAIN h[r].element :
             h[r].element[t] = h[k].element[l] => r = k /\ t = l
      BY <3>1, <3>2, <3>3 DEF Owned
    <3>. QED  BY <3>1, <3>2, <3>3, <3>4
  <2>. QED  BY <2>2, <2>3
<1>. QED  BY <1>1, <1>7, <1>9, <1>10 DEF Owned

\* With an object that has no elements, the current task's item is there.
LEMMA DoneTower ==
    ASSUME ReaderInv, rstack # <<>>, NEW g \in Seq(Objects),
           Grown(heap, g, rstack[Len(rstack) - 1].obj, Cur.idx + 1),
           DOMAIN g[Len(g)].element = {}
    PROVE  Tower(rstack, g, Cur.idx + 1)
<1>. DEFINE m == Len(rstack)
            a == rstack[m - 1].obj
            n == Len(heap)
<1>1. /\ m \in Nat \ {0} /\ Cur \in Tasks /\ n \in Nat /\ DOMAIN heap = 1..n
      /\ \A k \in 1..m : rstack[k] \in Tasks
  BY StackBelow
<1>2. /\ DOMAIN g = 1 .. n + 1 /\ Len(g) = n + 1
      /\ \A id \in DOMAIN heap : \A j \in DOMAIN heap[id].element : heap[id].element[j] \in 0..n
  BY GrownHeap DEF ReaderInv
<1>3. \A id \in 1..n : DOMAIN g[id].element = DOMAIN heap[id].element
  BY <1>1 DEF Grown
<1>4. \A id \in 1..n : \A j \in DOMAIN heap[id].element :
         g[id].element[j] = IF id = a /\ j = Cur.idx + 1 THEN n + 1 ELSE heap[id].element[j]
  BY <1>1, <1>2 DEF Grown
<1>5. Tower(rstack, heap, Cur.idx)
  BY DEF ReaderInv
<1>6. ASSUME NEW k \in 1 .. m - 1
      PROVE  /\ Held(rstack, g, k)
             /\ \A j \in 1 .. rstack[k].elements :
                   g[rstack[k].obj].element[j] # NULL <=> j <= Built(rstack, k, Cur.idx + 1)
  <2>1. /\ Held(rstack, heap, k)
        /\ \A j \in 1 .. rstack[k].elements :
             heap[rstack[k].obj].element[j] # NULL <=> j <= Built(rstack, k, Cur.idx)
    BY <1>5 DEF Tower
  <2>2. rstack[k].obj \in 1..n /\ DOMAIN heap[rstack[k].obj].element = 1..rstack[k].elements
    BY <2>1, <1>1 DEF Held
  <2>3. Held(rstack, g, k)
    BY <2>1, <2>2, <1>1, <1>2, <1>3 DEF Held
  <2>4. ASSUME NEW j \in 1 .. rstack[k].elements
        PROVE  g[rstack[k].obj].element[j] # NULL <=> j <= Built(rstack, k, Cur.idx + 1)
    <3>1. Cur.idx \in Nat /\ n + 1 # NULL
      BY <1>1 DEF Tasks
    <3>2. heap[rstack[k].obj].element[j] # NULL <=> j <= Built(rstack, k, Cur.idx)
      BY <2>1
    <3>3. g[rstack[k].obj].element[j] = IF rstack[k].obj = a /\ j = Cur.idx + 1 THEN n + 1
                                        ELSE heap[rstack[k].obj].element[j]
      BY <2>2, <1>4
    <3>4. CASE k = m - 1
      <4>1. Built(rstack, k, Cur.idx) = Cur.idx /\ Built(rstack, k, Cur.idx + 1) = Cur.idx + 1
        BY <3>4, <1>1 DEF Built
      <4>2. rstack[k].obj = a /\ j \in Int
        BY <3>4
      <4>. QED  BY <3>1, <3>2, <3>3, <4>1, <4>2
    <3>5. CASE k # m - 1
      <4>1. Built(rstack, k, Cur.idx) = Built(rstack, k, Cur.idx + 1)
        BY <3>5, <1>1 DEF Built
      <4>2. k \in 1 .. m - 1 /\ m - 1 \in 1 .. m - 1
        BY <1>1
      <4>3. rstack[k].obj # a
        BY <3>5, <4>2, <1>5 DEF Tower, Held
      <4>. QED  BY <3>2, <3>3, <4>1, <4>3
    <3>. QED  BY <3>4, <3>5
  <2>. QED  BY <2>3, <2>4
<1>7. ASSUME NEW id \in DOMAIN g, id \notin Under(rstack)
      PROVE  Full(g, id)
  <2>1. CASE id = n + 1
    BY <2>1, <1>2 DEF Full
  <2>2. CASE id \in 1..n
    <3>1. Full(heap, id)
      BY <2>2, <1>7, <1>5, <1>1 DEF Tower
    <3>2. n + 1 # NULL
      BY <1>1
    <3>. QED  BY <2>2, <3>1, <3>2, <1>3, <1>4 DEF Full
  <2>. QED  BY <2>1, <2>2, <1>1, <1>2
<1>. QED  BY <1>6, <1>7 DEF Tower

\* An array with elements goes on the stack below the task of its first element.
LEMMA PushTower ==
    ASSUME ReaderInv, rstack # <<>>, NEW g \in Seq(Objects), NEW n \in Nat \ {0},
           Grown(heap, g, rstack[Len(rstack) - 1].obj, Cur.idx + 1),
           DOMAIN g[Len(g)].element = 1..n,
           Len(rstack) < StackSize
    PROVE  /\ Push(n) \in Stacks
           /\ Len(Push(n)) = Len(rstack) + 1
           /\ Push(n)[Len(Push(n))] = Task
           /\ Tower(Push(n), g, Task.idx)
<1>. DEFINE m == Len(rstack)
            a == rstack[m - 1].obj
            c == Len(heap)
<1>1. /\ m \in Nat \ {0} /\ Cur \in Tasks /\ c \in Nat /\ DOMAIN heap = 1..c
      /\ \A k \in 1..m : rstack[k] \in Tasks
  BY StackBelow
<1>2. /\ DOMAIN g = 1 .. c + 1 /\ Len(g) = c + 1
      /\ \A id \in DOMAIN heap : \A j \in DOMAIN heap[id].element : heap[id].element[j] \in 0..c
  BY GrownHeap DEF ReaderInv
<1>3. \A id \in 1..c : DOMAIN g[id].element = DOMAIN heap[id].element
  BY <1>1 DEF Grown
<1>4. \A id \in 1..c : \A j \in DOMAIN heap[id].element :
         g[id].element[j] = IF id = a /\ j = Cur.idx + 1 THEN c + 1 ELSE heap[id].element[j]
  BY <1>1, <1>2 DEF Grown
<1>5. \A j \in 1..n : g[c + 1].element[j] = NULL
  BY <1>2 DEF Grown
<1>6. Tower(rstack, heap, Cur.idx)
  BY DEF ReaderInv
<1>7. PICK top : top = [rstack[m] EXCEPT !.elements = n, !.obj = c + 1]
  OBVIOUS
<1>8. rstack \in Seq(Tasks) /\ rstack[m] \in Tasks /\ Cur = rstack[m]
  BY <1>1 DEF ReaderInv, Stacks, Cur
<1>9. top \in Tasks /\ top.elements = n /\ top.obj = c + 1 /\ top.idx = Cur.idx
  <2>1. n \in Int /\ c + 1 \in Nat
    BY <1>1
  <2>2. PICK r \in Tasks : r = rstack[m]
    BY <1>8
  <2>3. top = [r EXCEPT !.elements = n, !.obj = c + 1]
    BY <1>7, <2>2
  <2>. HIDE DEF m, c
  <2>4. top \in Tasks /\ top.elements = n /\ top.obj = c + 1 /\ top.idx = r.idx
    BY <2>1, <2>3 DEF Tasks
  <2>. QED  BY <2>2, <2>4, <1>8
<1>10. PICK s1 : s1 = [rstack EXCEPT ![m] = top]
  OBVIOUS
<1>11. m \in 1..m
  BY <1>1
<1>12. s1 \in Seq(Tasks) /\ Len(s1) = m
       /\ \A j \in 1..m : s1[j] = IF j = m THEN top ELSE rstack[j]
  BY <1>8, <1>9, <1>10, <1>11, ExceptSeq
<1>13. Task \in Tasks /\ Task.idx = 0
  BY TaskType
<1>14. Push(n) = Append(s1, Task)
  BY <1>7, <1>10 DEF Push
<1>15. PICK s : s = Push(n)
  OBVIOUS
<1>16. /\ s \in Seq(Tasks) /\ Len(s) = m + 1 /\ s[m + 1] = Task /\ s[m] = top
       /\ \A j \in 1 .. m - 1 : s[j] = rstack[j]
  <2>1. s \in Seq(Tasks) /\ Len(s) = m + 1 /\ s[m + 1] = Task /\ \A j \in 1..m : s[j] = s1[j]
    BY <1>12, <1>13, <1>14, <1>15, AppendProperties
  <2>2. m \in 1..m /\ \A j \in 1 .. m - 1 : j \in 1..m /\ j # m
    BY <1>1
  <2>. QED  BY <2>1, <2>2, <1>12
<1>. HIDE DEF m, c
<1>17. \A k \in 1 .. m - 1 :
          /\ Held(rstack, heap, k)
          /\ \A j \in 1 .. rstack[k].elements :
               heap[rstack[k].obj].element[j] # NULL <=> j <= Built(rstack, k, Cur.idx)
  BY <1>6 DEF Tower, m
<1>18. \A k \in 1 .. m - 1 : rstack[k].obj \in 1..c
  BY <1>17, <1>1 DEF Held
<1>19. ASSUME NEW k \in 1..m
       PROVE  /\ Held(s, g, k)
              /\ \A j \in 1 .. s[k].elements :
                   g[s[k].obj].element[j] # NULL <=> j <= Built(s, k, Task.idx)
  <2>1. CASE k = m
    <3>1. s[k] = top /\ s[k + 1] = Task
      BY <2>1, <1>16
    <3>2. \A l \in 1..m : s[l].obj = c + 1 => l = m
      BY <1>16, <1>18, <1>1
    <3>3. Held(s, g, k)
      <4>1. s[k].obj \in DOMAIN g /\ DOMAIN g[s[k].obj].element = 1..s[k].elements
        BY <3>1, <1>9, <1>2, <1>1
      <4>2. s[k + 1].idx < s[k].elements
        BY <3>1, <1>9, <1>13
      <4>3. \A l \in 1 .. Len(s) - 1 : s[l].obj = s[k].obj => l = k
        BY <3>1, <3>2, <1>9, <1>16, <1>1, <2>1
      <4>. QED  BY <4>1, <4>2, <4>3 DEF Held
    <3>4. Built(s, k, Task.idx) = 0
      BY <2>1, <1>16, <1>13, <1>1 DEF Built
    <3>5. \A j \in 1..n : ~(j <= 0)
      OBVIOUS
    <3>. QED  BY <3>1, <3>3, <3>4, <3>5, <1>5, <1>9
  <2>2. CASE k # m
    <3>1. k \in 1 .. m - 1 /\ k + 1 \in 1..m
      BY <2>2, <1>1
    <3>2. s[k] = rstack[k] /\ s[k + 1].idx = rstack[k + 1].idx
      BY <3>1, <1>16, <1>9, <1>8, <1>1
    <3>3. rstack[k].obj \in 1..c /\ Held(rstack, heap, k)
      BY <3>1, <1>17, <1>18
    <3>4. s[k].obj \in DOMAIN g /\ DOMAIN g[s[k].obj].element = 1..s[k].elements
      BY <3>2, <3>3, <1>1, <1>2, <1>3 DEF Held
    <3>5. s[k + 1].idx < s[k].elements
      BY <3>2, <3>3 DEF Held
    <3>6. \A l \in 1 .. m - 1 : rstack[l].obj = rstack[k].obj => l = k
      BY <3>3 DEF Held, m
    <3>7. ASSUME NEW l \in 1..m, s[l].obj = s[k].obj
          PROVE  l = k
      <4>1. CASE l = m
        BY <4>1, <3>7, <3>2, <3>3, <1>16, <1>9, <1>1
      <4>2. CASE l # m
        BY <4>2, <3>7, <3>2, <3>6, <1>16, <1>1
      <4>. QED  BY <4>1, <4>2
    <3>8. Held(s, g, k)
      <4>1. Len(s) - 1 = m
        BY <1>16, <1>1
      <4>. QED  BY <3>4, <3>5, <3>7, <4>1 DEF Held
    <3>9. ASSUME NEW j \in 1 .. s[k].elements
          PROVE  g[s[k].obj].element[j] # NULL <=> j <= Built(s, k, Task.idx)
      <4>1. g[s[k].obj].element[j] = IF rstack[k].obj = a /\ j = Cur.idx + 1 THEN c + 1
                                     ELSE heap[rstack[k].obj].element[j]
        <5>1. j \in DOMAIN heap[rstack[k].obj].element
          BY <3>2, <3>3 DEF Held
        <5>. QED  BY <5>1, <3>2, <3>3, <1>4
      <4>2. Built(s, k, Task.idx) = rstack[k + 1].idx + 1
        <5>1. k + 1 # Len(s)
          BY <2>2, <1>16, <1>1
        <5>. QED  BY <5>1, <3>2 DEF Built
      <4>3. heap[rstack[k].obj].element[j] # NULL <=> j <= Built(rstack, k, Cur.idx)
        BY <3>1, <3>2, <1>17
      <4>4. c + 1 # NULL
        BY <1>1
      <4>5. CASE k = m - 1
        <5>1. rstack[k].obj = a /\ Built(rstack, k, Cur.idx) = Cur.idx /\ rstack[k + 1] = Cur
          BY <4>5, <1>1, <1>8 DEF Built, m
        <5>2. Cur.idx \in Nat
          BY <1>1 DEF Tasks
        <5>. QED  BY <4>1, <4>2, <4>3, <4>4, <5>1, <5>2
      <4>6. CASE k # m - 1
        <5>1. Built(rstack, k, Cur.idx) = rstack[k + 1].idx + 1
          BY <4>6, <3>1, <1>1 DEF Built, m
        <5>2. m - 1 \in 1 .. m - 1
          BY <3>1, <1>1
        <5>3. rstack[k].obj # a
          BY <5>2, <3>6, <4>6
        <5>. QED  BY <4>1, <4>2, <4>3, <5>1, <5>3
      <4>. QED  BY <4>5, <4>6
    <3>. QED  BY <3>8, <3>9
  <2>. QED  BY <2>1, <2>2
<1>20. ASSUME NEW id \in DOMAIN g, id \notin Under(s)
       PROVE  Full(g, id)
  <2>1. Len(s) - 1 = m
    BY <1>16, <1>1
  <2>2. id # c + 1 /\ id \notin Under(rstack)
    <3>1. s[m].obj \in Under(s)
      BY <2>1, <1>11 DEF Under, m
    <3>2. \A k \in 1 .. m - 1 : rstack[k].obj \in Under(s)
      <4>1. \A k \in 1 .. m - 1 : k \in 1 .. Len(s) - 1
        BY <2>1, <1>1
      <4>. QED  BY <4>1, <1>16 DEF Under
    <3>. QED  BY <3>1, <3>2, <1>16, <1>9, <1>20 DEF Under, m
  <2>3. id \in 1..c
    BY <2>2, <1>2, <1>1
  <2>4. Full(heap, id)
    BY <2>2, <2>3, <1>6, <1>1 DEF Tower
  <2>5. c + 1 # NULL
    BY <1>1
  <2>. QED  BY <2>3, <2>4, <2>5, <1>3, <1>4 DEF Full
<1>21. Tower(s, g, Task.idx)
  <2>1. 1 .. Len(s) - 1 = 1..m
    BY <1>16, <1>1
  <2>. QED  BY <2>1, <1>19, <1>20 DEF Tower
<1>22. Len(s) <= StackSize
  BY <1>16, <1>1, ReaderAssumption DEF m
<1>. QED  BY <1>15, <1>16, <1>21, <1>22 DEF Stacks, m

\* moveToNextTask leaves the arrays that are full, and they only.
LEMMA MoveTower ==
    ASSUME NEW s \in Stacks, s # <<>>, NEW h, Tower(s, h, s[Len(s)].idx + 1)
    PROVE  LET t == MoveToNextTask(s)
           IN  /\ t \in Stacks /\ Len(t) # 1
               /\ t # <<>> => t[Len(t)].obj = NULL
               /\ Tower(t, h, t[Len(t)].idx)
<1>. DEFINE m == Len(s)
            U == {k \in 2..m : s[k].idx # s[k - 1].elements - 1}
            t == MoveToNextTask(s)
<1>1. s \in Seq(Tasks) /\ m <= StackSize
  BY DEF Stacks
<1>2. m \in Nat \ {0} /\ \A k \in 1..m : s[k] \in Tasks
  BY <1>1, SeqDomain, EmptyIsLenZero, ElementOfSeq
<1>3. \A k \in 1..m : s[k].idx \in Nat /\ s[k].elements \in Int
  BY <1>2 DEF Tasks
<1>4. \A k \in 1 .. m - 1 : Built(s, k, s[m].idx + 1) = s[k + 1].idx + 1
  BY DEF Built
<1>5. \A k \in 1 .. m - 1 :
         /\ Held(s, h, k)
         /\ \A j \in 1 .. s[k].elements :
              h[s[k].obj].element[j] # NULL <=> j <= s[k + 1].idx + 1
  BY <1>4 DEF Tower
<1>6. ASSUME NEW k \in 1 .. m - 1, k + 1 \notin U
      PROVE  Full(h, s[k].obj)
  <2>1. k + 1 \in 2..m /\ k + 1 - 1 = k /\ k \in 1..m /\ k + 1 \in 1..m
    BY <1>2
  <2>2. s[k + 1].idx = s[k].elements - 1
    BY <2>1, <1>6
  <2>3. s[k + 1].idx + 1 = s[k].elements
    BY <2>1, <2>2, <1>3
  <2>4. DOMAIN h[s[k].obj].element = 1 .. s[k].elements
    BY <1>5 DEF Held
  <2>. QED  BY <2>1, <2>3, <2>4, <1>3, <1>5 DEF Full
<1>7. \A id \in DOMAIN h : id \notin Under(s) => Full(h, id)
  BY DEF Tower
<1>8. CASE U = {}
  <2>1. t = <<>>
    BY <1>8 DEF MoveToNextTask
  <2>2. t \in Seq(Tasks) /\ Len(t) = 0
    BY <2>1, EmptySeq
  <2>3. \A id \in DOMAIN h : Full(h, id)
    BY <1>6, <1>7, <1>8 DEF Under
  <2>4. 1 .. Len(t) - 1 = {}
    BY <2>2
  <2>5. Len(t) <= StackSize
    BY <2>2, ReaderAssumption
  <2>. HIDE DEF t
  <2>6. Tower(t, h, t[Len(t)].idx)
    BY <2>3, <2>4 DEF Tower
  <2>. QED  BY <2>1, <2>2, <2>5, <2>6 DEF Stacks, t
<1>9. CASE U # {}
  <2>1. PICK k \in U : \A l \in U : k >= l
    <3>1. U \in SUBSET (0..m) /\ m \in Nat
      BY <1>2
    <3>. HIDE DEF U
    <3>. QED  BY <3>1, <1>9, GreatestNatural
  <2>2. Max(U) \in U /\ \A l \in U : Max(U) >= l
    <3>. HIDE DEF U
    <3>. QED  BY <2>1 DEF Max
  <2>3. PICK n \in 2..m : n = Max(U)
    BY <2>2
  <2>4. n \in 1..m /\ n - 1 \in 1 .. m - 1 /\ n - 1 \in 1..m /\ n - 1 + 1 = n
    BY <2>3, <1>2
  <2>5. PICK task : task = [Task EXCEPT !.idx = s[n].idx + 1]
    OBVIOUS
  <2>6. task \in Tasks /\ task.idx = s[n].idx + 1 /\ task.obj = NULL
    <3>1. s[n].idx + 1 \in Nat
      BY <2>4, <1>3
    <3>. HIDE DEF m
    <3>. QED  BY <3>1, <2>5, TaskType DEF Tasks
  <2>7. t = Append(SubSeq(s, 1, n - 1), task)
    BY <1>9, <2>3, <2>5 DEF MoveToNextTask
  <2>8. /\ t \in Seq(Tasks) /\ Len(t) = n /\ t[n] = task
        /\ \A i \in 1 .. n - 1 : t[i] = s[i]
    <3>1. n - 1 \in 0..m /\ n - 1 + 1 = n
      <4>. HIDE DEF m
      <4>. QED  BY <2>3, <1>2
    <3>2. PICK q : q = SubSeq(s, 1, n - 1)
      OBVIOUS
    <3>3. q \in Seq(Tasks) /\ Len(q) = n - 1 /\ \A i \in 1 .. n - 1 : q[i] = s[i]
      BY <3>1, <3>2, <1>1, Prefix
    <3>4. t = Append(q, task)
      BY <3>2, <2>7
    <3>. HIDE DEF t
    <3>5. /\ t \in Seq(Tasks) /\ Len(t) = Len(q) + 1 /\ t[Len(q) + 1] = task
          /\ \A i \in 1..Len(q) : t[i] = q[i]
      BY <3>3, <3>4, <2>6, AppendProperties
    <3>. QED  BY <3>1, <3>3, <3>5
  <2>9. n <= StackSize /\ n # 1
    BY <2>3, <1>1, <1>2, ReaderAssumption
  <2>10. 1 .. Len(t) - 1 = 1 .. n - 1
    BY <2>8
  <2>11. s[n].idx + 1 < s[n - 1].elements
    <3>1. s[n].idx # s[n - 1].elements - 1
      BY <2>2, <2>3
    <3>2. s[n].idx < s[n - 1].elements
      BY <2>4, <1>5 DEF Held
    <3>3. s[n].idx \in Int /\ s[n - 1].elements \in Int
      BY <2>4, <1>3
    <3>. HIDE DEF m
    <3>. QED  BY <3>1, <3>2, <3>3
  <2>. HIDE DEF t
  <2>12. ASSUME NEW i \in 1 .. n - 1
         PROVE  /\ Held(t, h, i)
                /\ \A j \in 1 .. t[i].elements :
                     h[t[i].obj].element[j] # NULL <=> j <= Built(t, i, t[Len(t)].idx)
    <3>1. i \in 1 .. m - 1 /\ t[i] = s[i]
      BY <2>3, <2>8, <1>2
    <3>2. t[i + 1].idx < t[i].elements
          /\ Built(t, i, t[Len(t)].idx) = s[i + 1].idx + 1
      <4>1. CASE i = n - 1
        <5>1. t[i + 1] = task /\ t[Len(t)] = task /\ s[i + 1] = s[n] /\ i + 1 = Len(t)
          BY <4>1, <2>4, <2>8
        <5>. QED  BY <5>1, <4>1, <3>1, <2>6, <2>11 DEF Built
      <4>2. CASE i # n - 1
        <5>1. i + 1 \in 1 .. n - 1 /\ i + 1 # Len(t)
          BY <4>2, <2>3, <2>8
        <5>2. t[i + 1] = s[i + 1]
          BY <5>1, <2>8
        <5>. QED  BY <5>1, <5>2, <3>1, <1>5 DEF Built, Held
      <4>. QED  BY <4>1, <4>2
    <3>3. \A l \in 1 .. n - 1 : l \in 1 .. m - 1 /\ t[l] = s[l]
      BY <2>3, <2>8, <1>2
    <3>4. Held(t, h, i)
      BY <3>1, <3>2, <3>3, <2>10, <1>5 DEF Held
    <3>. QED  BY <3>1, <3>2, <3>4, <1>5
  <2>13. ASSUME NEW id \in DOMAIN h, id \notin Under(t)
         PROVE  Full(h, id)
    <3>1. CASE id \notin Under(s)
      BY <3>1, <1>7
    <3>2. CASE id \in Under(s)
      <4>1. PICK i \in 1 .. m - 1 : id = s[i].obj
        BY <3>2 DEF Under
      <4>2. i \notin 1 .. n - 1
        BY <4>1, <2>8, <2>10, <2>13 DEF Under
      <4>3. i + 1 \notin U
        BY <4>2, <2>2, <2>3
      <4>. QED  BY <4>1, <4>3, <1>6
    <3>. QED  BY <3>1, <3>2
  <2>14. Tower(t, h, t[Len(t)].idx)
    BY <2>10, <2>12, <2>13 DEF Tower
  <2>. QED  BY <2>6, <2>8, <2>9, <2>14 DEF Stacks, t
<1>. QED  BY <1>8, <1>9
-----------------------------------------------------------------------------
(* The bytes.                                                              *)

LEMMA DigitsAreInt == \A d \in DOMAIN Digit : Digit[d] \in Int
<1>. DEFINE ten == <<"0", "1", "2", "3", "4", "5", "6", "7", "8", "9">>
<1>1. \A i \in 1..10 : i - 1 \in 0..9 /\ ten[(i - 1) + 1] = ten[i]
  OBVIOUS
<1>2. SUFFICES ASSUME NEW d \in DOMAIN Digit PROVE Digit[d] \in Int
  OBVIOUS
<1>. HIDE DEF ten
<1>3. Digit = [x \in {ten[i] : i \in 1..10} |-> CHOOSE v \in 0..9 : ten[v + 1] = x]
  BY DEF Digit, ten
<1>4. PICK i \in 1..10 : d = ten[i]
  BY <1>3
<1>5. Digit[d] = CHOOSE v \in 0..9 : ten[v + 1] = d
  BY <1>3, <1>4
<1>6. \E v \in 0..9 : ten[v + 1] = d
  BY <1>1, <1>4
<1>7. Digit[d] \in 0..9
  BY <1>5, <1>6
<1>. QED  BY <1>7

\* The recursion of ReadLongLong, digit by digit, defines a function ...
LEMMA DigitsFunction ==
    ASSUME NEW d \in Seq(STRING), \A i \in 1..Len(d) : d[i] \in DOMAIN Digit
    PROVE  \E v : v = [i \in 0..Len(d) |->
                           IF i = 0 THEN 0 ELSE 10 * v[i - 1] + Digit[d[i]]]
<1>. DEFINE n == Len(d)
            step == [i \in Nat |-> [v \in Int |-> IF i \in 1..n THEN 10 * v + Digit[d[i]] ELSE 0]]
<1>1. n \in Nat
  BY SeqDomain
<1>2. \A i \in 1..n : Digit[d[i]] \in Int
  BY DigitsAreInt
<1>3. step \in [Nat -> [Int -> Int]]
  <2>1. ASSUME NEW i \in Nat, NEW v \in Int
        PROVE  (IF i \in 1..n THEN 10 * v + Digit[d[i]] ELSE 0) \in Int
    BY <1>2
  <2>. QED  BY <2>1
<1>4. PICK g \in [0..n -> Int] : g[0] = 0 /\ \A i \in 1..n : g[i] = step[i][g[i - 1]]
  <2>1. 0 \in Int
    OBVIOUS
  <2>. HIDE DEF step, n
  <2>2. Recursion(Int, 0, step, n)
    BY <1>1, <1>3, <2>1, RecursionOnNat
  <2>. QED  BY <2>2 DEF Recursion
<1>5. ASSUME NEW i \in 0..n
      PROVE  g[i] = IF i = 0 THEN 0 ELSE 10 * g[i - 1] + Digit[d[i]]
  <2>1. CASE i = 0
    BY <2>1, <1>4
  <2>2. CASE i # 0
    <3>1. i \in 1..n /\ i - 1 \in 0..n /\ i \in Nat
      BY <2>2, <1>1
    <3>2. g[i - 1] \in Int
      BY <3>1
    <3>3. step[i][g[i - 1]] = 10 * g[i - 1] + Digit[d[i]]
      BY <3>1, <3>2
    <3>. QED  BY <2>2, <3>1, <3>3, <1>4
  <2>. QED  BY <2>1, <2>2
<1>6. g = [i \in 0..n |-> IF i = 0 THEN 0 ELSE 10 * g[i - 1] + Digit[d[i]]]
  <2>. HIDE DEF n
  <2>. QED  BY <1>5
<1>. QED  BY <1>6

\* ... whose values are numbers.
LEMMA DigitsValue ==
    ASSUME NEW n \in Nat, NEW value, NEW e, value[0] = 0,
           \A i \in 1..n : e[i] \in Int /\ value[i] = 10 * value[i - 1] + e[i]
    PROVE  value[n] \in Int
<1>. DEFINE T == {i \in Nat : i <= n => value[i] \in Int}
<1>1. 0 \in T
  OBVIOUS
<1>2. ASSUME NEW i \in Nat, i \in T
      PROVE  i + 1 \in T
  <2>1. CASE i + 1 <= n
    <3>1. value[i] \in Int /\ i + 1 \in 1..n /\ i + 1 - 1 = i
      BY <2>1, <1>2
    <3>. QED  BY <3>1
  <2>2. CASE ~(i + 1 <= n)
    BY <2>2
  <2>. QED  BY <2>1, <2>2
<1>3. Nat \subseteq T
  <2>. HIDE DEF T
  <2>. QED  BY <1>1, <1>2, InductionOnNat
<1>. QED  BY <1>3

LEMMA ReadLongLongInt ==
    ASSUME NEW s \in Seq(STRING)
    PROVE  ReadLongLong(s) \in Int
<1>. DEFINE signed == s # <<>> /\ s[1] \in {"-", "+"}
            ends == {i \in DOMAIN s : s[i] = "CR"} \union {Len(s) + 1}
            last == Min(ends) - 1
            digits == SubSeq(s, IF signed THEN 2 ELSE 1, last)
            value[i \in 0..Len(digits)] ==
                IF i = 0 THEN 0 ELSE 10 * value[i - 1] + Digit[digits[i]]
<1>1. digits \in Seq(STRING)
  <2>1. Len(s) \in Nat /\ DOMAIN s = 1..Len(s) /\ \A i \in 1..Len(s) : s[i] \in STRING
    BY SeqDomain, ElementOfSeq
  <2>2. PICK T \in SUBSET Nat : T = ends
    <3>1. PICK n \in Nat : n = Len(s)
      BY <2>1
    <3>2. ends = {i \in 1..n : s[i] = "CR"} \union {n + 1}
      BY <2>1, <3>1
    <3>3. {i \in 1..n : s[i] = "CR"} \union {n + 1} \in SUBSET Nat
      BY <3>1
    <3>. QED  BY <3>2, <3>3
  <2>3. \A i \in T : i \in 1 .. Len(s) + 1
    BY <2>1, <2>2
  <2>4. \E x \in T : \A y \in T : x <= y
    <3>1. T # {}
      BY <2>2
    <3>. QED  BY <3>1, LeastNatural
  <2>5. Min(T) \in T
    BY <2>4 DEF Min
  <2>6. last \in 0..Len(s)
    BY <2>1, <2>2, <2>3, <2>5
  <2>7. PICK first \in {1, 2} : first = IF signed THEN 2 ELSE 1
    OBVIOUS
  <2>8. PICK l \in 0..Len(s) : l = last
    BY <2>6
  <2>9. \A i \in first..l : s[i] \in STRING
    BY <2>1
  <2>10. SubSeq(s, first, l) \in Seq(STRING)
    BY <2>9, SubSeqProperties
  <2>. QED  BY <2>7, <2>8, <2>10
<1>2. CASE \E i \in 1..Len(digits) : digits[i] \notin DOMAIN Digit
  <2>1. ReadLongLong(s) = -1
    BY <1>2 DEF ReadLongLong
  <2>2. -1 \in Int
    OBVIOUS
  <2>. QED  BY <2>1, <2>2
<1>3. CASE ~\E i \in 1..Len(digits) : digits[i] \notin DOMAIN Digit
  <2>1. PICK d \in Seq(STRING) : d = digits
    BY <1>1
  <2>2. \E v : v = [i \in 0..Len(d) |-> IF i = 0 THEN 0 ELSE 10 * v[i - 1] + Digit[d[i]]]
    <3>. HIDE DEF digits
    <3>. QED  BY <2>1, <1>3, DigitsFunction
  <2>3. value = [i \in 0..Len(d) |-> IF i = 0 THEN 0 ELSE 10 * value[i - 1] + Digit[d[i]]]
    <3>. HIDE DEF digits
    <3>. QED  BY <2>1, <2>2
  <2>4. PICK v : v = value
    OBVIOUS
  <2>5. v = [i \in 0..Len(d) |-> IF i = 0 THEN 0 ELSE 10 * v[i - 1] + Digit[d[i]]]
    <3>. HIDE DEF value
    <3>. QED  BY <2>3, <2>4
  <2>6. PICK e : e = [i \in 1..Len(d) |-> Digit[d[i]]]
    OBVIOUS
  <2>7. Len(d) \in Nat /\ \A i \in 1..Len(d) : Digit[d[i]] \in Int
    BY <2>1, <1>3, SeqDomain, DigitsAreInt
  <2>. HIDE DEF value, digits, last, ends
  <2>8. v[0] = 0 /\ \A i \in 1..Len(d) : e[i] \in Int /\ v[i] = 10 * v[i - 1] + e[i]
    <3>1. \A i \in 1..Len(d) : e[i] = Digit[d[i]]
      BY <2>6, Zenon
    <3>2. 0 \in 0..Len(d) /\ \A i \in 1..Len(d) : i \in 0..Len(d) /\ i # 0
      BY <2>7
    <3>3. v[0] = 0 /\ \A i \in 1..Len(d) : v[i] = 10 * v[i - 1] + Digit[d[i]]
      BY <2>5, <3>2, Zenon
    <3>. QED  BY <2>7, <3>1, <3>3, Zenon
  <2>9. v[Len(d)] \in Int
    BY <2>7, <2>8, DigitsValue
  <2>10. value[Len(digits)] \in Int
    BY <2>1, <2>4, <2>9
  <2>11. ReadLongLong(s) = IF signed /\ s[1] = "-" THEN -value[Len(digits)]
                            ELSE value[Len(digits)]
    BY <1>3 DEF ReadLongLong, value, digits, last, ends
  <2>. QED  BY <2>10, <2>11
<1>. QED  BY <1>2, <1>3

\* A line ends where its CR is, and an LF follows.
LEMMA LineBounds ==
    ASSUME ReaderInv, HasLine
    PROVE  /\ LineEnd \in pos + 1 .. Len(buf) - 1
           /\ LineEnd + 1 \in 0..Len(buf)
           /\ Line \in Seq(STRING)
           /\ ReadLongLong(Line) \in Int
<1>1. buf \in Seq(STRING) /\ Len(buf) \in Nat /\ pos \in 0..Len(buf)
  BY SeqDomain DEF ReaderInv
<1>2. PICK T \in SUBSET Nat : T = Newlines
  <2>1. \A i \in pos + 1 .. Len(buf) - 1 : i \in Nat
    BY <1>1
  <2>. QED  BY <2>1 DEF Newlines
<1>3. \E x \in T : \A y \in T : x <= y
  BY <1>2, LeastNatural DEF HasLine
<1>4. Min(T) \in T
  BY <1>3 DEF Min
<1>5. LineEnd \in pos + 1 .. Len(buf) - 1
  <2>1. LineEnd \in Newlines
    BY <1>2, <1>4 DEF LineEnd
  <2>. QED  BY <2>1 DEF Newlines
<1>6. \A i \in pos + 1 .. LineEnd - 1 : buf[i] \in STRING
  <2>1. \A i \in 1..Len(buf) : buf[i] \in STRING
    BY <1>1, ElementOfSeq
  <2>. QED  BY <1>1, <1>5, <2>1
<1>7. Line \in Seq(STRING)
  <2>1. pos + 1 \in Int /\ LineEnd - 1 \in Int
    BY <1>1, <1>5
  <2>. QED  BY <2>1, <1>6, SubSeqProperties DEF Line
<1>8. LineEnd + 1 \in 0..Len(buf)
  BY <1>1, <1>5
<1>. QED  BY <1>5, <1>7, <1>8, ReadLongLongInt
-----------------------------------------------------------------------------
(* The steps of the reader.                                                *)

LEMMA EmptyReader == \A x : Tower(<<>>, <<>>, x)
<1>1. Len(<<>>) = 0 /\ DOMAIN <<>> = {}
  BY EmptySeq
<1>2. 1 .. Len(<<>>) - 1 = {}
  BY <1>1
<1>. QED  BY <1>1, <1>2 DEF Tower

LEMMA EmptyHeap == Owned(<<>>) /\ <<>> \in Heaps
<1>1. Len(<<>>) = 0 /\ DOMAIN <<>> = {} /\ <<>> \in Seq(Objects)
  BY EmptySeq
<1>2. 2 .. Len(<<>>) = {}
  BY <1>1
<1>. QED  BY <1>1, <1>2 DEF Owned, Heaps

LEMMA EmptyStack == <<>> \in Stacks /\ Len(<<>>) # 1
<1>1. Len(<<>>) = 0 /\ <<>> \in Seq(Tasks)
  BY EmptySeq
<1>. QED  BY <1>1, ReaderAssumption DEF Stacks

LEMMA FreshReader ==
    ASSUME rerr \in BOOLEAN, buf = <<>>, pos = 0, rstack = <<>>, reply = NULL, heap = <<>>
    PROVE  ReaderInv
<1>1. <<>> \in Seq(STRING) /\ Len(<<>>) = 0 /\ 0 \in 0..0
  BY EmptySeq
<1>2. Tower(rstack, heap, Cur.idx)
  BY EmptyReader
<1>. QED  BY <1>1, <1>2, EmptyHeap, EmptyStack DEF ReaderInv

LEMMA ErrorKeeps ==
    ASSUME SetReaderError
    PROVE  ReaderInv'
<1>1. (rerr \in BOOLEAN /\ buf = <<>> /\ pos = 0 /\ rstack = <<>> /\ reply = NULL /\ heap = <<>>)'
  BY DEF SetReaderError
<1>2. (rerr \in BOOLEAN /\ buf = <<>> /\ pos = 0 /\ rstack = <<>> /\ reply = NULL /\ heap = <<>>)'
        => (ReaderInv)'
  BY FreshReader, PTL
<1>. QED  BY <1>1, <1>2

\* A new object is built and a fitting stack left: the reader is sound again.
LEMMA BuildKeeps ==
    ASSUME ReaderInv, rstack # <<>>, NEW o \in Objects,
           \A j \in DOMAIN o.element : o.element[j] = NULL,
           NEW next \in 0..Len(buf),
           NEW stack, stack \in Stacks, Len(stack) # 1,
           stack # <<>> => stack[Len(stack)].obj = NULL,
           Tower(stack, Created(o), stack[Len(stack)].idx),
           Build(o, next, stack)
    PROVE  ReaderInv'
<1>1. PICK g : g = Created(o)
  OBVIOUS
<1>2. heap' = g /\ pos' = next /\ rstack' = stack /\ rerr' = rerr /\ buf' = buf
      /\ reply' = IF IsRoot THEN Len(heap) + 1 ELSE reply
  BY <1>1 DEF Build
<1>3. /\ g \in Seq(Objects)
      /\ Grown(heap, g, rstack[Len(rstack) - 1].obj, Cur.idx + 1)
  BY <1>1, CreatedGrows
<1>4. heap \in Heaps /\ Owned(heap)
  BY DEF ReaderInv
<1>5. g \in Heaps /\ Owned(g) /\ Len(g) # 0
  BY <1>3, <1>4, GrownHeap, GrownOwned
<1>6. g # <<>>
  BY <1>5, EmptySeq
<1>7. reply' = 1
  <2>1. CASE IsRoot
    <3>1. heap = <<>>
      BY <2>1, StackBelow
    <3>2. Len(heap) = 0
      BY <3>1, EmptySeq
    <3>. QED  BY <2>1, <3>2, <1>2
  <2>2. CASE ~IsRoot
    <3>1. heap # <<>>
      <4>1. Len(rstack) - 1 \in 1 .. Len(rstack) - 1
        BY <2>2, StackBelow DEF IsRoot
      <4>2. rstack[Len(rstack) - 1].obj \in DOMAIN heap
        BY <4>1 DEF ReaderInv, Tower, Held
      <4>3. DOMAIN <<>> = {}
        BY EmptySeq
      <4>. QED  BY <4>2, <4>3
    <3>. QED  BY <2>2, <3>1, <1>2 DEF ReaderInv
  <2>. QED  BY <2>1, <2>2
<1>8. ~rerr /\ rerr' = rerr
  BY <1>2 DEF ReaderInv
<1>9. Cur' = stack[Len(stack)]
  BY <1>2 DEF Cur
<1>10. buf \in Seq(STRING)
  BY DEF ReaderInv
<1>. QED  BY <1>1, <1>2, <1>5, <1>6, <1>7, <1>8, <1>9, <1>10 DEF ReaderInv

\* An object without elements ends its item, and the arrays that end with it.
LEMMA DoneKeeps ==
    ASSUME ReaderInv, rstack # <<>>, NEW o \in Objects, DOMAIN o.element = {},
           NEW next \in 0..Len(buf), Done(o, next)
    PROVE  ReaderInv'
<1>1. PICK g : g = Created(o)
  OBVIOUS
<1>2. /\ g \in Seq(Objects) /\ g[Len(heap) + 1] = o /\ Len(g) = Len(heap) + 1
      /\ Grown(heap, g, rstack[Len(rstack) - 1].obj, Cur.idx + 1)
  BY <1>1, CreatedGrows DEF Grown
<1>3. Tower(rstack, g, Cur.idx + 1)
  BY <1>2, DoneTower
<1>4. rstack \in Stacks /\ Tower(rstack, g, rstack[Len(rstack)].idx + 1)
  BY <1>3 DEF ReaderInv, Cur
<1>5. PICK s : s = rstack
  OBVIOUS
<1>6. PICK t : t = MoveToNextTask(s)
  OBVIOUS
<1>7. /\ t \in Stacks /\ Len(t) # 1
      /\ t # <<>> => t[Len(t)].obj = NULL
      /\ Tower(t, g, t[Len(t)].idx)
  BY <1>4, <1>5, <1>6, MoveTower
<1>8. Build(o, next, t)
  BY <1>5, <1>6 DEF Done
<1>9. Tower(t, Created(o), t[Len(t)].idx)
  BY <1>1, <1>7
<1>. QED  BY <1>7, <1>8, <1>9, BuildKeeps

LEMMA PushKeeps ==
    ASSUME ReaderInv, rstack # <<>>, Len(rstack) < StackSize, NEW n \in Nat \ {0},
           NEW next \in 0..Len(buf),
           Build(Object("array", <<>>, 0, n), next, Push(n))
    PROVE  ReaderInv'
<1>1. PICK o : o = Object("array", <<>>, 0, n)
  OBVIOUS
<1>2. o \in Objects /\ DOMAIN o.element = 1..n /\ \A j \in 1..n : o.element[j] = NULL
  <2>1. [i \in 1..n |-> NULL] \in Seq(Nat)
    OBVIOUS
  <2>2. <<>> \in Seq(STRING) /\ "array" \in Types /\ 0 \in Int
    BY EmptySeq DEF Types
  <2>3. o = [type |-> "array", str |-> <<>>, integer |-> 0, element |-> [i \in 1..n |-> NULL]]
    BY <1>1 DEF Object
  <2>. QED  BY <2>1, <2>2, <2>3 DEF Objects
<1>3. PICK g : g = Created(o)
  OBVIOUS
<1>4. /\ g \in Seq(Objects) /\ g[Len(heap) + 1] = o /\ Len(g) = Len(heap) + 1
      /\ Grown(heap, g, rstack[Len(rstack) - 1].obj, Cur.idx + 1)
  BY <1>2, <1>3, CreatedGrows DEF Grown
<1>5. PICK t : t = Push(n)
  OBVIOUS
<1>6. /\ t \in Stacks /\ Len(t) = Len(rstack) + 1 /\ t[Len(t)] = Task
      /\ Tower(t, g, Task.idx)
  BY <1>2, <1>4, <1>5, PushTower
<1>7. Len(t) # 1
  BY <1>6, StackBelow
<1>8. Build(o, next, t) /\ Tower(t, Created(o), t[Len(t)].idx) /\ t[Len(t)].obj = NULL
  BY <1>1, <1>3, <1>5, <1>6, TaskType
<1>. QED  BY <1>2, <1>6, <1>7, <1>8, BuildKeeps

\* The type byte: nothing that the tower of arrays depends on changes.
LEMMA ReadTypeKeeps ==
    ASSUME ReaderInv, rstack # <<>>, ReadType
    PROVE  ReaderInv'
<1>. DEFINE m == Len(rstack)
<1>1. /\ m \in Nat \ {0} /\ m \in 1..m /\ Cur \in Tasks /\ rstack[m] = Cur
      /\ rstack \in Seq(Tasks) /\ m <= StackSize
  BY StackBelow DEF Cur, ReaderInv, Stacks
<1>2. PICK b : b = TypeOf[buf[pos + 1]]
  OBVIOUS
<1>3. b \in Types
  BY <1>2 DEF ReadType, TypeOf, Types
<1>4. PICK e : e = [rstack[m] EXCEPT !.type = b]
  OBVIOUS
<1>5. e \in Tasks /\ e.elements = Cur.elements /\ e.idx = Cur.idx /\ e.obj = Cur.obj
  <2>1. PICK c \in Tasks : c = rstack[m]
    BY <1>1
  <2>2. e = [c EXCEPT !.type = b]
    BY <1>4, <2>1
  <2>3. e \in Tasks /\ e.elements = c.elements /\ e.idx = c.idx /\ e.obj = c.obj
    BY <1>3, <2>2 DEF Tasks
  <2>. QED  BY <1>1, <2>1, <2>3
<1>6. PICK s : s = [rstack EXCEPT ![m] = e]
  OBVIOUS
<1>7. rstack' = s
  BY <1>2, <1>4, <1>6 DEF ReadType
<1>8. s \in Seq(Tasks) /\ Len(s) = m /\ \A j \in 1..m : s[j] = IF j = m THEN e ELSE rstack[j]
  BY <1>1, <1>5, <1>6, ExceptSeq
<1>9. \A k \in 1..m : s[k].obj = rstack[k].obj /\ s[k].idx = rstack[k].idx
                      /\ s[k].elements = rstack[k].elements
  BY <1>1, <1>5, <1>8
<1>10. Tower(rstack, heap, Cur.idx)
  BY DEF ReaderInv
<1>11. s[Len(s)].idx = Cur.idx /\ s[Len(s)].obj = Cur.obj
  BY <1>1, <1>5, <1>8
<1>12. Tower(s, heap, Cur.idx)
  <2>1. \A k \in 1 .. m - 1 : k \in 1..m /\ k + 1 \in 1..m
    BY <1>1
  <2>2. Under(s) = Under(rstack)
    <3>1. \A k \in 1 .. m - 1 : s[k].obj = rstack[k].obj
      BY <2>1, <1>9
    <3>2. Under(s) = {s[k].obj : k \in 1 .. m - 1} /\ Under(rstack) = {rstack[k].obj : k \in 1 .. m - 1}
      BY <1>8 DEF Under
    <3>. QED  BY <3>1, <3>2
  <2>3. ASSUME NEW k \in 1 .. m - 1
        PROVE  Held(s, heap, k) /\ Built(s, k, Cur.idx) = Built(rstack, k, Cur.idx)
    <3>1. Held(rstack, heap, k)
      BY <1>10 DEF Tower
    <3>2. /\ s[k].obj = rstack[k].obj /\ s[k].elements = rstack[k].elements
          /\ s[k + 1].idx = rstack[k + 1].idx
      BY <2>1, <1>9
    <3>3. \A l \in 1 .. m - 1 : s[l].obj = rstack[l].obj
      BY <2>1, <1>9
    <3>. HIDE DEF m
    <3>. QED  BY <3>1, <3>2, <3>3, <1>8 DEF Held, Built, m
  <2>4. \A k \in 1 .. m - 1 : s[k].obj = rstack[k].obj /\ s[k].elements = rstack[k].elements
    BY <2>1, <1>9
  <2>. QED  BY <2>2, <2>3, <2>4, <1>8, <1>10 DEF Tower
<1>13. Len(s) = 1 => Len(rstack) = 1
  BY <1>8
<1>14. /\ heap' = heap /\ reply' = reply /\ rerr' = rerr /\ buf' = buf
       /\ pos' = pos + 1 /\ pos < Len(buf) /\ Cur' = s[Len(s)] /\ rerr = FALSE
  BY <1>7 DEF ReadType, Cur, ReaderInv
<1>15. pos' \in 0..Len(buf)
  BY <1>14, SeqDomain DEF ReaderInv
<1>16. s \in Stacks
  BY <1>1, <1>8 DEF Stacks
<1>. QED  BY <1>7, <1>11, <1>12, <1>13, <1>14, <1>15, <1>16 DEF ReaderInv

\* What is stored in an int is a number.
LEMMA IntOfInt ==
    ASSUME NEW n \in Int
    PROVE  ToInt(n) \in Int
<1>1. CASE n \in (-IntMax - 1)..IntMax
  BY <1>1 DEF ToInt
<1>2. CASE n \notin (-IntMax - 1)..IntMax
  <2>1. PICK w \in Nat \ {0} : w = 2 * (IntMax + 1)
    BY IntAssumption
  <2>2. (n + IntMax + 1) % w \in Int
    BY <2>1, IntAssumption
  <2>. QED  BY <1>2, <2>1, <2>2, IntAssumption DEF ToInt
<1>. QED  BY <1>1, <1>2

LEMMA ItemKeeps ==
    ASSUME ReaderInv, rstack # <<>>, NEW oom \in BOOLEAN, Item(oom)
    PROVE  ReaderInv'
<1>1. Cur \in Tasks /\ Cur.type \in Types /\ Len(rstack) \in Nat /\ Len(rstack) <= StackSize
  BY StackBelow DEF Tasks, ReaderInv, Stacks
<1>2. \A t \in Types : \A str \in Seq(STRING) : \A i \in Int :
         Object(t, str, i, 0) \in Objects /\ DOMAIN Object(t, str, i, 0).element = {}
  <2>. TAKE t \in Types, str \in Seq(STRING), i \in Int
  <2>1. [j \in 1..0 |-> NULL] \in Seq(Nat) /\ DOMAIN [j \in 1..0 |-> NULL] = {}
    OBVIOUS
  <2>. QED  BY <2>1 DEF Object, Objects
<1>3. Nil \in Objects /\ DOMAIN Nil.element = {}
  <2>1. "nil" \in Types /\ <<>> \in Seq(STRING) /\ 0 \in Int
    BY EmptySeq DEF Types
  <2>. QED  BY <2>1, <1>2 DEF Nil
<1>4. ASSUME SetReaderError PROVE ReaderInv'
  BY <1>4, ErrorKeeps
<1>5. CASE ProcessLineItem(oom)
  <2>1. HasLine
    BY <1>5 DEF ProcessLineItem
  <2>2. LineEnd + 1 \in 0..Len(buf) /\ Line \in Seq(STRING) /\ ReadLongLong(Line) \in Int
    BY <2>1, LineBounds
  <2>3. CASE oom
    BY <2>3, <1>4, <1>5 DEF ProcessLineItem
  <2>4. CASE ~oom
    <3>1. PICK o : o = IF Cur.type = "integer"
                       THEN Object("integer", <<>>, ReadLongLong(Line), 0)
                       ELSE Object(Cur.type, Line, 0, 0)
      OBVIOUS
    <3>2. o \in Objects /\ DOMAIN o.element = {}
      <4>1. "integer" \in Types /\ <<>> \in Seq(STRING) /\ 0 \in Int
        BY EmptySeq DEF Types
      <4>. QED  BY <3>1, <4>1, <1>1, <1>2, <2>2
    <3>3. Done(o, LineEnd + 1)
      BY <3>1, <2>4, <1>5 DEF ProcessLineItem
    <3>. QED  BY <3>2, <3>3, <2>2, DoneKeeps
  <2>. QED  BY <2>3, <2>4
<1>6. CASE ProcessBulkItem(oom)
  <2>1. HasLine /\ HasBulk
    BY <1>6 DEF ProcessBulkItem, HasBulk
  <2>2. /\ LineEnd + 1 \in 0..Len(buf) /\ LineEnd \in pos + 1 .. Len(buf) - 1
        /\ Line \in Seq(STRING) /\ ReadLongLong(Line) \in Int
    BY <2>1, LineBounds
  <2>3. CASE oom
    BY <2>3, <1>4, <1>6 DEF ProcessBulkItem
  <2>4. CASE ~oom /\ ReadLongLong(Line) < 0
    <3>1. Done(Nil, LineEnd + 1)
      BY <2>4, <1>6 DEF ProcessBulkItem
    <3>. QED  BY <3>1, <1>3, <2>2, DoneKeeps
  <2>5. CASE ~oom /\ ~(ReadLongLong(Line) < 0)
    <3>1. buf \in Seq(STRING) /\ Len(buf) \in Nat /\ pos \in 0..Len(buf)
      BY SeqDomain DEF ReaderInv
    <3>2. BulkEnd = LineEnd + 1 + ReadLongLong(Line) + 2 /\ BulkEnd <= Len(buf)
      BY <2>1, <2>5 DEF BulkEnd, HasBulk
    <3>3. BulkEnd \in 0..Len(buf) /\ BulkEnd - 2 \in Int /\ LineEnd + 2 \in Int
          /\ \A i \in LineEnd + 2 .. BulkEnd - 2 : i \in 1..Len(buf)
      BY <3>1, <3>2, <2>2, <2>5
    <3>4. SubSeq(buf, LineEnd + 2, BulkEnd - 2) \in Seq(STRING)
      <4>1. \A i \in LineEnd + 2 .. BulkEnd - 2 : buf[i] \in STRING
        BY <3>1, <3>3, ElementOfSeq
      <4>. QED  BY <3>3, <4>1, SubSeqProperties
    <3>5. PICK o : o = Object("string", SubSeq(buf, LineEnd + 2, BulkEnd - 2), 0, 0)
      OBVIOUS
    <3>6. o \in Objects /\ DOMAIN o.element = {}
      <4>1. "string" \in Types /\ 0 \in Int
        BY DEF Types
      <4>. QED  BY <3>4, <3>5, <4>1, <1>2
    <3>7. Done(o, BulkEnd)
      BY <3>5, <2>5, <1>6 DEF ProcessBulkItem
    <3>. QED  BY <3>3, <3>6, <3>7, DoneKeeps
  <2>. QED  BY <2>3, <2>4, <2>5
<1>7. CASE ProcessMultiBulkItem(oom)
  <2>1. HasLine /\ Cur.type = "array" /\ ~TooDeep
    BY <1>7 DEF ProcessMultiBulkItem, HasCount
  <2>2. LineEnd + 1 \in 0..Len(buf) /\ Count \in Int
    BY <2>1, LineBounds DEF Count
  <2>3. Len(rstack) < StackSize
    BY <2>1, <1>1, ReaderAssumption DEF TooDeep
  <2>4. PICK n \in Int : n = ToInt(Count)
    <3>1. ToInt(Count) \in Int
      BY <2>2, IntOfInt
    <3>. QED  BY <3>1
  <2>5. CASE SetReaderError
    BY <2>5, <1>4
  <2>6. CASE Done(Nil, LineEnd + 1)
    BY <2>6, <1>3, <2>2, DoneKeeps
  <2>7. CASE n > 0 /\ Build(Object("array", <<>>, 0, n), LineEnd + 1, Push(n))
    <3>1. n \in Nat \ {0}
      BY <2>7
    <3>. QED  BY <2>7, <3>1, <2>2, <2>3, PushKeeps
  <2>8. CASE Done(Object("array", <<>>, 0, 0), LineEnd + 1)
    <3>1. PICK o : o = Object("array", <<>>, 0, 0)
      OBVIOUS
    <3>2. o \in Objects /\ DOMAIN o.element = {}
      <4>1. "array" \in Types /\ <<>> \in Seq(STRING) /\ 0 \in Int
        BY EmptySeq DEF Types
      <4>. QED  BY <3>1, <4>1, <1>2
    <3>3. Done(o, LineEnd + 1)
      BY <2>8, <3>1
    <3>. QED  BY <3>2, <3>3, <2>2, DoneKeeps
  <2>. QED  BY <1>7, <2>4, <2>5, <2>6, <2>7, <2>8 DEF ProcessMultiBulkItem
<1>. QED  BY <1>5, <1>6, <1>7 DEF Item

LEMMA StartTaskKeeps ==
    ASSUME ReaderInv, StartTask, ~rerr
    PROVE  ReaderInv'
<1>1. /\ rstack' = <<Task>> /\ rstack = <<>> /\ reply = NULL
      /\ rerr' = rerr /\ buf' = buf /\ pos' = pos /\ reply' = reply /\ heap' = heap
  BY DEF StartTask
<1>2. heap = <<>>
  BY <1>1 DEF ReaderInv
<1>3. PICK s : s = <<Task>>
  OBVIOUS
<1>4. s \in Seq(Tasks) /\ Len(s) = 1 /\ s[1] = Task
  BY <1>3, TaskType
<1>5. s \in Stacks
  BY <1>4, ReaderAssumption DEF Stacks
<1>6. Tower(s, <<>>, s[Len(s)].idx)
  <2>1. 1 .. Len(s) - 1 = {} /\ DOMAIN <<>> = {}
    BY <1>4, EmptySeq
  <2>. QED  BY <2>1 DEF Tower
<1>7. Cur' = s[Len(s)] /\ s[Len(s)].obj = NULL
  BY <1>1, <1>3, <1>4, TaskType DEF Cur
<1>. QED  BY <1>1, <1>2, <1>3, <1>5, <1>6, <1>7 DEF ReaderInv

LEMMA DiscardKeeps ==
    ASSUME buf \in Seq(STRING), pos \in 0..Len(buf), Discard
    PROVE  buf' \in Seq(STRING) /\ pos' \in 0..Len(buf')
<1>1. CASE pos >= DiscardAt
  <2>1. PICK b : b = SubSeq(buf, pos + 1, Len(buf))
    OBVIOUS
  <2>2. b \in Seq(STRING) /\ Len(b) \in Nat
    BY <2>1, Suffix, SeqDomain
  <2>. QED  BY <2>1, <2>2, <1>1 DEF Discard
<1>2. CASE ~(pos >= DiscardAt)
  BY <1>2 DEF Discard
<1>. QED  BY <1>1, <1>2

LEMMA KeepReplyKeeps ==
    ASSUME ReaderInv, KeepReply
    PROVE  ReaderInv'
<1>1. buf' \in Seq(STRING) /\ pos' \in 0..Len(buf')
  BY DiscardKeeps DEF ReaderInv, KeepReply
<1>2. rerr' = rerr /\ rstack' = rstack /\ reply' = reply /\ heap' = heap /\ Cur' = Cur
  BY DEF KeepReply, Cur
<1>. QED  BY <1>1, <1>2 DEF ReaderInv

LEMMA EmitReplyKeeps ==
    ASSUME ReaderInv, rstack = <<>>, EmitReply
    PROVE  ReaderInv'
<1>1. buf' \in Seq(STRING) /\ pos' \in 0..Len(buf')
  BY DiscardKeeps DEF ReaderInv, EmitReply
<1>2. rerr' = rerr /\ rstack' = <<>> /\ reply' = NULL /\ heap' = <<>>
  BY DEF EmitReply
<1>3. Tower(<<>>, <<>>, Cur.idx')
  BY EmptyReader
<1>. QED  BY <1>1, <1>2, <1>3, EmptyHeap, EmptyStack DEF ReaderInv

LEMMA FeedKeeps ==
    ASSUME ReaderInv, NEW bytes \in Seq(STRING), Feed(bytes)
    PROVE  ReaderInv'
<1>1. rerr' = rerr /\ pos' = pos /\ rstack' = rstack /\ reply' = reply /\ heap' = heap /\ Cur' = Cur
      /\ buf' = buf \o bytes
  BY DEF Feed, Cur
<1>2. buf \in Seq(STRING) /\ pos \in 0..Len(buf)
  BY DEF ReaderInv
<1>3. buf \o bytes \in Seq(STRING) /\ Len(buf \o bytes) = Len(buf) + Len(bytes)
      /\ Len(buf) \in Nat /\ Len(bytes) \in Nat
  BY <1>2, ConcatProperties, SeqDomain
<1>4. pos' \in 0..Len(buf')
  BY <1>1, <1>2, <1>3
<1>. QED  BY <1>1, <1>2, <1>3, <1>4 DEF ReaderInv
-----------------------------------------------------------------------------
(* What the reader promises follows from its invariant.                    *)

LEMMA ReaderTypes ==
    ASSUME ReaderInv
    PROVE  ReaderTypeOK
<1>1. heap \in Seq(Objects) /\ Len(heap) \in Nat /\ (heap # <<>> => Len(heap) # 0)
  BY SeqDomain, EmptyIsLenZero DEF ReaderInv, Heaps
<1>2. reply \in 0..Len(heap)
  BY <1>1 DEF ReaderInv
<1>. QED  BY <1>2 DEF ReaderTypeOK, ReaderInv, Stacks, Heaps

LEMMA ReaderInOrder ==
    ASSUME ReaderInv
    PROVE  BuiltInOrder
<1>. DEFINE m == Len(rstack)
<1>. SUFFICES ASSUME NEW k \in 2..m
              PROVE  LET elements == heap[rstack[k - 1].obj].element
                     IN  /\ rstack[k].idx \in 0 .. rstack[k - 1].elements - 1
                         /\ Len(elements) = rstack[k - 1].elements
                         /\ \A j \in DOMAIN elements : elements[j] # NULL <=>
                                \/ j <= rstack[k].idx
                                \/ j = rstack[k].idx + 1 /\ rstack[k].obj # NULL
  BY DEF BuiltInOrder
<1>1. rstack \in Seq(Tasks) /\ m \in Nat
  BY SeqDomain DEF ReaderInv, Stacks
<1>2. m \in Nat /\ m # 0 /\ k \in 1..m /\ k - 1 \in 1..m /\ k - 1 \in 1 .. m - 1 /\ k - 1 + 1 = k
  <2>. HIDE DEF m
  <2>. QED  BY <1>1
<1>3. PICK e : e = heap[rstack[k - 1].obj].element
  OBVIOUS
<1>4. rstack # <<>>
  BY <1>1, <1>2, EmptyIsLenZero
<1>5. rstack[k] \in Tasks /\ rstack[k - 1] \in Tasks
  BY <1>1, <1>2, ElementOfSeq
<1>6. rstack[k].idx \in Nat /\ rstack[k - 1].elements \in Int
  BY <1>5 DEF Tasks
<1>7. /\ Held(rstack, heap, k - 1)
      /\ \A j \in 1 .. rstack[k - 1].elements :
           e[j] # NULL <=> j <= Built(rstack, k - 1, Cur.idx)
  BY <1>2, <1>3 DEF ReaderInv, Tower
<1>8. DOMAIN e = 1 .. rstack[k - 1].elements /\ rstack[k - 1].obj \in DOMAIN heap
      /\ rstack[k].idx < rstack[k - 1].elements
  BY <1>2, <1>3, <1>7 DEF Held
<1>9. heap \in Seq(Objects) /\ DOMAIN heap = 1..Len(heap) /\ Len(heap) \in Nat
  BY SeqDomain DEF ReaderInv, Heaps
<1>10. e \in Seq(Nat)
  <2>1. heap[rstack[k - 1].obj] \in Objects
    BY <1>8, <1>9, ElementOfSeq
  <2>. QED  BY <2>1, <1>3 DEF Objects
<1>11. Len(e) = rstack[k - 1].elements
  <2>1. DOMAIN e = 1..Len(e) /\ Len(e) \in Nat
    BY <1>10, SeqDomain
  <2>2. rstack[k - 1].elements >= 0
    BY <1>6, <1>8
  <2>3. 1..Len(e) = 1 .. rstack[k - 1].elements
    BY <2>1, <1>8
  <2>. QED  BY <2>1, <2>2, <2>3, <1>6
<1>12. ASSUME NEW j \in DOMAIN e
       PROVE  e[j] # NULL <=> \/ j <= rstack[k].idx
                              \/ j = rstack[k].idx + 1 /\ rstack[k].obj # NULL
  <2>1. e[j] # NULL <=> j <= Built(rstack, k - 1, Cur.idx)
    BY <1>7, <1>8
  <2>2. j \in Int
    BY <1>6, <1>8
  <2>3. CASE k = m
    <3>1. Built(rstack, k - 1, Cur.idx) = rstack[k].idx /\ rstack[k].obj = NULL
      BY <2>3, <1>2, <1>4 DEF Built, Cur, ReaderInv
    <3>. QED  BY <2>1, <3>1
  <2>4. CASE k # m
    <3>1. k \in 1 .. m - 1
      <4>. HIDE DEF m
      <4>. QED  BY <2>4, <1>2
    <3>2. rstack[k].obj \in DOMAIN heap
      BY <3>1 DEF ReaderInv, Tower, Held
    <3>3. rstack[k].obj # NULL
      BY <3>2, <1>9
    <3>4. Built(rstack, k - 1, Cur.idx) = rstack[k].idx + 1
      BY <2>4, <1>2 DEF Built
    <3>. QED  BY <2>1, <2>2, <3>3, <3>4, <1>6
  <2>. QED  BY <2>3, <2>4
<1>13. rstack[k].idx \in 0 .. rstack[k - 1].elements - 1
  BY <1>6, <1>8
<1>. QED  BY <1>3, <1>11, <1>12, <1>13

LEMMA ReaderFull ==
    ASSUME ReaderInv
    PROVE  FinishedAreFull
<1>. SUFFICES ASSUME NEW id \in DOMAIN heap, \A k \in 1 .. Len(rstack) - 1 : rstack[k].obj # id
              PROVE  \A j \in DOMAIN heap[id].element : heap[id].element[j] # NULL
  BY DEF FinishedAreFull
<1>1. id \notin Under(rstack)
  BY DEF Under
<1>. QED  BY <1>1 DEF ReaderInv, Tower, Full

LEMMA ReaderOwned ==
    ASSUME ReaderInv
    PROVE  NoObjectLost
<1>1. \A p \in Places : p[1] \in DOMAIN heap /\ p[2] \in DOMAIN heap[p[1]].element /\ p = <<p[1], p[2]>>
  BY DEF Places
<1>2. \A i \in DOMAIN heap : \A j \in DOMAIN heap[i].element :
         <<i, j>> \in Places /\ At(<<i, j>>) = heap[i].element[j]
  BY DEF Places, At
<1>3. Owned(heap)
  BY DEF ReaderInv
<1>4. ASSUME NEW id \in 2..Len(heap)
      PROVE  \E p \in Places : At(p) = id
  <2>1. PICK i \in DOMAIN heap : \E j \in DOMAIN heap[i].element : heap[i].element[j] = id
    BY <1>3 DEF Owned
  <2>2. PICK j \in DOMAIN heap[i].element : heap[i].element[j] = id
    BY <2>1
  <2>. QED  BY <2>2, <1>2
<1>5. ASSUME NEW p \in Places, At(p) # NULL
      PROVE  p[1] < At(p) /\ \A q \in Places : At(q) = At(p) => q = p
  <2>1. p[1] < At(p)
    BY <1>1, <1>3, <1>5 DEF Owned, At
  <2>2. ASSUME NEW q \in Places, At(q) = At(p)
        PROVE  q = p
    <3>1. q[1] = p[1] /\ q[2] = p[2]
      BY <1>1, <1>3, <1>5, <2>2 DEF Owned, At
    <3>. QED  BY <3>1, <1>1
  <2>. QED  BY <2>1, <2>2
<1>. QED  BY <1>4, <1>5 DEF NoObjectLost, ReaderInv

LEMMA ReaderSound ==
    ASSUME ReaderInv
    PROVE  ReplySound
  BY ReaderInOrder, ReaderFull, ReaderOwned DEF ReplySound

(***************************************************************************)
(* The commands: units on their way, whole and in order.                   *)
(***************************************************************************)

UnitSet == Nat \X Nat

LEMMA UnitsAssociative == \A s, t, u \in Seq(UnitSet) : (s \o t) \o u = s \o (t \o u)
  BY ConcatAssociative

\* p is the n commands that follow the first s.
Intact(p, s, n) ==
    /\ Len(p) = CmdLen * n
    /\ \A k \in 1..n, part \in 1..CmdLen : p[CmdLen * (k - 1) + part] = <<s + k, part>>

LEMMA Products ==
    ASSUME NEW c \in Nat, NEW k \in Nat, NEW n \in Nat
    PROVE  /\ c * n \in Nat /\ c * (n + 1) = c * n + c
           /\ k <= n => c * k <= c * n
           /\ c # 0 /\ c <= c * n => n # 0
<1>1. c * n \in Nat /\ c * (n + 1) = c * n + c
  OBVIOUS
<1>2. ASSUME k <= n
      PROVE  c * k <= c * n
  <2>1. PICK d \in Nat : n = k + d
    <3>1. n - k \in Nat /\ n = k + (n - k)
      BY <1>2
    <3>. QED  BY <3>1
  <2>2. c * n = c * k + c * d /\ c * d \in Nat /\ c * k \in Nat
    BY <2>1
  <2>. QED  BY <2>2
<1>3. ASSUME c # 0, n = 0
      PROVE  ~(c <= c * n)
  <2>1. c * n = 0
    BY <1>3
  <2>. QED  BY <2>1, <1>3
<1>. QED  BY <1>1, <1>2, <1>3

LEMMA UnitsType ==
    ASSUME NEW k \in Nat
    PROVE  /\ Units(k) \in Seq(UnitSet) /\ Len(Units(k)) = CmdLen
           /\ \A i \in 1..CmdLen : Units(k)[i] = <<k, i>>
<1>1. CmdLen \in Nat
  BY ContextAssumption
<1>2. \A i \in 1..CmdLen : <<k, i>> \in UnitSet
  BY <1>1 DEF UnitSet
<1>. QED  BY <1>1, <1>2 DEF Units

\* A command is appended whole.
LEMMA IntactAppend ==
    ASSUME NEW p \in Seq(UnitSet), NEW s \in Nat, NEW n \in Nat, Intact(p, s, n)
    PROVE  Intact(p \o Units(s + n + 1), s, n + 1)
<1>. DEFINE c == CmdLen
<1>1. c \in Nat \ {0} /\ c * n \in Nat /\ c * (n + 1) = c * n + c
  BY ContextAssumption, Products
<1>2. PICK u : u = Units(s + n + 1)
  OBVIOUS
<1>3. u \in Seq(UnitSet) /\ Len(u) = c /\ \A i \in 1..c : u[i] = <<s + n + 1, i>>
  <2>1. PICK next \in Nat : next = s + n + 1
    OBVIOUS
  <2>2. u = Units(next)
    BY <1>2, <2>1
  <2>. QED  BY <2>1, <2>2, UnitsType
<1>4. PICK q : q = p \o u
  OBVIOUS
<1>5. Len(p) = c * n
  BY DEF Intact
<1>6. /\ Len(q) = c * n + c
      /\ \A i \in 1 .. c * n + c : q[i] = IF i <= c * n THEN p[i] ELSE u[i - c * n]
  <2>1. /\ Len(p \o u) = Len(p) + Len(u)
        /\ \A i \in 1 .. Len(p) + Len(u) :
             (p \o u)[i] = IF i <= Len(p) THEN p[i] ELSE u[i - Len(p)]
    BY <1>3, ConcatProperties
  <2>. HIDE DEF c
  <2>. QED  BY <2>1, <1>3, <1>4, <1>5
<1>7. ASSUME NEW k \in 1 .. n + 1, NEW part \in 1..c
      PROVE  q[c * (k - 1) + part] = <<s + k, part>>
  <2>1. CASE k = n + 1
    <3>1. k - 1 = n
      BY <2>1
    <3>2. c * (k - 1) + part = c * n + part
      BY <3>1
    <3>. HIDE DEF c
    <3>3. q[c * n + part] = u[part]
      <4>1. PICK cn \in Nat : cn = c * n
        BY <1>1
      <4>2. cn + part \in 1 .. cn + c /\ ~(cn + part <= cn) /\ cn + part - cn = part
        BY <4>1, <1>1
      <4>. QED  BY <4>1, <4>2, <1>6
    <3>. QED  BY <2>1, <3>2, <3>3, <1>3
  <2>2. CASE k # n + 1
    <3>1. k \in 1..n /\ k - 1 \in Nat /\ k - 1 + 1 = k
      BY <2>2
    <3>2. PICK j \in Nat : j = k - 1
      BY <3>1
    <3>3. j + 1 <= n /\ j + 1 = k
      BY <3>1, <3>2
    <3>4. c * j \in Nat /\ c * (j + 1) = c * j + c /\ c * (j + 1) <= c * n
      BY <3>3, <1>1, Products
    <3>. HIDE DEF c
    <3>5. PICK cj \in Nat : cj = c * j
      BY <3>4
    <3>6. PICK cn \in Nat : cn = c * n
      BY <1>1
    <3>7. cj + c <= cn
      BY <3>4, <3>5, <3>6
    <3>8. cj + part \in 1 .. cn + c /\ cj + part <= cn
      BY <3>7, <1>1
    <3>9. q[cj + part] = p[cj + part]
      BY <3>8, <3>6, <1>6
    <3>10. p[c * (k - 1) + part] = <<s + k, part>>
      BY <3>1 DEF Intact, c
    <3>. QED  BY <3>9, <3>10, <3>5, <3>2
  <2>. QED  BY <2>1, <2>2
<1>. HIDE DEF c
<1>8. Len(q) = c * (n + 1)
  BY <1>1, <1>6
<1>. QED  BY <1>2, <1>4, <1>7, <1>8 DEF Intact, c

\* The first command is taken off whole.
LEMMA IntactDrop ==
    ASSUME NEW p \in Seq(UnitSet), NEW s \in Nat, NEW n \in Nat, Intact(p, s, n + 1)
    PROVE  Intact(SubSeq(p, CmdLen + 1, Len(p)), s + 1, n)
<1>. DEFINE c == CmdLen
<1>1. c \in Nat \ {0} /\ c * n \in Nat /\ c * (n + 1) = c * n + c
  BY ContextAssumption, Products
<1>. HIDE DEF c
<1>2. Len(p) = c * n + c
  BY <1>1 DEF Intact, c
<1>3. PICK cn \in Nat : cn = c * n
  BY <1>1
<1>4. c \in 0..Len(p) /\ Len(p) - c = cn
  BY <1>1, <1>2, <1>3
<1>5. PICK q : q = SubSeq(p, c + 1, Len(p))
  OBVIOUS
<1>6. Len(q) = cn /\ \A i \in 1..cn : q[i] = p[c + i]
  BY <1>4, <1>5, Suffix
<1>7. ASSUME NEW k \in 1..n, NEW part \in 1..c
      PROVE  q[c * (k - 1) + part] = <<s + 1 + k, part>>
  <2>1. PICK j \in Nat : j = k - 1
    <3>1. k - 1 \in Nat
      OBVIOUS
    <3>. QED  BY <3>1
  <2>2. j + 1 = k /\ j + 1 <= n /\ k \in Nat /\ k + 1 \in 1 .. n + 1 /\ k + 1 - 1 = k
    BY <2>1
  <2>3. c * j \in Nat /\ c * (j + 1) = c * j + c /\ c * (j + 1) <= c * n
    BY <2>2, <1>1, Products
  <2>4. PICK cj \in Nat : cj = c * j
    BY <2>3
  <2>5. c * k = cj + c /\ cj + c <= cn
    BY <2>2, <2>3, <2>4, <1>3
  <2>6. cj + part \in 1..cn
    BY <2>5, <1>1
  <2>7. q[cj + part] = p[c + (cj + part)]
    BY <2>6, <1>6
  <2>8. c + (cj + part) = c * (k + 1 - 1) + part
    BY <2>2, <2>5, <1>1
  <2>9. p[c * (k + 1 - 1) + part] = <<s + (k + 1), part>>
    BY <2>2 DEF Intact, c
  <2>10. s + (k + 1) = s + 1 + k
    BY <2>2
  <2>. QED  BY <2>1, <2>4, <2>7, <2>8, <2>9, <2>10
<1>. QED  BY <1>3, <1>5, <1>6, <1>7 DEF Intact, c
-----------------------------------------------------------------------------
(* The context: its inductive invariant, one part each.                    *)

\* The bounds, and where a reader in error may still be met.
Bounds ==
    /\ block \in BOOLEAN /\ err \in BOOLEAN /\ closed \in BOOLEAN
    /\ rerr => err \/ pc \in Parsing
    /\ pc \in Parsing \union {"client", "write", "read", "miscounted"}
    /\ issued \in 0..MaxCommands /\ faults \in 0..MaxFaults
    /\ served \in Seq(Replies) /\ Len(served) <= issued
    /\ wire \in Seq(STRING)

\* The commands not served yet are what is buffered and on the way.
Commands ==
    /\ requests \in Seq(UnitSet) /\ obuf \in Seq(UnitSet)
    /\ Intact(requests \o obuf, Len(served), issued - Len(served))

ContextInv == ReaderInv /\ Bounds /\ Commands

Spec == Init /\ [][Next]_vars

LEMMA MayFailBound ==
    ASSUME faults \in 0..MaxFaults, NEW fails, MayFail(fails)
    PROVE  faults' \in 0..MaxFaults
  BY ContextAssumption DEF MayFail

LEMMA ReaderUnchanged ==
    ASSUME ReaderInv, UNCHANGED reader
    PROVE  ReaderInv'
  BY DEF ReaderInv, reader, Cur, Tower, Owned

LEMMA CommandsUnchanged ==
    ASSUME Commands, UNCHANGED <<requests, obuf, served, issued>>
    PROVE  Commands'
  BY DEF Commands

LEMMA ContextStart ==
    ASSUME Init
    PROVE  ContextInv
<1>1. ReaderInv
  <2>1. rerr \in BOOLEAN /\ buf = <<>> /\ pos = 0 /\ rstack = <<>> /\ reply = NULL /\ heap = <<>>
    BY DEF Init, ReaderInit
  <2>. QED  BY <2>1, FreshReader
<1>2. Bounds
  <2>1. /\ served = <<>> /\ wire = <<>> /\ issued = 0 /\ faults = 0
        /\ block \in BOOLEAN /\ err = FALSE /\ closed = FALSE /\ rerr = FALSE /\ pc = "client"
    BY DEF Init, ReaderInit
  <2>2. <<>> \in Seq(Replies) /\ <<>> \in Seq(STRING) /\ Len(<<>>) = 0
    BY EmptySeq
  <2>3. 0 \in 0..MaxCommands /\ 0 \in 0..MaxFaults
    BY ContextAssumption
  <2>4. Len(served) <= issued
    BY <2>1, <2>2
  <2>. QED  BY <2>1, <2>2, <2>3, <2>4 DEF Bounds
<1>3. Commands
  <2>1. requests = <<>> /\ obuf = <<>> /\ served = <<>> /\ issued = 0
    BY DEF Init
  <2>2. <<>> \in Seq(UnitSet) /\ Len(<<>>) = 0
    BY EmptySeq
  <2>3. <<>> \o <<>> = <<>>
    BY <2>2, ConcatEmptySeq
  <2>4. CmdLen * 0 = 0 /\ 1..0 = {} /\ 0 - 0 = 0
    BY ContextAssumption
  <2>5. Intact(<<>>, 0, 0)
    BY <2>2, <2>4 DEF Intact
  <2>. QED  BY <2>1, <2>2, <2>3, <2>4, <2>5 DEF Commands
<1>. QED  BY <1>1, <1>2, <1>3 DEF ContextInv

\* Appending puts a whole command behind the others.
LEMMA AppendKeepsCommands ==
    ASSUME Bounds, Commands,
           obuf' = obuf \o Units(issued + 1), issued' = issued + 1,
           requests' = requests, served' = served
    PROVE  Commands'
<1>1. issued \in Nat /\ Len(served) \in Nat /\ Len(served) <= issued
  BY SeqDomain, ContextAssumption DEF Bounds
<1>2. PICK k \in Nat : k = Len(served)
  BY <1>1
<1>3. PICK n \in Nat : n = issued - Len(served)
  <2>1. issued - Len(served) \in Nat
    BY <1>1
  <2>. QED  BY <2>1
<1>4. issued + 1 = k + n + 1 /\ issued + 1 - k = n + 1 /\ issued + 1 \in Nat
  BY <1>1, <1>2, <1>3
<1>5. requests \in Seq(UnitSet) /\ obuf \in Seq(UnitSet)
  BY DEF Commands
<1>6. PICK p \in Seq(UnitSet) : p = requests \o obuf
  BY <1>5, ConcatProperties
<1>7. PICK u \in Seq(UnitSet) : u = Units(issued + 1)
  BY <1>4, UnitsType
<1>8. Intact(p, k, n)
  BY <1>2, <1>3, <1>6 DEF Commands
<1>9. Intact(p \o u, k, n + 1)
  BY <1>4, <1>7, <1>8, IntactAppend
<1>10. requests' \o obuf' = p \o u /\ obuf' \in Seq(UnitSet)
  <2>1. (requests \o obuf) \o u = requests \o (obuf \o u)
    BY <1>5, UnitsAssociative, Zenon
  <2>2. obuf \o u \in Seq(UnitSet)
    BY <1>5, ConcatProperties
  <2>. QED  BY <2>1, <2>2, <1>6, <1>7
<1>11. Len(served') = k /\ issued' - k = n + 1 /\ requests' \in Seq(UnitSet)
  BY <1>2, <1>4, <1>5
<1>. QED  BY <1>9, <1>10, <1>11 DEF Commands

\* Writing moves units from the buffer to the connection.
LEMMA WriteKeepsCommands ==
    ASSUME Commands, NEW n \in 0..Len(obuf),
           requests' = requests \o SubSeq(obuf, 1, n), obuf' = Rest(n),
           UNCHANGED <<issued, served>>
    PROVE  Commands'
<1>1. requests \in Seq(UnitSet) /\ obuf \in Seq(UnitSet)
  BY DEF Commands
<1>2. PICK a \in Seq(UnitSet) : a = SubSeq(obuf, 1, n)
  BY <1>1, Prefix
<1>3. PICK b \in Seq(UnitSet) : b = SubSeq(obuf, n + 1, Len(obuf))
  BY <1>1, Suffix
<1>4. obuf = a \o b
  BY <1>1, <1>2, <1>3, Split
<1>5. requests' = requests \o a /\ obuf' = b
  BY <1>2, <1>3 DEF Rest
<1>6. requests' \o obuf' = requests \o obuf
  <2>1. (requests \o a) \o b = requests \o (a \o b)
    <3>1. PICK r \in Seq(UnitSet) : r = requests
      BY <1>1
    <3>2. (r \o a) \o b = r \o (a \o b)
      BY UnitsAssociative, Zenon
    <3>. QED  BY <3>1, <3>2
  <2>. QED  BY <2>1, <1>4, <1>5
<1>7. requests' \in Seq(UnitSet) /\ obuf' \in Seq(UnitSet)
  BY <1>1, <1>5, ConcatProperties
<1>. QED  BY <1>6, <1>7 DEF Commands

LEMMA BufferWriteKeeps ==
    ASSUME Bounds, Commands, BufferWrite, UNCHANGED <<issued, served>>
    PROVE  Commands' /\ err' \in BOOLEAN /\ faults' \in 0..MaxFaults /\ (err => err')
<1>1. faults \in 0..MaxFaults /\ err \in BOOLEAN
  BY DEF Bounds
<1>2. CASE err /\ UNCHANGED <<err, obuf, requests, faults>>
  BY <1>1, <1>2, CommandsUnchanged
<1>3. CASE /\ ~err
           /\ \E n \in 0..Len(obuf) :
                /\ n = 0 <=> obuf = <<>>
                /\ requests' = requests \o SubSeq(obuf, 1, n)
                /\ obuf' = Rest(n)
           /\ UNCHANGED <<err, faults>>
  <2>1. PICK n \in 0..Len(obuf) : requests' = requests \o SubSeq(obuf, 1, n) /\ obuf' = Rest(n)
    BY <1>3
  <2>2. Commands'
    BY <2>1, WriteKeepsCommands
  <2>. QED  BY <2>2, <1>1, <1>3
<1>4. CASE /\ ~err /\ obuf # <<>>
           /\ MayFail(~closed)
           /\ err' = TRUE
           /\ UNCHANGED <<obuf, requests>>
  <2>1. Commands'
    BY <1>4, CommandsUnchanged
  <2>2. faults' \in 0..MaxFaults
    BY <1>1, <1>4, MayFailBound
  <2>. QED  BY <2>1, <2>2, <1>4
<1>. QED  BY <1>2, <1>3, <1>4 DEF BufferWrite

\* Reading moves bytes from the connection to the reader, or fails.
LEMMA BufferReadKeeps ==
    ASSUME ReaderInv, Bounds, pc \notin Parsing, BufferRead
    PROVE  /\ ReaderInv' /\ wire' \in Seq(STRING)
           /\ err' \in BOOLEAN /\ faults' \in 0..MaxFaults /\ (rerr' => err')
<1>1. faults \in 0..MaxFaults /\ err \in BOOLEAN /\ wire \in Seq(STRING) /\ (rerr => err)
  BY DEF Bounds
<1>2. CASE err /\ UNCHANGED <<reader, err, wire, faults>>
  <2>1. ReaderInv' /\ rerr' = rerr
    BY <1>2, ReaderUnchanged DEF reader
  <2>. QED  BY <2>1, <1>1, <1>2
<1>3. CASE /\ ~err /\ wire # <<>>
           /\ \E n \in 1..Len(wire), oom \in BOOLEAN :
                /\ MayFail(oom)
                /\ wire' = SubSeq(wire, n + 1, Len(wire))
                /\ err' = oom
                /\ IF oom THEN SetReaderError ELSE Feed(SubSeq(wire, 1, n))
  <2>1. PICK n \in 1..Len(wire), oom \in BOOLEAN :
                /\ MayFail(oom)
                /\ wire' = SubSeq(wire, n + 1, Len(wire))
                /\ err' = oom
                /\ IF oom THEN SetReaderError ELSE Feed(SubSeq(wire, 1, n))
    BY <1>3
  <2>2. n \in 0..Len(wire)
    BY <1>1, SeqDomain
  <2>3. wire' \in Seq(STRING)
    BY <1>1, <2>1, <2>2, Suffix
  <2>4. faults' \in 0..MaxFaults
    BY <1>1, <2>1, MayFailBound
  <2>5. CASE oom
    BY <2>1, <2>3, <2>4, <2>5, ErrorKeeps
  <2>6. CASE ~oom
    <3>1. PICK bytes \in Seq(STRING) : bytes = SubSeq(wire, 1, n)
      BY <1>1, <2>2, Prefix
    <3>2. Feed(bytes)
      BY <2>1, <2>6, <3>1
    <3>3. ReaderInv'
      BY <3>2, FeedKeeps
    <3>4. rerr' = rerr
      BY <3>2 DEF Feed
    <3>. QED  BY <3>3, <3>4, <2>1, <2>3, <2>4, <1>1, <1>3
  <2>. QED  BY <2>5, <2>6
<1>4. CASE /\ ~err
           /\ MayFail(~(closed /\ wire = <<>>))
           /\ err' = TRUE
           /\ UNCHANGED <<reader, wire>>
  <2>1. ReaderInv'
    BY <1>4, ReaderUnchanged
  <2>2. faults' \in 0..MaxFaults
    BY <1>1, <1>4, MayFailBound
  <2>. QED  BY <2>1, <2>2, <1>1, <1>4
<1>. QED  BY <1>2, <1>3, <1>4 DEF BufferRead

\* The server takes the first command once all its units are there.
LEMMA ExecuteKeeps ==
    ASSUME Bounds, Commands, Execute
    PROVE  /\ Commands' /\ served' \in Seq(Replies) /\ Len(served') <= issued
           /\ wire' \in Seq(STRING)
<1>1. PICK r \in Replies : served' = Append(served, r) /\ wire' = wire \o r.bytes
  BY DEF Execute
<1>2. served \in Seq(Replies) /\ Len(served) \in Nat /\ Len(served) <= issued /\ issued \in Nat
  BY SeqDomain, ContextAssumption DEF Bounds
<1>3. served' \in Seq(Replies) /\ Len(served') = Len(served) + 1
  BY <1>1, <1>2, AppendProperties
<1>4. wire' \in Seq(STRING)
  BY <1>1, ContextAssumption, ConcatProperties DEF Bounds
<1>5. PICK c \in Nat \ {0} : c = CmdLen
  BY ContextAssumption
<1>6. requests \in Seq(UnitSet) /\ obuf \in Seq(UnitSet)
  BY DEF Commands
<1>7. PICK p \in Seq(UnitSet) : p = requests \o obuf
  BY <1>6, ConcatProperties
<1>8. PICK s \in Nat : s = Len(served)
  BY <1>2
<1>9. PICK w \in Nat : w = issued - Len(served)
  <2>1. issued - Len(served) \in Nat
    BY <1>2
  <2>. QED  BY <2>1
<1>10. Intact(p, s, w) /\ Len(p) = c * w
  BY <1>5, <1>7, <1>8, <1>9 DEF Commands, Intact
<1>11. PICK lr \in Nat : lr = Len(requests)
  BY <1>6, SeqDomain
<1>12. PICK lo \in Nat : lo = Len(obuf)
  BY <1>6, SeqDomain
<1>13. /\ Len(p) = lr + lo
       /\ \A i \in 1 .. lr + lo : p[i] = IF i <= lr THEN requests[i] ELSE obuf[i - lr]
  BY <1>6, <1>7, <1>11, <1>12, ConcatProperties
<1>14. c <= lr
  BY <1>5, <1>11 DEF Execute
<1>15. w # 0
  <2>1. c <= c * w
    BY <1>10, <1>13, <1>14
  <2>. QED  BY <2>1, Products
<1>16. PICK n \in Nat : w = n + 1
  <2>1. w - 1 \in Nat /\ w = w - 1 + 1
    BY <1>15
  <2>. QED  BY <2>1
<1>17. PICK q \in Seq(UnitSet) : q = SubSeq(requests, c + 1, Len(requests))
  <2>1. c \in 0..Len(requests)
    BY <1>11, <1>14
  <2>. QED  BY <2>1, <1>6, Suffix
<1>18. requests' = q
  BY <1>5, <1>17 DEF Execute
<1>19. PICK d : d = SubSeq(p, c + 1, Len(p))
  OBVIOUS
<1>20. Intact(d, s + 1, n)
  BY <1>5, <1>10, <1>16, <1>19, IntactDrop
<1>21. q \o obuf = d
  <2>1. c \in 0..Len(requests)
    BY <1>11, <1>14
  <2>. QED  BY <2>1, <1>6, <1>7, <1>17, <1>19, SuffixOfConcat
<1>22. issued' = issued /\ obuf' = obuf
  BY DEF Execute
<1>23. issued - Len(served') = n /\ Len(served') = s + 1 /\ Len(served') <= issued
  BY <1>2, <1>3, <1>8, <1>9, <1>16
<1>24. Commands'
  BY <1>6, <1>18, <1>20, <1>21, <1>22, <1>23 DEF Commands
<1>. QED  BY <1>3, <1>4, <1>23, <1>24
-----------------------------------------------------------------------------
(* One lemma for the steps that leave the reader to itself, and one step   *)
(* of the proof for each action.                                           *)

LEMMA ParseKeeps ==
    ASSUME ContextInv, Parse
    PROVE  ReaderInv' /\ faults' \in 0..MaxFaults
<1>1. ReaderInv /\ faults \in 0..MaxFaults /\ ~rerr
  BY DEF ContextInv, Bounds, Parse
<1>2. CASE StartTask /\ UNCHANGED faults
  BY <1>1, <1>2, StartTaskKeeps
<1>3. CASE rstack # <<>> /\ (ReadType \/ ReadTypeFails \/ ProcessTooDeep) /\ UNCHANGED faults
  <2>1. CASE ReadType
    BY <1>1, <1>3, <2>1, ReadTypeKeeps
  <2>2. CASE ReadTypeFails \/ ProcessTooDeep
    <3>1. SetReaderError
      BY <2>2 DEF ReadTypeFails, ProcessTooDeep
    <3>. QED  BY <1>1, <1>3, <3>1, ErrorKeeps
  <2>. QED  BY <1>3, <2>1, <2>2
<1>4. CASE rstack # <<>> /\ \E oom \in BOOLEAN : MayFail(oom) /\ Item(oom)
  <2>1. PICK oom \in BOOLEAN : MayFail(oom) /\ Item(oom)
    BY <1>4
  <2>2. ReaderInv'
    BY <1>1, <1>4, <2>1, ItemKeeps
  <2>3. faults' \in 0..MaxFaults
    BY <1>1, <2>1, MayFailBound
  <2>. QED  BY <2>2, <2>3
<1>. QED  BY <1>2, <1>3, <1>4 DEF Parse

LEMMA ContextNext ==
    ASSUME ContextInv, [Next]_vars
    PROVE  ContextInv'
<1>. USE DEF net
<1>1. ReaderInv /\ Bounds /\ Commands
  BY DEF ContextInv
<1>2. CASE AppendCommand
  <2>1. PICK oom \in BOOLEAN :
          /\ MayFail(oom)
          /\ err' = (err \/ oom)
          /\ obuf' = IF oom THEN obuf ELSE obuf \o Units(issued + 1)
          /\ issued' = IF oom THEN issued ELSE issued + 1
    BY <1>2 DEF AppendCommand
  <2>2. /\ pc = "client" /\ issued < MaxCommands
        /\ UNCHANGED <<reader, block, pc, requests, wire, closed, served, returned>>
    BY <1>2 DEF AppendCommand
  <2>3. ReaderInv' /\ rerr' = rerr
    BY <2>2, <1>1, ReaderUnchanged DEF reader
  <2>4. faults' \in 0..MaxFaults
    BY <2>1, <1>1, MayFailBound DEF Bounds
  <2>5. issued' \in 0..MaxCommands /\ Len(served') <= issued'
    <3>1. issued \in 0..MaxCommands /\ Len(served) \in Nat /\ Len(served) <= issued
      BY <1>1, SeqDomain DEF Bounds
    <3>2. Len(served') = Len(served)
      BY <2>2
    <3>. QED  BY <3>1, <3>2, <2>1, <2>2, ContextAssumption
  <2>6. Bounds'
    BY <2>1, <2>2, <2>3, <2>4, <2>5, <1>1 DEF Bounds, Parsing
  <2>7. Commands'
    <3>1. CASE oom
      BY <3>1, <2>1, <2>2, <1>1, CommandsUnchanged
    <3>2. CASE ~oom
      BY <3>2, <2>1, <2>2, <1>1, AppendKeepsCommands
    <3>. QED  BY <3>1, <3>2
  <2>. QED  BY <2>3, <2>6, <2>7 DEF ContextInv
<1>3. CASE GetReply
  <2>1. ReaderInv' /\ rerr' = rerr
    BY <1>1, <1>3, ReaderUnchanged DEF GetReply, reader
  <2>2. Bounds'
    BY <1>1, <1>3, <2>1 DEF GetReply, Bounds, Parsing
  <2>3. Commands'
    BY <1>1, <1>3, CommandsUnchanged DEF GetReply
  <2>. QED  BY <2>1, <2>2, <2>3 DEF ContextInv
<1>4. CASE ClientWrites \/ Write
  <2>1. /\ BufferWrite /\ UNCHANGED <<issued, served>> /\ UNCHANGED reader
        /\ UNCHANGED <<block, wire, closed>>
        /\ pc \notin Parsing /\ pc' \in {"client", "write", "read"}
    BY <1>4 DEF ClientWrites, Write, Parsing
  <2>2. ReaderInv' /\ rerr' = rerr
    BY <1>1, <2>1, ReaderUnchanged DEF reader
  <2>3. Commands' /\ err' \in BOOLEAN /\ faults' \in 0..MaxFaults /\ (err => err')
    BY <1>1, <2>1, BufferWriteKeeps
  <2>4. Bounds'
    BY <1>1, <2>1, <2>2, <2>3 DEF Bounds
  <2>. QED  BY <2>2, <2>3, <2>4 DEF ContextInv
<1>5. CASE ClientReads \/ Read
  <2>1. /\ BufferRead /\ UNCHANGED <<block, obuf, requests, closed, served, issued>>
        /\ pc \notin Parsing /\ pc' \in Parsing \union {"client"}
    BY <1>5 DEF ClientReads, Read, Parsing
  <2>2. /\ ReaderInv' /\ wire' \in Seq(STRING)
        /\ err' \in BOOLEAN /\ faults' \in 0..MaxFaults /\ (rerr' => err')
    BY <1>1, <2>1, BufferReadKeeps
  <2>3. Commands'
    BY <1>1, <2>1, CommandsUnchanged
  <2>4. Bounds'
    BY <1>1, <2>1, <2>2 DEF Bounds
  <2>. QED  BY <2>2, <2>3, <2>4 DEF ContextInv
<1>6. CASE Parse
  <2>1. ReaderInv' /\ faults' \in 0..MaxFaults
    BY <1>6, ParseKeeps
  <2>2. /\ pc \in Parsing
        /\ UNCHANGED <<block, pc, err, obuf, requests, wire, closed, served, issued>>
    BY <1>6 DEF Parse
  <2>3. Bounds'
    BY <1>1, <2>1, <2>2 DEF Bounds
  <2>4. Commands'
    BY <1>1, <2>2, CommandsUnchanged
  <2>. QED  BY <2>1, <2>3, <2>4 DEF ContextInv
<1>13. CASE ParseMiscounts
  <2>1. ReaderInv' /\ rerr' = rerr /\ ~rerr
    BY <1>1, <1>13, ReaderUnchanged DEF ParseMiscounts, reader
  <2>2. Bounds'
    BY <1>1, <1>13, <2>1 DEF ParseMiscounts, Bounds
  <2>3. Commands'
    BY <1>1, <1>13, CommandsUnchanged DEF ParseMiscounts
  <2>. QED  BY <2>1, <2>2, <2>3 DEF ContextInv
<1>7. CASE ReaderFails
  <2>1. ReaderInv' /\ rerr' = rerr
    BY <1>1, <1>7, ReaderUnchanged DEF ReaderFails, reader
  <2>2. Bounds'
    BY <1>1, <1>7, <2>1 DEF ReaderFails, Bounds
  <2>3. Commands'
    BY <1>1, <1>7, CommandsUnchanged DEF ReaderFails
  <2>. QED  BY <2>1, <2>2, <2>3 DEF ContextInv
<1>8. CASE ReturnReply
  <2>1. rstack = <<>> /\ reply # NULL /\ EmitReply
    BY <1>8 DEF ReturnReply
  <2>2. ReaderInv'
    BY <1>1, <2>1, EmitReplyKeeps
  <2>3. ~rerr /\ rerr' = rerr
    BY <1>1, <2>1 DEF ReaderInv, EmitReply
  <2>4. Bounds'
    BY <1>1, <1>8, <2>3 DEF ReturnReply, Bounds
  <2>5. Commands'
    BY <1>1, <1>8, CommandsUnchanged DEF ReturnReply
  <2>. QED  BY <2>2, <2>4, <2>5 DEF ContextInv
<1>9. CASE NoReply
  <2>1. ReaderInv' /\ ~rerr /\ rerr' = rerr
    BY <1>1, <1>9, KeepReplyKeeps DEF NoReply, KeepReply
  <2>2. pc' \in {"client", "write", "read"}
    BY <1>9 DEF NoReply
  <2>3. Bounds'
    BY <1>1, <1>9, <2>1, <2>2 DEF NoReply, Bounds
  <2>4. Commands'
    BY <1>1, <1>9, CommandsUnchanged DEF NoReply
  <2>. QED  BY <2>1, <2>3, <2>4 DEF ContextInv
<1>10. CASE Execute
  <2>1. ReaderInv' /\ rerr' = rerr
    BY <1>1, <1>10, ReaderUnchanged DEF Execute, reader
  <2>2. /\ Commands' /\ served' \in Seq(Replies) /\ Len(served') <= issued
        /\ wire' \in Seq(STRING)
    BY <1>1, <1>10, ExecuteKeeps
  <2>3. Bounds'
    BY <1>1, <1>10, <2>1, <2>2 DEF Execute, Bounds
  <2>. QED  BY <2>1, <2>2, <2>3 DEF ContextInv
<1>11. CASE Close
  <2>1. ReaderInv' /\ rerr' = rerr
    BY <1>1, <1>11, ReaderUnchanged DEF Close, reader
  <2>2. faults' \in 0..MaxFaults
    BY <1>1, <1>11, MayFailBound DEF Close, Bounds
  <2>3. Bounds'
    BY <1>1, <1>11, <2>1, <2>2 DEF Close, Bounds
  <2>4. Commands'
    BY <1>1, <1>11, CommandsUnchanged DEF Close
  <2>. QED  BY <2>1, <2>3, <2>4 DEF ContextInv
<1>12. CASE UNCHANGED vars
  <2>1. ReaderInv' /\ rerr' = rerr
    BY <1>1, <1>12, ReaderUnchanged DEF vars, reader
  <2>2. Bounds'
    BY <1>1, <1>12, <2>1 DEF vars, Bounds
  <2>3. Commands'
    BY <1>1, <1>12, CommandsUnchanged DEF vars
  <2>. QED  BY <2>1, <2>2, <2>3 DEF ContextInv
<1>. QED  BY <1>2, <1>3, <1>4, <1>5, <1>6, <1>7, <1>8, <1>9, <1>10, <1>11, <1>12, <1>13
          DEF Next, Library

THEOREM ContextInvariant == Spec => []ContextInv
<1>1. Init => ContextInv
  BY ContextStart
<1>2. ContextInv /\ [Next]_vars => ContextInv'
  BY ContextNext
<1>. QED  BY <1>1, <1>2, PTL DEF Spec

\* The variables keep their types; the stack never exceeds its size, no reader
\* in error goes unnoticed, and no reply is sent for a command that was not.
THEOREM ContextTypeCorrect == Spec => []TypeOK
<1>1. ContextInv => TypeOK
  BY ReaderTypes DEF ContextInv, Bounds, TypeOK
<1>. QED  BY <1>1, ContextInvariant, PTL

\* The reply under construction is sound between any two steps of the reader
\* (moveToNextTask lines 330-353, and the parent pointers of create...Object).  An
\* array that counts what no int holds is not built: there the model ends.
THEOREM ContextReplySound == Spec => []ReplySound
<1>1. ContextInv => ReplySound
  BY ReaderSound DEF ContextInv
<1>. QED  BY <1>1, ContextInvariant, PTL

\* The commands reach the server whole, once and in order (redisBufferWrite
\* lines 1115-1129), however the writes and the appends interleave.
THEOREM ContextCommandsIntact == Spec => []CommandsIntact
<1>1. ContextInv => CommandsIntact
  BY DEF ContextInv, Commands, Intact, CommandsIntact
<1>. QED  BY <1>1, ContextInvariant, PTL
=============================================================================
