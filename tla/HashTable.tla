------------------------------ MODULE HashTable ------------------------------
(***************************************************************************)
(* Christopher Clark's hashtable (src/hashtable), the table in which yaul  *)
(* pools its open log files, at the level of its pointers: buckets that    *)
(* head chains of entries, the growing of the table, and the iterator.     *)
(*                                                                         *)
(* An entry is named by its key, for the client inserts a key only when a  *)
(* search missed it (yaul.c lines 309-323).  A function that changes more  *)
(* than one pointer is split where it allocates, frees or moves an entry,  *)
(* so that the properties also hold of the table half way through it.      *)
(* While an iterator is in use the client calls only iterator functions,   *)
(* as tester.c lines 114-117 ask it to.                                    *)
(*                                                                         *)
(* Destroy is one step.  The mallocs of create_hashtable and of            *)
(* hashtable_iterator succeed.  Of the expansion that reallocs the table   *)
(* (lines 99-122) the model has its failure, and otherwise that line 106   *)
(* writes through a pointer nobody set, which it takes for the end.        *)
(*                                                                         *)
(* A definition named Bug... is a mistake one could make in the definition *)
(* that follows it; no specification uses it.                              *)
(***************************************************************************)
EXTENDS Integers, Sequences, FiniteSets

CONSTANTS
    Keys, Values,
    NULL,
    Primes,         \* the sizes of the table, increasing
    MinSizes,       \* values of create_hashtable's minsize
    HashValues      \* what hash returns

ASSUME NullAssumption == NULL \notin Keys /\ NULL \notin Values
ASSUME KeysAssumption == IsFiniteSet(Keys)
ASSUME PrimesAssumption ==
    /\ Primes \in Seq(Nat \ {0}) /\ Primes # <<>>
    /\ \A i, j \in 1..Len(Primes) : i < j => Primes[i] < Primes[j]
    /\ MinSizes # {} /\ \A m \in MinSizes : m \in Nat /\ m < Primes[Len(Primes)]
ASSUME HashAssumption == HashValues \subseteq Nat /\ HashValues # {}

VARIABLES
    hashOf,             \* hash of each key, stored in its entry
    table, primeindex,  \* the buckets; their number is Primes[primeindex]
    entrycount,
    entries,            \* the entries malloc returned and free did not take
    next, val,          \* fields of the entries
    newtable,           \* the buckets hashtable_expand fills
    pc, key, arg,       \* next step, and the arguments of the call
    prev,               \* entry before key's in hashtable_remove, or NULL
    itr,                \* the iterator: entry, entry before it, bucket
    seen, owed          \* keys the iterator reached; keys it has to reach

fields   == <<entries, next, val>>
buckets  == <<table, primeindex>>
call     == <<key, arg, prev>>
iterator == <<itr, seen, owed>>
vars     == <<hashOf, buckets, entrycount, fields, newtable, pc, call, iterator>>

Pointer == Keys \union {NULL}
LoadLimit(size) == (65 * size + 99) \div 100        \* ceil(size * 0.65)
Size     == Primes[primeindex]
Empty(size) == [b \in 0..(size - 1) |-> NULL]
Index(size, k) == hashOf[k] % size

\* The entries one reaches from p through the fields nxt: the smallest set that
\* p is in and nxt does not lead out of.
Reachable(nxt, p) ==
    {k \in Keys :
        \A S \in SUBSET Keys :
            p \in S \union {NULL} /\ (\A l \in S : nxt[l] \in S \union {NULL}) => k \in S}
From(p) == Reachable(next, p)
Chain(t, b) == From(t[b])
InTable(t)  == UNION {Chain(t, b) : b \in DOMAIN t}

Search(k) == k \in Chain(table, Index(Size, k))

\* The entry before k in its chain, NULL for the head: what the walk of
\* hashtable_remove and hashtable_iterator_search ends with.
Before(k) ==
    LET b == Index(Size, k)
    IN  IF table[b] = k THEN NULL ELSE CHOOSE p \in Chain(table, b) : next[p] = k

NoIterator == [e |-> NULL, parent |-> NULL, index |-> 0]

Init ==
    /\ hashOf \in [Keys -> HashValues]
    /\ \E minsize \in MinSizes :
         primeindex = CHOOSE i \in 1..Len(Primes) :
                        Primes[i] > minsize /\ \A j \in 1..(i - 1) : Primes[j] <= minsize
    /\ table = Empty(Size)
    /\ entrycount = 0 /\ entries = {}
    /\ next = [k \in Keys |-> NULL] /\ val = [k \in Keys |-> NULL]
    /\ newtable = <<>>
    /\ pc = "idle" /\ key = NULL /\ arg = NULL /\ prev = NULL
    /\ itr = NoIterator
    /\ seen = {} /\ owed = {}

\* free takes the entries of S; what it leaves in their fields is of no use.
Free(S, fieldsNext) ==
    /\ entries' = entries \ S
    /\ next' = [k \in Keys |-> IF k \in S THEN NULL ELSE fieldsNext[k]]
    /\ val' = [k \in Keys |-> IF k \in S THEN NULL ELSE val[k]]

Return == pc' = "idle" /\ key' = NULL /\ arg' = NULL /\ prev' = NULL
-----------------------------------------------------------------------------
(* hashtable_insert and hashtable_expand.                                  *)

Insert(k, v) ==
    /\ pc = "idle" /\ ~Search(k)
    /\ entrycount' = entrycount + 1
    /\ key' = k /\ arg' = v
    /\ pc' = IF entrycount' > LoadLimit(Size) /\ primeindex < Len(Primes)
             THEN "expand" ELSE "alloc"
    /\ UNCHANGED <<hashOf, buckets, fields, newtable, prev, iterator>>

ExpandAlloc ==
    /\ pc = "expand"
    /\ primeindex' = primeindex + 1
    /\ newtable' = Empty(Primes[primeindex + 1])
    /\ pc' = "rehash"
    /\ UNCHANGED <<hashOf, table, entrycount, fields, call, iterator>>

\* Neither malloc nor realloc finds memory: the table keeps its size.
BugExpandFails ==       \* primeindex stays increased
    /\ pc = "expand"
    /\ primeindex' = primeindex + 1
    /\ pc' = "alloc"
    /\ UNCHANGED <<hashOf, table, entrycount, fields, newtable, call, iterator>>
ExpandFails ==
    /\ pc = "expand"
    /\ pc' = "alloc"
    /\ UNCHANGED <<hashOf, buckets, entrycount, fields, newtable, call, iterator>>

\* Only realloc does: line 106 takes an uninitialised bucket for the address of
\* the memory to clear.
ExpandRealloc ==
    /\ pc = "expand"
    /\ pc' = "crashed"
    /\ UNCHANGED <<hashOf, buckets, entrycount, fields, newtable, call, iterator>>

\* One turn of the loop of lines 88-95: the head of the first bucket that is not
\* empty becomes the head of its new bucket.
BugRehash ==
    /\ pc = "rehash"
    /\ \E b \in DOMAIN table :
         /\ table[b] # NULL /\ \A c \in 0..(b - 1) : table[c] = NULL
         /\ table' = [table EXCEPT ![b] = next[table[b]]]
         /\ next' = [next EXCEPT ![table[b]] = newtable[b]]
         /\ newtable' = [newtable EXCEPT ![b] = table[b]]
    /\ UNCHANGED <<hashOf, primeindex, entrycount, entries, val, pc, call, iterator>>
Rehash ==
    /\ pc = "rehash"
    /\ \E b \in DOMAIN table :
         /\ table[b] # NULL /\ \A c \in 0..(b - 1) : table[c] = NULL
         /\ LET e     == table[b]
                index == Index(Size, e)
            IN  /\ table' = [table EXCEPT ![b] = next[e]]
                /\ next' = [next EXCEPT ![e] = newtable[index]]
                /\ newtable' = [newtable EXCEPT ![index] = e]
    /\ UNCHANGED <<hashOf, primeindex, entrycount, entries, val, pc, call, iterator>>

RehashDone ==
    /\ pc = "rehash" /\ \A b \in DOMAIN table : table[b] = NULL
    /\ table' = newtable /\ newtable' = <<>>
    /\ pc' = "alloc"
    /\ UNCHANGED <<hashOf, primeindex, entrycount, fields, call, iterator>>

Alloc ==
    /\ pc = "alloc"
    /\ entries' = entries \union {key}
    /\ val' = [val EXCEPT ![key] = arg]
    /\ next' = [next EXCEPT ![key] = table[Index(Size, key)]]
    /\ pc' = "link"
    /\ UNCHANGED <<hashOf, buckets, entrycount, newtable, call, iterator>>

AllocFails ==
    /\ pc = "alloc"
    /\ entrycount' = entrycount - 1
    /\ Return
    /\ UNCHANGED <<hashOf, buckets, fields, newtable, iterator>>

Link ==
    /\ pc = "link"
    /\ table' = [table EXCEPT ![Index(Size, key)] = key]
    /\ Return
    /\ UNCHANGED <<hashOf, primeindex, entrycount, fields, newtable, iterator>>
-----------------------------------------------------------------------------
(* hashtable_remove, hashtable_change and hashtable_destroy.               *)

\* *pE = e->next, where pE is a bucket, or the next field of the entry p: the
\* buckets and the next fields afterwards.
BugBucketsWithout(p, e, b) == table     \* the head of a chain is not told apart
BucketsWithout(p, e, b) ==
    IF p = NULL THEN [table EXCEPT ![b] = next[e]] ELSE table
NextWithout(p, e) ==
    IF p = NULL THEN next ELSE [next EXCEPT ![p] = next[e]]

RemoveFind(k) ==
    /\ pc = "idle" /\ Search(k)
    /\ key' = k /\ prev' = Before(k)
    /\ pc' = "unlink"
    /\ UNCHANGED <<hashOf, buckets, entrycount, fields, newtable, arg, iterator>>

RemoveUnlink ==
    /\ pc = "unlink"
    /\ table' = BucketsWithout(prev, key, Index(Size, key))
    /\ next' = NextWithout(prev, key)
    /\ entrycount' = entrycount - 1
    /\ pc' = "free"
    /\ UNCHANGED <<hashOf, primeindex, entries, val, newtable, call, iterator>>

RemoveFree ==
    /\ pc = "free"
    /\ Free({key}, next)
    /\ Return
    /\ UNCHANGED <<hashOf, buckets, entrycount, newtable, iterator>>

Change(k, v) ==
    /\ pc = "idle" /\ Search(k)
    /\ val' = [val EXCEPT ![k] = v]
    /\ UNCHANGED <<hashOf, buckets, entrycount, entries, next, newtable, pc, call, iterator>>

Destroy ==
    /\ pc = "idle"
    /\ Free(InTable(table), next)
    /\ table' = <<>>
    /\ pc' = "destroyed"
    /\ UNCHANGED <<hashOf, primeindex, entrycount, newtable, call, iterator>>
-----------------------------------------------------------------------------
(* The iterator.                                                           *)

\* The first entry of the buckets from b on, for a position without one.
BugHeadFrom(b) ==       \* the last bucket is not looked at
    LET full == {c \in b..(Size - 2) : table[c] # NULL}
    IN  IF full = {}
        THEN [e |-> NULL, parent |-> NULL, index |-> Size]
        ELSE LET c == CHOOSE c \in full : \A d \in full : c <= d
             IN  [e |-> table[c], parent |-> NULL, index |-> c]
HeadFrom(b) ==
    LET full == {c \in b..(Size - 1) : table[c] # NULL}
    IN  IF full = {}
        THEN [e |-> NULL, parent |-> NULL, index |-> Size]
        ELSE LET c == CHOOSE c \in full : \A d \in full : c <= d
             IN  [e |-> table[c], parent |-> NULL, index |-> c]

BugAdvanced ==          \* stays in its bucket
    IF next[itr.e] # NULL
    THEN [itr EXCEPT !.e = next[itr.e], !.parent = itr.e]
    ELSE HeadFrom(itr.index)
Advanced == IF next[itr.e] # NULL
            THEN [itr EXCEPT !.e = next[itr.e], !.parent = itr.e]
            ELSE HeadFrom(itr.index + 1)

Reach(i) == seen' = seen \union ({i.e} \ {NULL})

Iterator ==
    /\ pc = "idle"
    /\ itr' = HeadFrom(0)
    /\ seen' = {itr'.e} \ {NULL} /\ owed' = InTable(table)
    /\ pc' = "iterate"
    /\ UNCHANGED <<hashOf, buckets, entrycount, fields, newtable, call>>

IteratorAdvance ==
    /\ pc = "iterate" /\ itr.e # NULL
    /\ itr' = Advanced
    /\ Reach(itr')
    /\ UNCHANGED <<hashOf, buckets, entrycount, fields, newtable, pc, call, owed>>

\* The iterator moves on and its parent, if it is the entry that goes, becomes
\* the entry before (line 121).
Corrected(i) == IF i.parent = itr.e THEN [i EXCEPT !.parent = itr.parent] ELSE i

IteratorRemove ==
    /\ pc = "iterate" /\ itr.e # NULL
    /\ table' = BucketsWithout(itr.parent, itr.e, itr.index)
    /\ Free({itr.e}, NextWithout(itr.parent, itr.e))
    /\ entrycount' = entrycount - 1
    /\ itr' = Corrected(Advanced)
    /\ Reach(itr')
    /\ UNCHANGED <<hashOf, primeindex, newtable, pc, call, owed>>

\* hashtable_iterator_search puts the iterator on a key: an iteration starts
\* there, and owes the keys it can still reach.
IteratorSearch(k) ==
    /\ pc = "iterate" /\ Search(k)
    /\ itr' = [e |-> k, parent |-> Before(k), index |-> Index(Size, k)]
    /\ seen' = {k}
    /\ owed' = From(k) \union UNION {Chain(table, b) : b \in (Index(Size, k) + 1)..(Size - 1)}
    /\ UNCHANGED <<hashOf, buckets, entrycount, fields, newtable, pc, call>>

IteratorFree ==
    /\ pc = "iterate"
    /\ pc' = "idle"
    /\ itr' = NoIterator /\ seen' = {} /\ owed' = {}
    /\ UNCHANGED <<hashOf, buckets, entrycount, fields, newtable, call>>

Done == pc \in {"destroyed", "crashed"} /\ UNCHANGED vars
-----------------------------------------------------------------------------
Expand == ExpandAlloc \/ ExpandFails \/ ExpandRealloc \/ Rehash \/ RehashDone
Iterate == \/ Iterator \/ IteratorAdvance \/ IteratorRemove \/ IteratorFree
           \/ \E k \in Keys : IteratorSearch(k)

Next == \/ \E k \in Keys, v \in Values : Insert(k, v) \/ Change(k, v)
        \/ Expand \/ Alloc \/ AllocFails \/ Link
        \/ \E k \in Keys : RemoveFind(k)
        \/ RemoveUnlink \/ RemoveFree \/ Destroy
        \/ Iterate \/ Done

Spec == Init /\ [][Next]_vars
-----------------------------------------------------------------------------
(* What the table promises.                                                *)

TypeOK ==
    /\ hashOf \in [Keys -> HashValues]
    /\ primeindex \in 1..Len(Primes)
    /\ pc \in {"idle", "expand", "rehash", "alloc", "link", "unlink", "free", "iterate",
               "destroyed", "crashed"}
    /\ pc # "destroyed" =>
         table \in [0..(IF pc = "rehash" THEN Primes[primeindex - 1] ELSE Size) - 1 -> Pointer]
    /\ newtable \in IF pc = "rehash" THEN [0..(Size - 1) -> Pointer] ELSE {<<>>}
    /\ entrycount \in 0..Cardinality(Keys)
    /\ entries \subseteq Keys
    /\ next \in [Keys -> Pointer] /\ val \in [Keys -> Values \union {NULL}]
    /\ key \in Pointer /\ prev \in Pointer /\ arg \in Values \union {NULL}
    /\ itr \in [e: Pointer, parent: Pointer, index: Nat]
    /\ seen \subseteq Keys /\ owed \subseteq Keys

\* A search finds what was inserted: each entry hangs in the bucket of its hash,
\* in the old buckets or, once rehashed, in the new ones, and in one chain only
\* (hashtable_insert 152-157, hashtable_expand 88-95).
InBucket(t, size) ==
    \A b \in DOMAIN t : \A k \in Chain(t, b) : Index(size, k) = b
EntriesInTheirBuckets ==
    /\ InBucket(table, Cardinality(DOMAIN table))
    /\ pc = "rehash" => InBucket(newtable, Size) /\ InTable(table) \cap InTable(newtable) = {}

\* No entry is lost or kept after its removal: what malloc gave is in a chain,
\* or is the entry in hand, and every pointer one follows is to such an entry
\* (hashtable_remove 195-209, hashtable_iterator_remove 105-122).
InHand == IF pc \in {"link", "free"} THEN {key} ELSE {}
NoDanglingPointer ==
    pc \notin {"destroyed", "crashed"} =>
      /\ entries = InTable(table) \union InTable(newtable) \union InHand
      /\ pc = "link" => next[key] \in entries \union {NULL}
      /\ pc = "unlink" => {key, prev} \subseteq entries \union {NULL}
      /\ pc = "iterate" => {itr.e, itr.parent} \subseteq entries \union {NULL}

\* hashtable_count tells the keys that are bound, also after an insertion that
\* ran out of memory (hashtable_insert lines 142-151).
CountIsExact == pc \in {"idle", "iterate"} => entrycount = Cardinality(InTable(table))

\* hashtable_destroy frees every entry (lines 215-241).
AllFreed == pc = "destroyed" => entries = {}

\* The chains are sound: a client finds what it put in, and nothing leaks.
ChainsSound == EntriesInTheirBuckets /\ NoDanglingPointer /\ CountIsExact /\ AllFreed

\* The iterator reaches every key, with removals on the way: at the end of the
\* table it has reached all it owed (hashtable_iterator_advance 53-88).
IterationIsComplete == pc = "iterate" /\ itr.e = NULL => seen = owed

\* An iteration reaches no key twice, whatever it removes on the way
\* (hashtable_iterator_advance 61-87, hashtable_iterator_remove 119-121).
ReachesOnce ==
    [][IteratorAdvance \/ IteratorRemove => itr'.e \notin seen]_vars

\* The parent of the iterator is the entry before it, so that removing unlinks
\* the right one (hashtable_iterator_remove lines 105-112).
ParentIsBefore ==
    pc = "iterate" /\ itr.e # NULL =>
        /\ itr.index = Index(Size, itr.e)
        /\ itr.parent = Before(itr.e)

\* The iterator may be used to remove: it knows the entry before its own, and
\* leaves none out.
IteratorSound == ParentIsBefore /\ IterationIsComplete

\* The table implements a map; an insertion takes effect when its entry is linked
\* and a removal when it is unlinked, and growing the table changes nothing.
Bindings == IF pc = "destroyed" THEN {} ELSE InTable(table) \union InTable(newtable)
MapImplemented == INSTANCE KeyMap WITH map <- [k \in Bindings |-> val[k]]
Implements == MapImplemented!Spec
=============================================================================
