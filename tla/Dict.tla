-------------------------------- MODULE Dict --------------------------------
(***************************************************************************)
(* The dictionary of hiredis (src/hiredis/dict.c), which the asynchronous  *)
(* API keeps its subscriptions in.  A dictionary is a record: the number   *)
(* of buckets, the number of entries it counts, and the chain of each      *)
(* bucket, its head first.  The definitions are functions from one         *)
(* dictionary to the next; memory that runs out is left out, as the code   *)
(* checks no malloc.                                                       *)
(***************************************************************************)
EXTENDS Integers, Sequences, FiniteSets

CONSTANTS Hash, InitialSize     \* hash of each key, DICT_HT_INITIAL_SIZE

Keys == DOMAIN Hash

ASSUME DictAssumption == Hash \in [Keys -> Nat] /\ InitialSize \in Nat \ {0}

NewTable(size, used) == [size |-> size, used |-> used, table |-> [i \in 0 .. size - 1 |-> <<>>]]
dictCreate == NewTable(0, 0)

Bucket(d, key) == Hash[key] % d.size
Chain(d, key)  == IF d.size = 0 THEN <<>> ELSE d.table[Bucket(d, key)]
Has(d, key)    == \E i \in DOMAIN Chain(d, key) : Chain(d, key)[i].key = key

Held(d)        == {key \in Keys : Has(d, key)}

\* The place of a key in its chain: the first that has it.
At(d, key) ==
    CHOOSE i \in DOMAIN Chain(d, key) :
        /\ Chain(d, key)[i].key = key
        /\ \A j \in 1 .. i - 1 : Chain(d, key)[j].key # key

\* In the order of dictNext.
Entries(d) ==
    LET passed[b \in 0..d.size] == IF b = 0 THEN <<>> ELSE passed[b - 1] \o d.table[b - 1]
    IN  passed[d.size]

\* The value of a key, 0 if there is none.
dictFind(d, key) == IF Has(d, key) THEN Chain(d, key)[At(d, key)].val ELSE 0

BugLinked(d, entry) == [d EXCEPT !.table[Bucket(d, entry.key)] = <<entry>>]   \* the rest is lost
Linked(d, entry) == [d EXCEPT !.table[Bucket(d, entry.key)] = <<entry>> \o @]

\* The entries moved to a new table, one after the other.
Moved(entries, new) ==
    LET moved[n \in 0..Len(entries)] == IF n = 0 THEN new ELSE Linked(moved[n - 1], entries[n])
    IN  moved[Len(entries)]
\* Every entry is linked to the head of its new bucket.  The code also stops when as many
\* were moved as are counted: these are all of them, as the count is exact (DictOK).
dictExpand(d, size) == Moved(Entries(d), NewTable(size, d.used))
dictExpandIfNeeded(d) ==
    IF d.size = 0 THEN dictExpand(d, InitialSize)
    ELSE IF d.used = d.size THEN dictExpand(d, d.size * 2)
    ELSE d

\* A key that is there keeps its place and gets the new value.
dictReplace(d, key, val) ==
    LET grown == dictExpandIfNeeded(d)
    IN  IF Has(grown, key)
        THEN [grown EXCEPT !.table[Bucket(grown, key)][At(grown, key)].val = val]
        ELSE [Linked(grown, [key |-> key, val |-> val]) EXCEPT !.used = @ + 1]

Without(chain, i) == SubSeq(chain, 1, i - 1) \o SubSeq(chain, i + 1, Len(chain))
BugDictDelete(d, key) ==        \* the count is not taken back
    IF ~Has(d, key) THEN d
    ELSE [d EXCEPT !.table[Bucket(d, key)] = Without(@, At(d, key))]
dictDelete(d, key) ==
    IF ~Has(d, key) THEN d
    ELSE [d EXCEPT !.table[Bucket(d, key)] = Without(@, At(d, key)), !.used = @ - 1]

\* Every entry is in the bucket of its hash, no key is in twice, and the count
\* is exact: a resize finds them all (dictExpand's assertion, line 126).
DictOK(d) ==
    /\ d.used = Cardinality(Held(d)) /\ d.used <= d.size
    /\ \A b \in 0 .. d.size - 1 : \A i \in DOMAIN d.table[b] :
            /\ Bucket(d, d.table[b][i].key) = b
            /\ \A j \in DOMAIN d.table[b] : d.table[b][i].key = d.table[b][j].key => i = j
=============================================================================
