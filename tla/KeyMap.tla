-------------------------------- MODULE KeyMap --------------------------------
(***************************************************************************)
(* What a hashtable of src/hashtable promises its client: a partial map    *)
(* from keys to values, in which a key is bound at most once.              *)
(***************************************************************************)
CONSTANTS Keys, Values

VARIABLE map            \* a function from the bound keys to their values

Bound == DOMAIN map
Unbind(S) == map' = [k \in Bound \ S |-> map[k]]

Init == map = [k \in {} |-> CHOOSE v \in Values : TRUE]

Insert(k, v) ==
    /\ k \notin Bound
    /\ map' = [l \in Bound \union {k} |-> IF l = k THEN v ELSE map[l]]

Change(k, v) == k \in Bound /\ map' = [map EXCEPT ![k] = v]

Remove(k) == k \in Bound /\ Unbind({k})

Destroy == Unbind(Bound)

Next == \/ \E k \in Keys, v \in Values : Insert(k, v) \/ Change(k, v)
        \/ \E k \in Keys : Remove(k)
        \/ Destroy

Spec == Init /\ [][Next]_map
=============================================================================
