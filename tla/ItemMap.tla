------------------------------- MODULE ItemMap -------------------------------
(***************************************************************************)
(* What the object mapper needs of its caches: each is a map from keys to  *)
(* items that only grows, a key keeps its item for ever, and no two keys,  *)
(* of one cache or of two, share an item.                                  *)
(***************************************************************************)
CONSTANT Caches

VARIABLES
    items,   \* for every cache the function from its keys to their items
    found    \* what the last lookups returned: triples of a cache, a key and an item

Init == items = [c \in Caches |-> << >>] /\ found = {}

Lookup ==
    /\ \A c \in Caches : \A k \in DOMAIN items[c] :
            k \in DOMAIN items'[c] /\ items'[c][k] = items[c][k]
    /\ \A c, d \in Caches : \A k \in DOMAIN items'[c], l \in DOMAIN items'[d] :
            items'[c][k] = items'[d][l] => c = d /\ k = l
    /\ \A f \in found' : f[2] \in DOMAIN items'[f[1]] /\ items'[f[1]][f[2]] = f[3]

Spec == Init /\ [][Lookup]_<<items, found>>
=============================================================================
