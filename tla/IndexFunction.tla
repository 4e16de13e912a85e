---------------------------- MODULE IndexFunction ----------------------------
(***************************************************************************)
(* What BPlusTree actually provides to the executor: a partial function    *)
(* from keys to rids.  Insert of a present key raises DUPLICATE_KEY in a  *)
(* unique index and replaces the rid in a non-unique one (the behaviour   *)
(* the B+ tree unit tests assert); Remove(key, rid) deletes the key only  *)
(* when it maps to that rid.                                               *)
(***************************************************************************)
CONSTANTS Keys, Rids

VARIABLES map,
          unique,   \* is_unique of the index, fixed when it is created
          lastCall  \* the last call and its arguments

TypeOK == DOMAIN map \subseteq Keys /\ \A k \in DOMAIN map : map[k] \in Rids

Put(m, k, r) == [x \in DOMAIN m \cup {k} |-> IF x = k THEN r ELSE m[x]]

Erase(m, k, r) ==
    IF k \in DOMAIN m /\ m[k] = r THEN [x \in DOMAIN m \ {k} |-> m[x]] ELSE m

Init == lastCall = <<"None">> /\ unique \in BOOLEAN /\ map = [k \in {} |-> CHOOSE r \in Rids : TRUE]

Insert(k, r) ==
    IF unique /\ k \in DOMAIN map THEN UNCHANGED map ELSE map' = Put(map, k, r)

Remove(k, r) == map' = Erase(map, k, r)

Next == /\ \E k \in Keys, r \in Rids :
             \/ Insert(k, r) /\ lastCall' = <<"Insert", k, r>>
             \/ Remove(k, r) /\ lastCall' = <<"Remove", k, r>>
        /\ UNCHANGED unique

Spec == Init /\ [][Next]_<<map, unique, lastCall>>
=============================================================================
