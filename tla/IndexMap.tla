------------------------------ MODULE IndexMap ------------------------------
(***************************************************************************)
(* What an index promises (spec.md 4.6, 8): a set of <<key, rid>> pairs.   *)
(* A unique index refuses a second pair with the same key (DUPLICATE_KEY) *)
(* and then changes nothing; a non-unique index keeps every pair, so that *)
(* ScanEqual returns all rids stored under a key.  Remove(key, rid) takes *)
(* away exactly that pair, and nothing when it is absent.                  *)
(***************************************************************************)
CONSTANTS Keys, Rids

VARIABLES entries,
          unique,   \* is_unique of the index, fixed when it is created
          lastCall  \* the last call and its arguments

TypeOK == entries \subseteq Keys \X Rids

KeyPresent(k) == \E r \in Rids : <<k, r>> \in entries

Init == lastCall = <<"None">> /\ unique \in BOOLEAN /\ entries = {}

Insert(k, r) ==
    IF unique /\ KeyPresent(k)
    THEN UNCHANGED entries
    ELSE entries' = entries \cup {<<k, r>>}

Remove(k, r) == entries' = entries \ {<<k, r>>}

Next == /\ \E k \in Keys, r \in Rids :
             \/ Insert(k, r) /\ lastCall' = <<"Insert", k, r>>
             \/ Remove(k, r) /\ lastCall' = <<"Remove", k, r>>
        /\ UNCHANGED unique

Spec == Init /\ [][Next]_<<entries, unique, lastCall>>
=============================================================================
