--------------------------- MODULE TableContents ---------------------------
(***************************************************************************)
(* What the DML statements promise about one table's contents, written    *)
(* from spec.md 4.11 (INSERT, UPDATE, DELETE, TRUNCATE) and 6 ("one error *)
(* per statement"): the table is a bag of rows; a DELETE or UPDATE has    *)
(* its whole effect or, when it fails, none.  Nothing here knows of       *)
(* pages, slots, rids or indexes; DMLExecutor is shown to implement it by *)
(* mapping the rows its heap scan reads to this bag.                       *)
(***************************************************************************)
EXTENDS Bags, Integers, Sequences

LOCAL SE == INSTANCE SequencesExt

CONSTANTS
    Cols,          \* column ids
    InsertSeqs,    \* the row lists an INSERT may give
    Preds,         \* WHERE clauses
    ColVals,       \* ColVals[c]: the values SET c = v may assign
    Admits(_, _),  \* Admits(p, r): the WHERE p holds of row r (spec.md 4.9)
    Accepts(_)     \* Accepts(r): r satisfies the column constraints

VARIABLES
    rows,      \* the table: a bag of rows
    lastStmt   \* the last statement, with its rows or SET (not its WHERE)

(* The part of bag B whose rows satisfy P.                                 *)
BagSelect(B, P(_)) == [r \in {x \in DOMAIN B : P(x)} |-> B[r]]

Init == rows = EmptyBag /\ lastStmt = <<>>

(* INSERT: the rows are added in order; the first one that breaks a      *)
(* constraint ends the statement, and the rows before it stay (spec.md    *)
(* 4.11 inserts row by row).                                               *)
InsertRows(rs) ==
    LET bad == SE!SelectInSeq(rs, LAMBDA r : ~Accepts(r))
        kept == IF bad = 0 THEN rs ELSE SubSeq(rs, 1, bad - 1)
    IN /\ lastStmt' = <<"INSERT", rs>>
       /\ rows' = rows (+) SE!ToBag(kept)

(* DELETE: exactly the rows the WHERE admits go.                           *)
DeleteWhere(p) ==
    /\ lastStmt' = <<"DELETE">>
    /\ rows' = BagSelect(rows, LAMBDA r : ~Admits(p, r))

(* UPDATE ... SET c = v: exactly the admitted rows take v in column c, or *)
(* none does when the new rows break a constraint.                         *)
UpdateWhere(p, c, v) ==
    LET hit == BagSelect(rows, LAMBDA r : Admits(p, r))
        new == BagOfAll(LAMBDA r : [r EXCEPT ![c] = v], hit)
    IN /\ lastStmt' = <<"UPDATE", c, v>>
       /\ rows' = IF \A r \in DOMAIN new : Accepts(r) THEN (rows (-) hit) (+) new ELSE rows

(* TRUNCATE: the table is empty.                                           *)
TruncateAll ==
    /\ lastStmt' = <<"TRUNCATE">>
    /\ rows' = EmptyBag

Next ==
    \/ \E rs \in InsertSeqs : InsertRows(rs)
    \/ \E p \in Preds : DeleteWhere(p)
    \/ \E p \in Preds, c \in Cols : \E v \in ColVals[c] : UpdateWhere(p, c, v)
    \/ TruncateAll

Spec == Init /\ [][Next]_<<rows, lastStmt>>
=============================================================================
