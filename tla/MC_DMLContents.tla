--------------------------- MODULE MC_DMLContents ---------------------------
(***************************************************************************)
(* The DML executor of MC_DMLExecutor shown to implement TableContents.   *)
(* lastStmt is a history variable: each statement records its kind and   *)
(* its rows or SET; it does not constrain the executor, and it tells the  *)
(* abstract specification which statement a step is.  heapRows is the     *)
(* state function "the rows a heap scan of t reads, as a bag", kept in a   *)
(* variable so that a step computes it once for its new state instead of  *)
(* at every reference the refinement mapping makes.                        *)
(***************************************************************************)
EXTENDS MC_DMLExecutor

VARIABLES lastStmt, heapRows

hvars == <<db, result, lastStmt, heapRows>>

(* The rows a heap scan of the table in file d reads, as a bag.           *)
ScannedRows(d) == SE!ToBag(LiveRows(d))

HInit == Init /\ lastStmt = <<>> /\ heapRows = ScannedRows(db)

HStatement ==
    \/ \E rows \in InsertRowSeqs : InsertInto(rows) /\ lastStmt' = <<"INSERT", rows>>
    \/ \E p \in Preds : DeleteAll(p) /\ lastStmt' = <<"DELETE">>
    \/ \E p \in Preds, c \in Cols : \E v \in ColVals[c] :
         UpdateAll(p, c, v) /\ lastStmt' = <<"UPDATE", c, v>>
    \/ Truncate /\ lastStmt' = <<"TRUNCATE">>

HNext == HStatement /\ heapRows' = ScannedRows(db')

HSpec == HInit /\ [][HNext]_hvars

(* The table's contents as TableContents sees them: the rows a heap scan  *)
(* reads, as a bag.                                                        *)
Contents == INSTANCE TableContents WITH
    rows <- heapRows, InsertSeqs <- InsertRowSeqs,
    Admits <- SpecAdmits, Accepts <- AcceptsRow

(* Every INSERT, DELETE, UPDATE and TRUNCATE changes the rows a heap scan *)
(* reads exactly as TableContents says: the rows the WHERE admits under   *)
(* spec.md 4.9, all of them, once each, and nothing when the statement    *)
(* fails.  This is about the candidate collection of delete_all and       *)
(* update_all, TableHeap::update's relocation (erase, then insert         *)
(* elsewhere, while the scan goes on) and truncate's freeing of the chain. *)
ImplementsTableContents == Contents!Spec
=============================================================================
