--------------------------- MODULE MC_DMLExecutor ---------------------------
(***************************************************************************)
(* Instances of the DML executor for TLC: table t(a INTEGER NOT NULL,    *)
(* b INTEGER), pages of two full rows, a file of two heap pages.          *)
(***************************************************************************)
EXTENDS DMLExecutor

Lo == CHOOSE v \in Vals : \A w \in Vals : v <= w
Hi == CHOOSE v \in Vals : \A w \in Vals : w <= v

(* One WHERE per access path of extract_column_predicates and             *)
(* choose_index_scan: none, equality, a flipped range, a range with a     *)
(* recheck on the other column, a column without index, two kinds of      *)
(* contradiction and a NULL literal; and WHEREs the extraction gives up   *)
(* on: NOT and NULL semantics, OR with IS NULL, a bare column with !=, an *)
(* IS NOT NULL behind which a too-wide literal throws on some rows only   *)
(* under short-circuiting, and that literal facing the indexed column.    *)
MCPreds ==
    { NoWhere,
      Bin("=", ColRef(1), Lit(Lo)),
      Bin("<", Lit(Lo), ColRef(1)),
      Bin("AND", Bin("<=", ColRef(1), Lit(Hi)), Bin("=", ColRef(2), Lit(Lo))),
      Bin(">=", ColRef(2), Lit(Lo)),
      Bin("AND", Bin("=", ColRef(1), Lit(Lo)), Bin("=", ColRef(1), Lit(Hi))),
      Bin("AND", Bin(">", ColRef(1), Lit(Lo)), Bin(">=", Lit(Lo), ColRef(1))),
      Bin("=", ColRef(1), Lit(Null)),
      Not(Bin("=", ColRef(2), Lit(Lo))),
      Bin("OR", Bin("=", ColRef(1), Lit(Hi)), IsNull(ColRef(2), FALSE)),
      Bin("AND", ColRef(2), Bin("!=", ColRef(1), Lit(Lo))),
      Bin("OR", IsNull(ColRef(2), TRUE), Bin("<", ColRef(1), Lit(Int64Literal))),
      Bin("<", ColRef(1), Lit(Int64Literal)) }

(* For the run over the heap alone: the whole table, the row a = Lo, a   *)
(* NOT that picks some rows and is UNKNOWN on a NULL b, and a WHERE that  *)
(* throws TYPE_ERROR.                                                      *)
HeapPreds ==
    { NoWhere,
      Bin("=", ColRef(1), Lit(Lo)),
      Not(Bin("=", ColRef(2), Lit(Lo))),
      Bin("OR", IsNull(ColRef(2), TRUE), Bin("<", ColRef(1), Lit(Int64Literal))) }

MCOrders ==
    {[col |-> 0, asc |-> TRUE]} \cup [col : {1, 2}, asc : BOOLEAN]

IndexOnA == <<[col |-> 1, unique |-> TRUE]>>        \* the t_pk index
IndexOnB == <<[col |-> 2, unique |-> FALSE]>>       \* CREATE INDEX on b
NoIndexes == <<>>                                   \* no PRIMARY KEY, no index

(* The column constraints of t: a is NOT NULL.                             *)
AcceptsRow(r) == ~ViolatesNotNull(r)
=============================================================================
