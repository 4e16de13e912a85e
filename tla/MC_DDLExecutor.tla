-------------------------- MODULE MC_DDLExecutor ---------------------------
(***************************************************************************)
(* Instances of the DDL executor for TLC.  Tables t and u; columns a and  *)
(* b, all INTEGER; index names in their sorted order: 1 is a user name    *)
(* ("i"), 2 is "t_pk" and 3 is "u_pk", so a user index may take the name  *)
(* CREATE TABLE t wants for its primary key.                               *)
(***************************************************************************)
EXTENDS DDLExecutor

LOCAL SE == INSTANCE SequencesExt

CONSTANTS T, U, A, B, C

MCPkName == [n \in {T, U} |-> IF n = T THEN 2 ELSE 3]

ColDef(name, pk, notnull, hasDefault, dflt) ==
    [name |-> name, pk |-> pk, notnull |-> notnull, hasDefault |-> hasDefault, dflt |-> dflt]

(* CREATE TABLE x(a INTEGER PRIMARY KEY) and x(a INTEGER, b INTEGER).       *)
MCTableDefs ==
    { <<ColDef(A, TRUE, FALSE, FALSE, Null)>>,
      <<ColDef(A, FALSE, FALSE, FALSE, Null), ColDef(B, FALSE, FALSE, FALSE, Null)>> }

(* ALTER TABLE x ADD COLUMN b INTEGER; b INTEGER NOT NULL DEFAULT 1;      *)
(* b INTEGER NOT NULL DEFAULT NULL; a INTEGER (taken where a exists).     *)
MCAddDefs ==
    { ColDef(B, FALSE, FALSE, FALSE, Null),
      ColDef(B, FALSE, TRUE, TRUE, 1),
      ColDef(B, FALSE, TRUE, TRUE, Null),
      ColDef(A, FALSE, FALSE, FALSE, Null) }

(* MCAddDefs and ADD COLUMN c INTEGER, which x(a, b) refuses with         *)
(* MAX_COLUMNS after the heap rewrite.                                     *)
WideAddDefs == MCAddDefs \cup { ColDef(C, FALSE, FALSE, FALSE, Null) }

(* CREATE TABLE t(a INTEGER) only, for the runs about index contents.     *)
PlainTableDefs == { <<ColDef(A, FALSE, FALSE, FALSE, Null)>> }

(* States that differ only in the last statement's result, or in the     *)
(* bodies of pages outside every table's heap chain, behave alike: such a *)
(* page is read again only after new_page has reset it (PagesNotShared    *)
(* keeps the chains apart from the freelist).                             *)
Owned == UNION {SE!Range(Chain(file.heap, t.root)) : t \in tables}
StateView ==
    <<[file EXCEPT !.heap = [p \in DOMAIN @ |-> IF p \in Owned THEN @[p] ELSE EmptyPage]],
      tables, columns, indexes, trees, meta>>

(* ALTER TABLE x ADD COLUMN b INTEGER and b INTEGER NOT NULL DEFAULT 1.    *)
FillAddDefs == { ColDef(B, FALSE, FALSE, FALSE, Null), ColDef(B, FALSE, TRUE, TRUE, 1) }

(* Every statement of Next but DROP INDEX, which can drop a primary-key  *)
(* index by name; without it the run shows the other way a table loses   *)
(* that index: CREATE TABLE finding the name <t>_pk already taken.       *)
NextKeepingIndexes ==
    \/ \E n \in TableNames, defs \in TableDefs : CreateTable(n, defs)
    \/ \E n \in TableNames, ie \in BOOLEAN : DropTable(n, ie)
    \/ \E name \in IndexNames, n \in TableNames, c \in ColNames, u \in UniqueChoices :
         CreateIndex(name, n, c, u)
    \/ \E n \in TableNames, def \in AddDefs : AlterAdd(n, def)
    \/ \E n \in TableNames, c \in ColNames : AlterDrop(n, c)
    \/ \E n \in TableNames : \E row \in RowsFor(n) : Insert(n, row)

(* Symmetry is not sound here: t and u differ in their _pk names.          *)
=============================================================================
