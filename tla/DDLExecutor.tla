---------------------------- MODULE DDLExecutor ----------------------------
(***************************************************************************)
(* The DDL executor (src/src/engine/ddl_executor.cpp) over the catalog     *)
(* (src/src/catalog/catalog_manager.cpp), the table file and the index     *)
(* files, with INSERT (DMLExecutor::insert_into) as the statement that     *)
(* puts rows into the tables.  Every statement is one step: the whole      *)
(* handler runs, and an exception thrown part-way ends the step with the   *)
(* effects made before it (nothing is rolled back unless the code does).   *)
(*                                                                         *)
(* The catalog relations are sets of entries; the code keeps each on one   *)
(* page rewritten whole on every change and a cache that is rewritten with *)
(* it, and every read sorts them (columns by column_entry_less, indexes by *)
(* table and name), so a set and the sorted reads are what it stores.      *)
(* Columns are INTEGER; an index has one key column; index names are      *)
(* numbers in the order the catalog sorts the names in.  An index file is  *)
(* a function from encoded key to rid (what BPlusTree implements, run      *)
(* tree_refines_keyridmap), keyed by index id as IndexManager keys files.  *)
(***************************************************************************)
EXTENDS Integers, Sequences, FiniteSets, TLC, TableHeap

LOCAL SE == INSTANCE SequencesExt

CONSTANTS
    TableNames,      \* table names statements use
    ColNames,        \* column names statements use
    IndexNames,      \* index names, as numbers in their sorted order
    PkName,          \* PkName[t]: the index name "<t>_pk"
    TableDefs,       \* CREATE TABLE column lists: sequences of column defs
    AddDefs,         \* ALTER TABLE ADD COLUMN column defs
    Vals,            \* the values INSERT gives a column (NULL among them or not)
    UniqueChoices,   \* CREATE INDEX or CREATE UNIQUE INDEX
    MaxColumns,      \* config::MAX_COLUMNS_PER_TABLE
    MaxTableId,      \* bound on next_table_id
    MaxIndexId,      \* bound on next_index_id
    MaxSchemaVersion, \* bound on a table's schema_version
    AllowImplicitNullFill \* config::ALTER_TABLE_ALLOW_IMPLICIT_NULL_FILL

(* A column def is [name, pk, notnull, hasDefault, dflt] as the parser     *)
(* gives it; dflt is an INTEGER or Null (the literal NULL).                *)

VARIABLES
    file,     \* the table file: [heap, free, count]
    tables,   \* catalog tables: [id, name, root, sv, ncid]
    columns,  \* catalog columns: [tid, cid, ord, sv, dropped, def]
    indexes,  \* catalog indexes: [iid, tid, name, col, unique, primary]
    trees,    \* index files: index id -> (encoded key -> rid)
    meta,     \* metadata page: [nextTableId, nextIndexId]
    result    \* the outcome of the last statement

vars == <<file, tables, columns, indexes, trees, meta, result>>

OrdMax == 2147483647   \* ordinal_position of a dropped column (uint32 max, capped)

(* DDLExecutor::map_constraint and map_column: PK implies NOT NULL.        *)
MapColumn(def) == [def EXCEPT !.notnull = def.notnull \/ def.pk]

(* column_entry_less, within one table: active first, then by ordinal,    *)
(* then by column id.                                                      *)
ColumnEntryLess(a, b) ==
    IF a.dropped # b.dropped THEN ~a.dropped
    ELSE a.ord < b.ord \/ (a.ord = b.ord /\ a.cid < b.cid)

(* CatalogManager::read_all_columns(table_id): the table's column        *)
(* entries, dropped ones included, sorted by column_entry_less.            *)
ReadAllColumns(k, tid) == SE!SetToSortSeq({c \in k.columns : c.tid = tid}, ColumnEntryLess)

(* CatalogManager::get_columns: the same without the dropped entries.      *)
ActiveColumns(k, tid) == SelectSeq(ReadAllColumns(k, tid), LAMBDA c : ~c.dropped)

(* load_indexes_cache: every index entry, sorted by table id, then name.   *)
IndexesCache(k) ==
    SE!SetToSortSeq(k.indexes, LAMBDA a, b : a.tid < b.tid \/ (a.tid = b.tid /\ a.name < b.name))

(* CatalogManager::get_indexes: the cache entries of one table, in order.  *)
TableIndexes(k, tid) == SelectSeq(IndexesCache(k), LAMBDA i : i.tid = tid)

(* get_index and index_exists: the entry named name, if there is one.      *)
IndexNamed(k, name) == {ix \in k.indexes : ix.name = name}

(* table_exists (and get_table's lookup): the entry named n, if any.       *)
TableNamed(k, n) == {t \in k.tables : t.name = n}

(* The table entry named n (callers check it exists).                     *)
TheTable(k, n) == CHOOSE t \in k.tables : t.name = n

(* Position of column id cid in a row of the active columns cols.         *)
PosOf(cols, cid) == SE!SelectInSeq(cols, LAMBDA c : c.cid = cid)

(* build_index_key / encode_index_key: the record of the key column.      *)
IndexKey(cols, ix, row) == EncodeValues(<<row[PosOf(cols, ix.col)]>>)

(* The live rows of a table heap: <<rid, values>> in scan order.           *)
ScanRows(k, root) ==
    LET ls == HeapScan(k.heap, root) IN [j \in 1..Len(ls) |-> <<ls[j], RowAt(k.heap, ls[j])>>]

Fail(k, e) == IF k.err = "ok" THEN [k EXCEPT !.err = e] ELSE k

-----------------------------------------------------------------------------
(* CatalogManager writes.                                                  *)

(* create_table: TABLE_EXISTS on a taken name; new id from the metadata   *)
(* counter; schema_version 1; one column entry per column, ids 1..n.      *)
CatalogCreateTable(k, n, cols, root) ==
    LET id == k.meta.nextTableId
    IN CASE TableNamed(k, n) # {} -> Fail(k, "TABLE_EXISTS")
         [] id > MaxTableId -> Fail(k, "BOUND")
         [] OTHER ->
              [k EXCEPT !.meta.nextTableId = id + 1,
                        !.tables = @ \cup {[id |-> id, name |-> n, root |-> root, sv |-> 1,
                                            ncid |-> Len(cols) + 1]},
                        !.columns = @ \cup {[tid |-> id, cid |-> i, ord |-> i - 1, sv |-> 1,
                                             dropped |-> FALSE, def |-> cols[i]] : i \in 1..Len(cols)}]

(* drop_table: the table row, its columns and its indexes.                 *)
CatalogDropTable(k, t) ==
    [k EXCEPT !.tables = @ \ {t},
              !.columns = {c \in @ : c.tid # t.id},
              !.indexes = {i \in @ : i.tid # t.id}]

(* add_column placing the new column after the dropped ones as well.      *)
CatalogAddColumnOrdAll(k, t, def) ==
    LET act == {c \in k.columns : c.tid = t.id /\ ~c.dropped}
        all == {c \in k.columns : c.tid = t.id}
        sv == t.sv + 1
    IN CASE def.pk -> Fail(k, "INVALID_CONSTRAINT")
         [] \E c \in act : c.def.name = def.name -> Fail(k, "DUPLICATE_COLUMN")
         [] Cardinality(act) >= MaxColumns -> Fail(k, "INVALID_CONSTRAINT")
         [] sv > MaxSchemaVersion -> Fail(k, "BOUND")
         [] OTHER ->
              [k EXCEPT !.columns = {IF c.tid = t.id THEN [c EXCEPT !.sv = sv] ELSE c : c \in @}
                                   \cup {[tid |-> t.id, cid |-> t.ncid, ord |-> Cardinality(all),
                                          sv |-> sv, dropped |-> FALSE, def |-> def]},
                        !.tables = (@ \ {t}) \cup {[t EXCEPT !.sv = sv, !.ncid = @ + 1]}]

(* add_column: PRIMARY KEY, a taken active name and MAX_COLUMNS refused;  *)
(* the new column goes at the end of the active ones (no one shifts);     *)
(* every column of the table and the table take schema_version + 1, and   *)
(* next_column_id is bumped.                                               *)
CatalogAddColumn(k, t, def) ==
    LET act == {c \in k.columns : c.tid = t.id /\ ~c.dropped}
        sv == t.sv + 1
    IN CASE def.pk -> Fail(k, "INVALID_CONSTRAINT")
         [] \E c \in act : c.def.name = def.name -> Fail(k, "DUPLICATE_COLUMN")
         [] Cardinality(act) >= MaxColumns -> Fail(k, "INVALID_CONSTRAINT")
         [] sv > MaxSchemaVersion -> Fail(k, "BOUND")
         [] OTHER ->
              [k EXCEPT !.columns = {IF c.tid = t.id THEN [c EXCEPT !.sv = sv] ELSE c : c \in @}
                                   \cup {[tid |-> t.id, cid |-> t.ncid, ord |-> Cardinality(act),
                                          sv |-> sv, dropped |-> FALSE, def |-> def]},
                        !.tables = (@ \ {t}) \cup {[t EXCEPT !.sv = sv, !.ncid = @ + 1]}]

(* drop_column leaving the other ordinals as they were.                   *)
CatalogDropColumnNoRenumber(k, t, target) ==
    LET sv == t.sv + 1
        renumbered(c) ==
            CASE c = target -> [c EXCEPT !.dropped = TRUE, !.ord = OrdMax, !.sv = sv]
              [] c.tid = t.id -> [c EXCEPT !.sv = sv]
              [] OTHER -> c
    IN IF sv > MaxSchemaVersion THEN Fail(k, "BOUND")
       ELSE [k EXCEPT !.columns = {renumbered(c) : c \in @},
                      !.tables = (@ \ {t}) \cup {[t EXCEPT !.sv = sv]}]

(* drop_column: the target is marked dropped with ordinal MAX, the others *)
(* of the table are renumbered densely in their sorted order, and all of  *)
(* them and the table take schema_version + 1 (callers checked the rest). *)
CatalogDropColumn(k, t, target) ==
    LET sv == t.sv + 1
        rest == SE!SetToSortSeq({c \in k.columns : c.tid = t.id /\ ~c.dropped /\ c # target},
                                ColumnEntryLess)
        renumbered(c) ==
            CASE c = target -> [c EXCEPT !.dropped = TRUE, !.ord = OrdMax, !.sv = sv]
              [] c.tid = t.id /\ ~c.dropped ->
                   [c EXCEPT !.ord = SE!SelectInSeq(rest, LAMBDA r : r = c) - 1, !.sv = sv]
              [] c.tid = t.id -> [c EXCEPT !.sv = sv]
              [] OTHER -> c
    IN IF sv > MaxSchemaVersion THEN Fail(k, "BOUND")
       ELSE [k EXCEPT !.columns = {renumbered(c) : c \in @},
                      !.tables = (@ \ {t}) \cup {[t EXCEPT !.sv = sv]}]

(* set_table_root.                                                         *)
SetTableRoot(k, tid, root) ==
    LET t == CHOOSE x \in k.tables : x.id = tid
    IN [k EXCEPT !.tables = (@ \ {t}) \cup {[t EXCEPT !.root = root]}]

(* create_index (index_id from the metadata counter) with                  *)
(* IndexManager::CreateIndex: a new, empty index file.                     *)
CatalogCreateIndex(k, ix) ==
    LET id == k.meta.nextIndexId
    IN IF id > MaxIndexId THEN Fail(k, "BOUND")
       ELSE [k EXCEPT !.meta.nextIndexId = id + 1,
                      !.indexes = @ \cup {[ix EXCEPT !.iid = id]},
                      !.trees = @ @@ (id :> <<>>)]

(* IndexManager::DropIndex (the file) and drop_index (the catalog row).    *)
DropIndexAndFile(k, ix) ==
    [k EXCEPT !.indexes = @ \ {ix},
              !.trees = [i \in DOMAIN @ \ {ix.iid} |-> @[i]]]

(* The index file of ix takes key -> rid (BPlusTree::Insert: a unique     *)
(* tree refuses a present key, a non-unique one overwrites its rid).      *)
TreeInsert(k, ix, key, rid) ==
    IF ix.unique /\ key \in DOMAIN k.trees[ix.iid] THEN Fail(k, "DUPLICATE_KEY")
    ELSE [k EXCEPT !.trees[ix.iid] =
                     [x \in DOMAIN @ \cup {key} |-> IF x = key THEN rid ELSE @[x]]]

(* An earlier step of the statement has thrown: the later steps are       *)
(* skipped.                                                                *)
Thrown(k) == k.err # "ok"

-----------------------------------------------------------------------------
(* TableHeapMigration.                                                     *)

(* rewrite: take the new root page, then insert the source heap's rows,   *)
(* rebuilt by the caller as newRows, in scan order into the heap over the *)
(* new root; refused: a row cannot be rebuilt (field_from_value on a NULL *)
(* for NOT NULL), thrown at the first row.  The caller knows the new root *)
(* as NewHeapPage(k).                                                      *)
Rewrite(k, newRows, refused) ==
    LET newRoot == NewHeapPage(k)
        k1 == TakePage(k)
        step(s, row) == CASE Thrown(s) -> s
                          [] refused -> Fail(s, "INVALID_CONSTRAINT")
                          [] OTHER -> HeapInsert(s, row)
    IN IF Thrown(k1) THEN k1 ELSE SE!FoldLeft(step, OpenHeap(k1, newRoot), newRows)

(* The rows of the heap at root, in scan order.                           *)
HeapRows(k, root) == LET rs == ScanRows(k, root) IN [i \in 1..Len(rs) |-> rs[i][2]]

(* add_column copying the rows without the new column's value.           *)
MigrateAddColumnCopy(k, srcRoot, col) ==
    Rewrite(k, HeapRows(k, srcRoot), FALSE)

(* add_column: the new column goes last (its ordinal is the old column    *)
(* count); existing rows get the default, or NULL when there is none.     *)
MigrateAddColumn(k, srcRoot, col) ==
    LET fill == IF col.hasDefault THEN col.dflt ELSE Null
        rows == HeapRows(k, srcRoot)
    IN Rewrite(k, [i \in 1..Len(rows) |-> Append(rows[i], fill)], fill = Null /\ col.notnull)

(* drop_column: every row loses the value at the column's position.        *)
MigrateDropColumn(k, srcRoot, pos) ==
    LET rows == HeapRows(k, srcRoot)
    IN Rewrite(k, [i \in 1..Len(rows) |-> SE!RemoveAt(rows[i], pos)], FALSE)

-----------------------------------------------------------------------------
(* DDLExecutor.                                                            *)

(* rebuild_table_indexes: drop the table's indexes whose column is gone,  *)
(* snapshot the rows, then for each remaining index in name order empty   *)
(* its file and insert every row.  A DUPLICATE_KEY thrown by a unique     *)
(* index ends the statement: the indexes after it are not rebuilt.        *)
RebuildTableIndexes(k, tid) ==
    LET cols == ActiveColumns(k, tid)
        gone == {ix \in k.indexes : ix.tid = tid /\ PosOf(cols, ix.col) = 0}
        k1 == [k EXCEPT !.indexes = @ \ gone,
                        !.trees = [i \in DOMAIN @ \ {ix.iid : ix \in gone} |-> @[i]]]
        rows == ScanRows(k1, (CHOOSE t \in k1.tables : t.id = tid).root)
        add(s, ix, r) == IF Thrown(s) THEN s ELSE TreeInsert(s, ix, IndexKey(cols, ix, r[2]), r[1])
        fill(s, ix) ==
            IF Thrown(s) THEN s
            ELSE SE!FoldLeft(LAMBDA s1, r : add(s1, ix, r), [s EXCEPT !.trees[ix.iid] = <<>>], rows)
    IN SE!FoldLeft(fill, k1, TableIndexes(k1, tid))

(* create_index_from_ast: a taken name is a no-op under IF NOT EXISTS;    *)
(* the table and column must exist; the new index file is empty (rows     *)
(* already in the table are not inserted).                                 *)
CreateIndexFromAst(k, name, n, c, unique, primary, ifNotExists) ==
    IF IndexNamed(k, name) # {}
    THEN IF ifNotExists THEN k ELSE Fail(k, "INVALID_CONSTRAINT")
    ELSE IF TableNamed(k, n) = {} THEN Fail(k, "TABLE_NOT_FOUND")
    ELSE LET t == TheTable(k, n)
             cols == ActiveColumns(k, t.id)
             j == SE!SelectInSeq(cols, LAMBDA col : col.def.name = c)
         IN IF j = 0 THEN Fail(k, "COLUMN_NOT_FOUND")
            ELSE CatalogCreateIndex(k, [iid |-> 0, tid |-> t.id, name |-> name,
                                        col |-> cols[j].cid, unique |-> unique,
                                        primary |-> primary])

(* create_from_ast: validate the column list, take the root page, create  *)
(* the catalog entry, then CREATE UNIQUE INDEX <t>_pk IF NOT EXISTS on    *)
(* the primary-key column.                                                 *)
CreateFromAst(k, n, defs) ==
    LET cols == [i \in 1..Len(defs) |-> MapColumn(defs[i])]
        pks == {i \in 1..Len(defs) : cols[i].pk}
        root == NewHeapPage(k)
    IN CASE Len(defs) > MaxColumns -> Fail(k, "INVALID_CONSTRAINT")
         [] \E i, j \in 1..Len(defs) : i < j /\ defs[i].name = defs[j].name ->
              Fail(k, "DUPLICATE_COLUMN")
         [] Cardinality(pks) > 1 -> Fail(k, "INVALID_CONSTRAINT")
         [] OTHER ->
              LET k1 == TakePage(k)
                  k2 == IF Thrown(k1) THEN k1 ELSE CatalogCreateTable(k1, n, cols, root)
              IN IF Thrown(k2) \/ pks = {} THEN k2
                 ELSE CreateIndexFromAst(k2, PkName[n], n, cols[CHOOSE i \in pks : TRUE].name,
                                         TRUE, TRUE, TRUE)

(* drop_from_ast: drop every index file, the catalog entries, then free   *)
(* the root page (the rest of the chain is not freed).                     *)
DropFromAst(k, n, ifExists) ==
    IF TableNamed(k, n) = {}
    THEN IF ifExists THEN k ELSE Fail(k, "TABLE_NOT_FOUND")
    ELSE LET t == TheTable(k, n)
             ids == {ix.iid : ix \in {i \in k.indexes : i.tid = t.id}}
             k1 == [k EXCEPT !.trees = [i \in DOMAIN @ \ ids |-> @[i]]]
         IN FreePage(CatalogDropTable(k1, t), t.root)

(* drop_index_from_ast.                                                    *)
DropIndexFromAst(k, name, ifExists) ==
    IF IndexNamed(k, name) # {}
    THEN DropIndexAndFile(k, CHOOSE ix \in IndexNamed(k, name) : TRUE)
    ELSE IF ifExists THEN k ELSE Fail(k, "KEY_NOT_FOUND")

(* The swap handing free_chain the new root instead of the old one.       *)
SwapHeapFreeNew(k, tid, oldRoot, newRoot) ==
    RebuildTableIndexes(FreeChain(SetTableRoot(k, tid, newRoot), newRoot), tid)

(* After a migration: point the table at the new heap, free the old chain *)
(* (free_chain, root included), rebuild the indexes.                       *)
SwapHeap(k, tid, oldRoot, newRoot) ==
    RebuildTableIndexes(FreeChain(SetTableRoot(k, tid, newRoot), oldRoot), tid)

(* alter_table_from_ast, ADD COLUMN: build_default_value (NOT NULL needs  *)
(* a DEFAULT; no DEFAULT at all needs the implicit NULL fill), rewrite    *)
(* the heap, and only then catalog add_column, whose refusals (PRIMARY    *)
(* KEY, a taken name, too many columns) come after the new heap exists.   *)
AlterAddColumn(k, n, def) ==
    LET col == MapColumn(def)
    IN CASE TableNamed(k, n) = {} -> Fail(k, "TABLE_NOT_FOUND")
         [] ~col.hasDefault /\ (col.notnull \/ ~AllowImplicitNullFill) ->
              Fail(k, "INVALID_CONSTRAINT")
         [] OTHER ->
              LET t == TheTable(k, n)
                  newRoot == NewHeapPage(k)
                  k1 == MigrateAddColumn(k, t.root, col)
                  k2 == IF Thrown(k1) THEN k1 ELSE CatalogAddColumn(k1, t, col)
              IN IF Thrown(k2) THEN k2 ELSE SwapHeap(k2, t.id, t.root, newRoot)

(* alter_table_from_ast, DROP COLUMN: not the last column, an existing     *)
(* one, not the primary key; rewrite, catalog drop_column, swap.           *)
AlterDropColumn(k, n, c) ==
    IF TableNamed(k, n) = {} THEN Fail(k, "TABLE_NOT_FOUND")
    ELSE LET t == TheTable(k, n)
             cols == ActiveColumns(k, t.id)
             j == SE!SelectInSeq(cols, LAMBDA col : col.def.name = c)
             newRoot == NewHeapPage(k)
         IN CASE Len(cols) <= 1 -> Fail(k, "INVALID_CONSTRAINT")
              [] j = 0 -> Fail(k, "COLUMN_NOT_FOUND")
              [] cols[j].def.pk -> Fail(k, "INVALID_CONSTRAINT")
              [] OTHER ->
                   LET k1 == MigrateDropColumn(k, t.root, j)
                       k2 == IF Thrown(k1) THEN k1 ELSE CatalogDropColumn(k1, t, cols[j])
                   IN IF Thrown(k2) THEN k2 ELSE SwapHeap(k2, t.id, t.root, newRoot)

(* DMLExecutor::insert_into, one row naming every column: encode_row      *)
(* refuses NULL in a NOT NULL column; heap insert; then each index in     *)
(* catalog order takes the row's key (a DUPLICATE_KEY leaves the row and  *)
(* the earlier index entries in place).                                   *)
InsertInto(k, n, row) ==
    IF TableNamed(k, n) = {} THEN Fail(k, "TABLE_NOT_FOUND")
    ELSE LET t == TheTable(k, n)
             cols == ActiveColumns(k, t.id)
         IN IF \E j \in 1..Len(cols) : cols[j].def.notnull /\ row[j] = Null
            THEN Fail(k, "INVALID_CONSTRAINT")
            ELSE LET k1 == HeapInsert(OpenHeap(k, t.root), row)
                     add(s, ix) == IF Thrown(s) THEN s
                                   ELSE TreeInsert(s, ix, IndexKey(cols, ix, row), k1.loc)
                 IN IF Thrown(k1) THEN k1 ELSE SE!FoldLeft(add, k1, TableIndexes(k1, t.id))

-----------------------------------------------------------------------------
(* Statements.  A statement runs on a scratch copy of the state; what it  *)
(* did up to the point it threw is kept (the catalog and the file are     *)
(* written through, nothing is rolled back).                               *)

Scratch == [heap |-> file.heap, free |-> file.free, count |-> file.count,
            tail |-> NoPage, loc |-> <<NoPage, 0>>, err |-> "ok",
            tables |-> tables, columns |-> columns, indexes |-> indexes,
            trees |-> trees, meta |-> meta]

(* A run that would pass a model bound is not explored.                    *)
Commit(k) ==
    /\ k.err # "BOUND"
    /\ file' = [heap |-> k.heap, free |-> k.free, count |-> k.count]
    /\ tables' = k.tables
    /\ columns' = k.columns
    /\ indexes' = k.indexes
    /\ trees' = k.trees
    /\ meta' = k.meta
    /\ result' = k.err

CreateTable(n, defs) == Commit(CreateFromAst(Scratch, n, defs))
DropTable(n, ifExists) == Commit(DropFromAst(Scratch, n, ifExists))
CreateIndex(name, n, c, unique) ==
    Commit(CreateIndexFromAst(Scratch, name, n, c, unique, FALSE, FALSE))
DropIndex(name, ifExists) == Commit(DropIndexFromAst(Scratch, name, ifExists))
AlterAdd(n, def) == Commit(AlterAddColumn(Scratch, n, def))
AlterDrop(n, c) == Commit(AlterDropColumn(Scratch, n, c))
Insert(n, row) == Commit(InsertInto(Scratch, n, row))

(* INSERT rows: one literal or NULL per active column of the table.       *)
RowsFor(n) ==
    IF TableNamed(Scratch, n) = {} THEN {<<>>}
    ELSE [1..Len(ActiveColumns(Scratch, TheTable(Scratch, n).id)) -> Vals]

Init ==
    /\ file = [heap |-> [p \in 1..MaxPages |-> EmptyPage], free |-> <<>>, count |-> 0]
    /\ tables = {}
    /\ columns = {}
    /\ indexes = {}
    /\ trees = <<>>
    /\ meta = [nextTableId |-> 1, nextIndexId |-> 1]
    /\ result = "ok"

Next ==
    \/ \E n \in TableNames, defs \in TableDefs : CreateTable(n, defs)
    \/ \E n \in TableNames, ie \in BOOLEAN : DropTable(n, ie)
    \/ \E name \in IndexNames, n \in TableNames, c \in ColNames, u \in UniqueChoices :
         CreateIndex(name, n, c, u)
    \/ \E name \in IndexNames, ie \in BOOLEAN : DropIndex(name, ie)
    \/ \E n \in TableNames, def \in AddDefs : AlterAdd(n, def)
    \/ \E n \in TableNames, c \in ColNames : AlterDrop(n, c)
    \/ \E n \in TableNames : \E row \in RowsFor(n) : Insert(n, row)

Spec == Init /\ [][Next]_vars

-----------------------------------------------------------------------------
(* Properties.                                                             *)

Pages == 1..MaxPages
Rid == Pages \X Nat
ColumnDef == [name : ColNames, pk : BOOLEAN, notnull : BOOLEAN, hasDefault : BOOLEAN,
              dflt : Vals \cup {Null}]

TypeOK ==
    /\ file.count \in 0..MaxPages
    /\ \A p \in Pages : file.heap[p].next \in Pages \cup {NoPage}
    /\ SE!Range(file.free) \subseteq 1..file.count
    /\ tables \subseteq [id : 1..MaxTableId, name : TableNames, root : Pages,
                         sv : 1..MaxSchemaVersion, ncid : Nat]
    /\ columns \subseteq [tid : 1..MaxTableId, cid : Nat, ord : (0..MaxColumns - 1) \cup {OrdMax},
                          sv : 1..MaxSchemaVersion, dropped : BOOLEAN, def : ColumnDef]
    /\ indexes \subseteq [iid : 1..MaxIndexId, tid : 1..MaxTableId, name : IndexNames \cup SE!Range(PkName),
                          col : Nat, unique : BOOLEAN, primary : BOOLEAN]
    /\ \A i \in DOMAIN trees : \A key \in DOMAIN trees[i] : trees[i][key] \in Rid
    /\ meta \in [nextTableId : 1..MaxTableId + 1, nextIndexId : 1..MaxIndexId + 1]

(* The catalog stays one consistent schema whatever statements ran and    *)
(* failed (CatalogManager create/drop table, add/drop column, create/drop *)
(* index, and the DDL handlers that call them in sequence): names and ids *)
(* unique; every table keeps an active column; its active columns have    *)
(* distinct names and the dense ordinals 0..n-1, dropped ones MAX; column *)
(* ids stay below next_column_id and carry the table's schema_version;    *)
(* every index names an active column of an existing table, a primary one *)
(* is unique and on the PRIMARY KEY column; the index files are exactly   *)
(* those of the catalog's indexes.                                        *)
CatalogConsistent ==
    /\ \A t, u \in tables : (t.name = u.name \/ t.id = u.id) => t = u
    /\ \A t \in tables :
         LET act == {c \in columns : c.tid = t.id /\ ~c.dropped}
         IN /\ act # {}
            /\ {c.ord : c \in act} = 0..Cardinality(act) - 1
            /\ \A c, d \in act : c.def.name = d.def.name => c = d
    /\ \A c \in columns :
         /\ \E t \in tables : t.id = c.tid /\ c.cid < t.ncid /\ c.sv = t.sv
         /\ c.dropped => c.ord = OrdMax
         /\ \A d \in columns : c.tid = d.tid /\ c.cid = d.cid => c = d
    /\ \A ix, jx \in indexes : (ix.name = jx.name \/ ix.iid = jx.iid) => ix = jx
    /\ \A ix \in indexes :
         /\ \E c \in columns : c.tid = ix.tid /\ c.cid = ix.col /\ ~c.dropped
                               /\ (ix.primary => ix.unique /\ c.def.pk)
    /\ DOMAIN trees = {ix.iid : ix \in indexes}

(* Every stored row has the shape of its table's current schema: one      *)
(* value per active column, no NULL in a NOT NULL column.  Rows are       *)
(* written by INSERT and by the ALTER TABLE heap rewrite, and the catalog *)
(* is changed after the rewrite by add_column/drop_column; the two must   *)
(* agree.                                                                  *)
RowsMatchSchema ==
    \A t \in tables :
        LET cols == ActiveColumns(Scratch, t.id)
        IN \A l \in SE!Range(HeapScan(file.heap, t.root)) :
             LET row == RowAt(file.heap, l)
             IN /\ Len(row) = Len(cols)
                /\ \A j \in 1..Len(cols) : cols[j].def.notnull => row[j] # Null

(* No page has two owners: the heap chains of the tables are disjoint,    *)
(* free of cycles, and share no page with the freelist, which holds each  *)
(* page once (PageManager new_page/free_page as CREATE TABLE, DROP TABLE, *)
(* the ALTER rewrite with free_chain and heap inserts use them).           *)
PagesNotShared ==
    LET chain(t) == Chain(file.heap, t.root)
    IN /\ SE!IsInjective(file.free)
       /\ \A t \in tables :
            /\ SE!IsInjective(chain(t))
            /\ SE!Range(chain(t)) \cap SE!Range(file.free) = {}
            /\ \A u \in tables : t # u => SE!Range(chain(t)) \cap SE!Range(chain(u)) = {}

(* Every page the file has grown to is in a table's heap chain or on the  *)
(* freelist: no statement, failed or not, loses a page.                    *)
PagesAccounted ==
    \A p \in 1..file.count :
        p \in SE!Range(file.free) \/ \E t \in tables : p \in SE!Range(Chain(file.heap, t.root))

(* The key of every live row of a table is in each of the table's index   *)
(* files (CREATE INDEX, INSERT, and the ALTER rebuild fill them).          *)
IndexCoversRows ==
    \A ix \in indexes : \A t \in tables : t.id = ix.tid =>
        LET cols == ActiveColumns(Scratch, t.id)
        IN \A l \in SE!Range(HeapScan(file.heap, t.root)) :
             IndexKey(cols, ix, RowAt(file.heap, l)) \in DOMAIN trees[ix.iid]

(* Every entry of an index file is the rid of a live row of its table     *)
(* whose key it is, so that an index lookup never reaches a freed or      *)
(* foreign page (INSERT, and the rebuild after an ALTER TABLE rewrite).    *)
IndexSound ==
    \A ix \in indexes : \A t \in tables : t.id = ix.tid =>
        LET cols == ActiveColumns(Scratch, t.id)
        IN \A key \in DOMAIN trees[ix.iid] :
             LET l == trees[ix.iid][key]
             IN /\ l \in SE!Range(HeapScan(file.heap, t.root))
                /\ IndexKey(cols, ix, RowAt(file.heap, l)) = key

(* Every table's PRIMARY KEY column is covered by a unique index (the    *)
(* is_primary index CREATE TABLE synthesizes as <t>_pk, spec.md 57, 189): *)
(* INSERT enforces PRIMARY KEY => UNIQUE through that index and nothing   *)
(* else, so a table without it accepts duplicate keys.                    *)
PrimaryKeyIndexed ==
    \A t \in tables : \A c \in columns :
        c.tid = t.id /\ ~c.dropped /\ c.def.pk =>
            \E ix \in indexes : ix.tid = t.id /\ ix.col = c.cid /\ ix.unique
=============================================================================
