# Kizuna V0.6 — TLA+ models

Kizuna is a single-threaded, synchronous teaching DBMS. A SQL statement
flows from the REPL through the parser into the DDL or DML executor. The
executors act on three things: the catalog (tables, columns, indexes, kept in
catalog pages), table heaps (chains of slotted pages), and B+ tree indexes
(`BPlusTree` over index pages, one index file per index). The catalog and the
heaps sit on one paged file, which `PageManager` runs with a freelist. There
are no threads, callbacks or messages. What is hard is **sequences of
statements**: a long series of legal calls that reaches a bad state, a
statement that fails part-way (exceptions end a statement where they are
thrown, and nothing is rolled back unless the code does it), state that goes
stale between two statements, and the orders and boundaries of keys, pages
and splits.

## Inventory

| Part | Source | State | Operations | Modelled by |
|---|---|---|---|---|
| B+ tree index | `src/src/storage/index/index_manager.cpp` (BPlusTree), `src/unnamed/part_010`, `part_011` (node) | nodes by page id: keys, values/children, parent, next/prev leaf; root page | Insert (leaf split, internal split, new root), Remove (no merge), Search, ScanRange, ScanEqual | `BPlusTree` |
| Record codec, key order | `record.cpp` (not under src/, from spec.md 4.3), `part_009` encode_values, `BPlusTree::CompareKeys` | — (pure) | encode, compare | `RecordCodec` |
| Index promise | spec.md 4.6, 8 | set of key/rid pairs | Insert, Remove | `IndexMap` (abstract), `IndexFunction` (what the code implements) |
| Table heap, page manager | `src/src/engine/expression_evaluator.h` (TableHeap, TableHeapMigration); Page and PageManager from spec.md 4.1, 4.2 | pages (slots, used bytes, next), freelist, file size | insert, erase, update, truncate, scan, new_page, free_page, free_chain, rewrite | `TableHeap` |
| DML executor | `src/unnamed/part_009` | one table's heap and indexes | INSERT, SELECT, UPDATE, DELETE, TRUNCATE | `DMLExecutor` |
| Table promise | spec.md 4.11, 6 | bag of rows | INSERT, DELETE, UPDATE, TRUNCATE | `TableContents` (abstract) |
| DDL executor | `src/src/engine/ddl_executor.cpp` | catalog, heaps, index files | CREATE/DROP TABLE, CREATE/DROP INDEX, ALTER TABLE ADD/DROP COLUMN | `DDLExecutor` |
| Catalog manager | `src/src/catalog/catalog_manager.cpp` | tables, columns, indexes; metadata counters | create/drop table, add/drop column, set root, create/drop index, sorted reads | `DDLExecutor` |
| Index manager | `src/src/storage/index/index_manager.cpp` (IndexManager) | index files by index id | CreateIndex, OpenIndex, DropIndex | `DDLExecutor` (files as contents) |
| Expression evaluator | `src/src/engine/expression_evaluator.cpp`, `src/src/sql/ast.h` (the expression tree) | — (pure) | evaluate_predicate (three-valued), evaluate_value, literal_to_value | `ExpressionEvaluator`, used by `DMLExecutor` |
| Parsers, REPL, benchmarks, path utilities | `part_007`, `part_008`, `part_012`, `part_011` (bench), `common/path_utils.cpp` | text, terminal, files | — | not modelled (syntax and I/O) |

## Modules

* `RecordCodec`: the byte encoding of INTEGER rows and keys (tag,
  little-endian u16 length, little-endian two's-complement data, null
  bitmap), plus `CompareKeys` (memcmp over the common prefix, then the
  shorter key first). This order is the one the tree sorts by.
* `BPlusTree`: the tree as a function from page id to a node record.
  * `Insert(key, val)` is the whole of `BPlusTree::Insert` with
    `InsertRecursive`: the equal-key check, the unique duplicate, the
    non-unique overwrite, the leaf split with leaf-chain re-linking, the
    internal split with re-parenting, the stale copy of the internal node
    written back, and a new root.
  * `Remove(key, val)` scans the equal run of the leaf for the matching rid.
  * `Search`, `ScanRange` and `ScanEqual` are operators.
  * The history variable `lastCall` records each call and its arguments, so
    that the refinement checks compare call for call.
* `IndexMap`: the abstract index as the spec promises it, a set of
  `<<key, rid>>` pairs. A unique index (variable `unique`, fixed in Init)
  refuses a present key.
* `IndexFunction`: a key→rid function with overwrite, unique or not the same
  way. This is what a non-unique tree really implements.
* `MC_BPlusTree`: the model values, and the refinement mappings
  `Contents` → `IndexMap` and `ContentsFn` → `IndexFunction`.
* `TableHeap`: operators over a *scratch record* that a statement threads
  through its steps: the file (`heap`: page id → `[slots, used, next]`,
  `free`: the freelist, `count`: pages the file has grown to) plus the heap
  handle's cached `tail`, the location `loc` of its last write and `err`, the
  exception thrown so far. `HeapInsert` follows `TableHeap::insert` (walk
  from the cached tail to the first page with room, else `append_new_page`),
  `HeapUpdate` updates in place when the payload fits the slot, else erases
  and re-inserts; `HeapTruncate` resets the root and frees the rest;
  `FreeChain` is `TableHeapMigration::free_chain`. `TakePage`/`FreePage`
  are `PageManager::new_page`/`free_page` from spec.md: the freelist is
  popped first, and a freed page keeps its body until it is handed out again.
* `ExpressionEvaluator`: `evaluate_predicate` over the `sql::Expression`
  tree, an expression being a record of kind `LITERAL`, `COLUMN_REF`,
  `UNARY` (NOT), `BINARY` (AND, OR, the comparisons) or `NULL_TEST`, for
  INTEGER columns. `EvaluatePredicate` follows `evaluate_predicate_internal`
  case by case: a literal or column in predicate position through
  `value_to_tristate`, NOT, AND and OR with both sides always evaluated
  (`Connective`), the comparison with its column hint (`EvaluateComparison`:
  a literal facing a column must fit INTEGER, else TYPE_ERROR), IS [NOT]
  NULL through `evaluate_value` (which throws on a non-scalar operand). A
  thrown `QueryException` is the model value `TypeError`, an integer literal
  outside int32 the model value `Int64Literal`. The TriBool kernels and
  `compare()` are not in the repository and follow spec.md 4.9.
* `DMLExecutor`: one table `t(a INTEGER NOT NULL, b INTEGER)` with root page
  1 and a configurable list of single-column indexes. Variables `db` (file
  and index contents) and `result`. Each statement is one action that runs
  the whole handler on the scratch record and commits what it did up to the
  first error: `InsertInto` (heap insert, then each index, with
  DUPLICATE_KEY after the heap write), `DeleteAll` and `UpdateAll` (targets
  collected first, then erase or update with index maintenance), `Truncate`.
  A WHERE is an `ExpressionEvaluator` expression or `NoWhere`. `DeleteAll`
  reads, evaluates and erases candidate by candidate, so a TYPE_ERROR ends
  it where it is thrown. `NextWithoutTruncate` is every statement but
  TRUNCATE, the relation of the runs on the indexed table. `Select` is an operator giving the rows and whether
  it throws: predicate extraction (`ExtractColumnPredicates` with the
  recursive `Visit` of AND, `LiteralForColumn`, bounds merge,
  contradictions; anything else than AND of column/literal comparisons
  gives up and scans the heap), index choice (`ChooseIndexScan`), the
  ORDER BY index path (`OrderIndexScan`, `InFinalOrder`), the row recheck and
  the stable sort with its NULL placement.
* `DDLExecutor`: the catalog as sets of entries (`tables`, `columns`,
  `indexes`; the code keeps each on a page rewritten whole and reads them
  sorted: `ReadAllColumns` and `ActiveColumns` are `read_all_columns` and
  `get_columns`, `IndexesCache` and `TableIndexes` the index cache sorted by
  table then name and `get_indexes`, `IndexNamed` and `TableNamed` the
  lookups by name of `get_index`/`index_exists` and `table_exists`), the file, the index files
  `trees` (index id → key → rid), the metadata counters `meta` and
  `result`. The actions are whole handlers: `CreateTable`
  (`create_from_ast`: validation, root page, catalog entry, the `<t>_pk`
  index with IF NOT EXISTS), `DropTable` (index files, catalog, root page),
  `CreateIndex` (no backfill, as in the code), `DropIndex`, `AlterAdd` and
  `AlterDrop` (heap rewrite by `TableHeapMigration`, then the catalog
  change with its refusals, `set_table_root`, `free_chain` of the old heap
  and `RebuildTableIndexes`), and `Insert` (`insert_into` for one row).
  `MC_DDLExecutor` also defines `NextKeepingIndexes`, every statement but
  DROP INDEX, for the run that shows the `<t>_pk` name collision.
* `TableContents`: what the DML statements promise of one table, from
  spec.md 4.11 and 6, with no pages, rids or indexes: the table is a bag of
  rows; INSERT adds its rows in order up to the first that breaks a
  constraint; DELETE removes exactly the rows the WHERE admits; UPDATE
  gives exactly those rows the new value, or changes nothing when a new
  row breaks a constraint; TRUNCATE empties the bag. `lastStmt` names the
  statement a step is.
* `MC_DMLExecutor`, `MC_DDLExecutor`: the model values, the WHERE/ORDER BY
  inputs, the column definitions statements use, and the views.
* `MC_DMLContents`: `MC_DMLExecutor` with the history variable `lastStmt`
  (each statement records its kind, and its rows or its SET; it never
  constrains the executor) and the refinement mapping `Contents` →
  `TableContents`: the abstract bag is the rows a heap scan of the table
  reads (`LiveRows`). The history variable lives here and not in
  `DMLExecutor` so that the other DML runs do not carry it.
  `heapRows` holds that bag, recomputed once per step from the new file
  (`ScannedRows(db')`); it is a function of `db`, so it adds no states, and it
  spares the mapping a heap scan at each of its references.

## Runs

### B+ tree

Bounds: 5 keys chosen to exercise the byte order (`<<0>>`, `<<0,0>>`,
`<<0,1>>`, `<<1>>`, `<<1,0>>`: prefixes and equal first bytes), 2 rids and
`MaxKeys = 2` (`config::BTREE_MAX_KEYS` scaled down). Trees of three levels
appear, so internal splits and re-parenting happen.

| run | checks | shows |
|---|---|---|
| tree | TypeOK, WellFormed, LeafChainConsistent, ParentLinksConsistent, SearchAgreesWithContents, ScanRangeAgreesWithContents, ImplementsKeyRidMap | Trees built unique or not (`UniqueChoices = {FALSE, TRUE}`, as IndexManager builds them from `is_unique`) stay well formed, lookups agree with their contents, and every step refines the key→rid map with overwrite, which for a unique tree is the spec's index (`IndexMap`) again. |
| tree_nonunique_keeps_duplicates | ImplementsIndexMap (violation) | A non-unique tree loses the first rid of a duplicated key, contrary to spec.md 4.6/8. |

### DML executor

Bounds: values `{1, 2}` for `a`, `{1}` for `b` (plus NULL). An encoded row
is 9, 13 or 17 bytes (both NULL, one NULL, none). In the `dml` run pages
have 30 bytes after the header and 4-byte slots, so every page holds one
row: a second row opens a second page, a relocating UPDATE always moves its
row to another page, and a page with a dead slot takes no new row; the file
has 3 pages. (Pages of 38 bytes, where a 13- and a 17-byte row share a page,
take this run past 250 s; the `dml_heap` run below uses them.) One unique
index on `a` (the `t_pk` index), one row per INSERT. Thirteen WHERE clauses:
eight cover every access path of `extract_column_predicates`/
`choose_index_scan` (none, equality, a literal on the left, a range with a
recheck, a column without index, two kinds of contradiction, a NULL
literal); three are given up on by the extraction and exercise the
three-valued logic on NULL `b` (`NOT b = 1`, `a = 2 OR b IS NULL`,
`b AND a != 1`); two carry an out-of-int32 literal, once as an extractable
comparison (the extraction throws) and once behind `b IS NOT NULL OR`
(the evaluator throws on every row, and would throw on the NULL rows only
if OR short-circuited). Every ORDER BY is combined with each.

`SelectSound` and `SelectComplete` compare `Select` with a reference
semantics written from spec.md 4.9 (`SpecTruth`: Kleene's logic over
False < Unknown < True, a comparison with NULL Unknown; `SpecFails`: a
too-wide literal against a column is a TYPE_ERROR), not with the
evaluator the model translates. The view `Canonical` forgets the bodies of dead slots, which
nothing reads again.

`OrderByHonoured` in the `dml` run is about the ORDER BY index path
(`OrderIndexScan`: the index order taken as the result order, reversed for
DESC); on the heap path the result is sorted with the same `RowLess` the
property compares against. It holds there because the values `{1, 2}`
encode in numeric byte order; `dml_order_by_index_bytes` shows the same
property failing for 1 and 256. The indexed column `a` is NOT NULL, so the
NULL placement of the index path (hazard at part_009:728) is not reached.

| run | checks | shows |
|---|---|---|
| dml | TypeOK, IndexSound, SelectSound, SelectComplete, OrderByHonoured, FailedStatementChangesNothing | Every sequence of INSERT, DELETE and UPDATE, failed ones included, leaves only correct index entries; every SELECT that does not throw returns only stored rows its WHERE admits, all of them while the indexes are complete, in ORDER BY order, whichever access path it takes; a DELETE or UPDATE that fails with TYPE_ERROR has changed nothing (7,057 distinct states). |
| dml_heap | PagesAccounted, ImplementsTableContents | On the table without indexes (`Indexes <- NoIndexes`), with TRUNCATE issued too and four WHERE clauses for DELETE and UPDATE (`HeapPreds`: none, `a = 1`, `NOT b = 1`, which is FALSE or UNKNOWN on every row and so admits none, and a WHERE that throws TYPE_ERROR on every row), on a file of 2 pages of 38 bytes: a page holds two rows when one of them has a NULL, so an UPDATE that sets `b` on a 13-byte row relocates it into the free space of its own page (the case a scan that did not collect its targets first would see twice) or, when the page is full, to the other page, and TRUNCATE frees the second page for later inserts: the file's pages are the heap chain plus the freelist, each once, and `MC_DMLContents` implements `TableContents`: every statement changes the rows a heap scan reads exactly as the abstract specification says, so `delete_all`/`update_all` touch every admitted row once, a relocating update neither loses nor repeats a row while the scan goes on, and a failed statement changes nothing (7,409 distinct states). |
| dml_insert_dup_leaves_row | IndexComplete (violation) | An INSERT refused with DUPLICATE_KEY leaves its row in the heap without an index entry. |
| dml_truncate_ghost_rows | SelectSound (violation) | After TRUNCATE, SELECT through the index returns a deleted row read from a freed page. |
| dml_order_by_index_bytes | OrderByHonoured (violation) | ORDER BY through an INTEGER index follows little-endian byte order: 256 before 1. |

### DDL executor

Bounds: columns `a`, `b`, `c` (INTEGER); `MaxColumns = 2`, so ADD COLUMN c
on `(a, b)` is refused with MAX_COLUMNS, after the heap rewrite (the `ddl`
run adds `c` to the ADD COLUMN inputs, `WideAddDefs`); INSERT values `{1}`; index names 1 (a user name) and 2 (the name
`t_pk`, which users may take too); CREATE TABLE with `(a PRIMARY KEY)` or
`(a, b)`; ADD COLUMN `b`, `b NOT NULL DEFAULT 1`, `b NOT NULL DEFAULT NULL`
(refused in the middle of the rewrite) and `a` (a taken name). Table ids
bounded to 2 (one drop and re-create), index ids to 2, schema versions to
3 (create, then two ALTERs). Pages of 21 bytes hold one row with a value, so
three inserts fill the 3-page file and a rewrite needs fresh pages. For the
same reason an ALTER that succeeds runs on a table of at most one row: the
rewrite of two rows needs two pages beside the old two, and `free_chain`
of a chain longer than one page is not reached (a 4-page file reaches it
but takes the run to about 2 minutes). A step
that would pass a bound is not taken. The view `StateView` forgets the last
result and the bodies of pages outside every table's chain: such a page is
only read again after `new_page` resets it.

| run | checks | shows |
|---|---|---|
| ddl | TypeOK, CatalogConsistent, RowsMatchSchema, PagesNotShared | On table t, every sequence of all seven statements keeps the catalog consistent (unique names, dense ordinals, indexes on active columns of existing tables, index files = catalog indexes), every stored row shaped like the current schema, and no page owned twice (79 461 states). |
| ddl_table_exists_leak | PagesAccounted (violation) | CREATE TABLE on a taken name loses the root page it took. |
| ddl_create_index_no_backfill | IndexCoversRows (violation) | CREATE INDEX leaves existing rows out. |
| ddl_alter_rebuild_stale_index | IndexSound (violation) | A DUPLICATE_KEY in the index rebuild of ALTER TABLE leaves later indexes pointing into the freed heap. |
| ddl_pk_name_taken | PrimaryKeyIndexed (violation) | With tables t and u and every statement but DROP INDEX: CREATE TABLE u(a PRIMARY KEY), CREATE INDEX t_pk ON u(a), CREATE TABLE t(a PRIMARY KEY) leaves t's key without a unique index, so INSERT no longer enforces it. |

Every property of a passing run has a mutant in `PROJECT.json`: a plausible
bug in the mapped code (a missing renumber, a swapped argument, a missing
pop, an unfilled column) under which TLC finds the property violated.

## Findings

The violation runs above are the findings; `PROJECT.json` gives each with
the source line and what the spec says. In short: INSERT and ALTER TABLE are
not atomic over the heap and the indexes; CREATE INDEX does not backfill;
TRUNCATE, DROP TABLE and failed CREATE TABLE/ALTER TABLE leave pages or
index entries behind; index order is byte order, not numeric order; a
non-unique index keeps one rid per key.

Three further observations were made while modelling and have no run of
their own, the number of runs being kept small:

* DROP TABLE frees only the root page (ddl_executor.cpp:186): dropping a
  table whose heap grew to two pages loses the second one, the same loss
  `PagesAccounted` shows for a failed CREATE TABLE.
* SELECT through a non-unique index loses rows, because the tree keeps one
  rid per key (the cause is checked by tree_nonunique_keeps_duplicates).
  DELETE does too: with a non-unique index on `b`, INSERT (1, 1), INSERT
  (1, 1), DELETE WHERE b = 1 leaves one of the two rows, because the
  index scan that collects the targets finds one rid. `ImplementsTableContents`
  is checked on a table without indexes for this reason.
* ORDER BY puts NULLs last for ASC where spec.md 4.11 step 6 says first:
  the comparator (src/unnamed/part_009:730) puts a non-NULL value before
  NULL in either direction.

The `<t>_pk` collision (ddl_executor.cpp:141, checked by ddl_pk_name_taken)
comes from the synthesized index using IF NOT EXISTS, which spec.md 4.10
prescribes without saying what a collision means; DROP INDEX on the primary
index (line 252) reaches the same state in one statement.

## Fairness

The program is sequential and every call returns. No liveness property is
claimed and no fairness is assumed: what matters is which states sequences
of statements reach.

## Not modelled

* Node serialization bytes and the byte-size split trigger: integer keys
  never reach it.
* Types other than INTEGER, multi-column indexes, joins, aggregates,
  DISTINCT, LIMIT and projections; `evaluate_scalar`, `coerce_to_type`
  between types and the column lookup by qualifier (one table, columns
  named by id).
* The buffer pool, I/O errors and the table-file creation of CREATE TABLE
  with its rollback: that rollback forgets the `<t>_pk` index file
  (ddl_executor.cpp:150), listed as a hazard without a property.
* PAGE_FULL on the catalog pages, the catalog's own pages and the metadata
  page (outside the modelled page set). Each catalog kind lives on one page;
  a PAGE_FULL in the middle of create_table's column loop or of a page
  rewrite would leave a partial catalog (catalog_manager.cpp:669, 523). The
  model's catalog is a set without a byte budget, so this is a hazard
  without a property.
* The qualified-name fallback of `lookup_column`
  (expression_evaluator.cpp:97): `x.a` with an unknown qualifier resolves to
  `a`. Columns are named by id over one table in the model.
* The parsers, the REPL and the benchmark driver.
* Crash recovery: the system has no WAL, and spec.md makes recovery a
  non-goal.
