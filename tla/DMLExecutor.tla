---------------------------- MODULE DMLExecutor ----------------------------
(***************************************************************************)
(* The DML executor (DMLExecutor in src/unnamed/part_009) over one table  *)
(* t(a INTEGER NOT NULL, b INTEGER) with its heap and its indexes.  Every *)
(* statement is one step: the whole handler runs, and an exception thrown *)
(* part-way ends the step with the effects made before it (there is no    *)
(* rollback).  SELECT changes nothing and is an operator.                 *)
(*                                                                         *)
(* The heap is a chain of slotted pages: TableHeap as implemented in      *)
(* src/src/engine/expression_evaluator.h (lines 145-317), over Page and   *)
(* PageManager of spec.md 4.1, 4.2.  A page holds slots [row, len, dead]  *)
(* and `used` payload bytes; a freed page keeps its slots until reused.   *)
(* An index is a function from encoded key to rid, which is what          *)
(* BPlusTree implements (run tree_refines_keyridmap), with a unique index *)
(* refusing a present key.  A rid is the pair <<page, slot>> that         *)
(* make_record_id packs into 64 bits and decode_record_id unpacks.        *)
(***************************************************************************)
EXTENDS Integers, Sequences, FiniteSets, Bags, TLC, TableHeap, ExpressionEvaluator

SE == INSTANCE SequencesExt

CONSTANTS
    Vals,          \* the integer literals statements use for a
    BVals,         \* the integer literals statements use for b
    Indexes,       \* the table's indexes in catalog order: <<[col, unique]>>
    Preds,         \* WHERE clauses: expressions, or NoWhere
    Orders,        \* ORDER BY clauses: [col, asc], or [col |-> 0] for none
    MaxInsertRows  \* rows in one INSERT statement

VARIABLES
    db,        \* the table file and the index contents: [heap, free, count, idx]
    result     \* the outcome of the last statement

vars == <<db, result>>

Cols == 1..2           \* column ids of a and b
NotNull == {1}         \* a is NOT NULL
Root == 1              \* the heap root page, allocated by CREATE TABLE
NoKey == <<>>          \* an absent scan bound
NoScan == [ix |-> 0]
ColVals == [c \in Cols |-> (IF c = 1 THEN Vals ELSE BVals) \cup {Null}]
Row == {r \in [Cols -> Vals \cup BVals \cup {Null}] : \A c \in Cols : r[c] \in ColVals[c]}

NotNullUnchecked(row) == FALSE

(* encode_row / coerce_value_for_column: NULL into a NOT NULL column.      *)
ViolatesNotNull(row) == \E c \in NotNull : row[c] = Null

-----------------------------------------------------------------------------
(* The indexes: encoded key -> rid (BPlusTree Insert, Remove, ScanRange). *)

BuildIndexKey(ix, row) == EncodeValues(<<row[ix.col]>>)

IdxPut(m, k, r) == [x \in DOMAIN m \cup {k} |-> IF x = k THEN r ELSE m[x]]

Duplicate(ix, m, k) == ix.unique /\ k \in DOMAIN m

IdxRemove(m, k, r) ==
    IF k \in DOMAIN m /\ m[k] = r THEN [x \in DOMAIN m \ {k} |-> m[x]] ELSE m

AboveLower(k, lo, incl) ==
    lo = NoKey \/ CompareKeys(k, lo) > 0 \/ (incl /\ CompareKeys(k, lo) = 0)
BelowUpper(k, hi, incl) ==
    hi = NoKey \/ CompareKeys(k, hi) < 0 \/ (incl /\ CompareKeys(k, hi) = 0)

IdxScan(m, lo, loIncl, hi, hiIncl) ==
    LET ks == SE!SetToSortSeq({k \in DOMAIN m : AboveLower(k, lo, loIncl)
                                                /\ BelowUpper(k, hi, hiIncl)},
                              LAMBDA x, y : CompareKeys(x, y) < 0)
    IN [j \in 1..Len(ks) |-> m[ks[j]]]

-----------------------------------------------------------------------------
(* WHERE: an expression of ExpressionEvaluator, or none at all.          *)

NoWhere == [kind |-> "NONE"]

(* A verdict that lets UNKNOWN through as if it were TRUE.                *)
WhereResultUnknownTrue(pred, row) ==
    IF pred = NoWhere THEN "True"
    ELSE IF EvaluatePredicate(pred, row) = "Unknown" THEN "True" ELSE EvaluatePredicate(pred, row)

(* The evaluator's verdict on a row (evaluate_predicate); no WHERE admits *)
(* every row.                                                              *)
WhereResult(pred, row) == IF pred = NoWhere THEN "True" ELSE EvaluatePredicate(pred, row)

(* ColumnPredicate and its apply_* members.                                *)
FreshColumnPredicate ==
    [eq |-> Null, lo |-> Null, loIncl |-> FALSE, hi |-> Null, hiIncl |-> FALSE,
     contra |-> FALSE]

BoundsCompatible(c) ==
    /\ ~c.contra
    /\ c.lo # Null /\ c.hi # Null
         => c.lo < c.hi \/ (c.lo = c.hi /\ c.loIncl /\ c.hiIncl)

Checked(c) == IF BoundsCompatible(c) THEN c ELSE [c EXCEPT !.contra = TRUE]

ApplyLower(c, v, incl) ==
    IF c.contra THEN c
    ELSE Checked(CASE c.lo = Null \/ v > c.lo -> [c EXCEPT !.lo = v, !.loIncl = incl]
                   [] v = c.lo -> [c EXCEPT !.loIncl = @ /\ incl]
                   [] OTHER -> c)

ApplyUpper(c, v, incl) ==
    IF c.contra THEN c
    ELSE Checked(CASE c.hi = Null \/ v < c.hi -> [c EXCEPT !.hi = v, !.hiIncl = incl]
                   [] v = c.hi -> [c EXCEPT !.hiIncl = @ /\ incl]
                   [] OTHER -> c)

ApplyEquality(c, v) ==
    CASE c.contra -> c
      [] c.eq # Null /\ c.eq # v -> [c EXCEPT !.contra = TRUE]
      [] OTHER -> ApplyUpper(ApplyLower([c EXCEPT !.eq = v], v, TRUE), v, TRUE)

(* A literal on the left turns the comparison round.                       *)
EffectiveOpUnflipped(op, colLeft) == op

EffectiveOp(op, colLeft) ==
    IF colLeft THEN op
    ELSE CASE op = "<" -> ">" [] op = "<=" -> ">=" [] op = ">" -> "<"
           [] op = ">=" -> "<=" [] op = "=" -> "="

ApplyOp(c, op, v) ==
    CASE op = "=" -> ApplyEquality(c, v)
      [] op = ">" -> ApplyLower(c, v, FALSE) [] op = ">=" -> ApplyLower(c, v, TRUE)
      [] op = "<" -> ApplyUpper(c, v, FALSE) [] op = "<=" -> ApplyUpper(c, v, TRUE)

(* literal_to_value_for_column on an INTEGER column: the literal must fit *)
(* int32.                                                                  *)
LiteralForColumn(lit) == IF lit = Int64Literal THEN TypeError ELSE lit

ColumnLiteral(e) ==
    e.kind = "BINARY" /\ {e.left.kind, e.right.kind} = {"COLUMN_REF", "LITERAL"}

(* extract_column_predicates' visit: AND visits its left side, then (if   *)
(* that succeeded) its right side; a comparison of a column with a        *)
(* literal (not !=) narrows the column's predicate; anything else, or a   *)
(* NULL literal, gives up on the whole WHERE (some = FALSE: nullopt).     *)
(* A literal that does not fit the column throws.                          *)
RECURSIVE Visit(_, _)
Visit(x, e) ==
    CASE e.kind = "BINARY" /\ e.op = "AND" ->
           LET x1 == Visit(x, e.left)
           IN IF ~x1.some \/ x1.thrown THEN x1 ELSE Visit(x1, e.right)
      [] ColumnLiteral(e) /\ e.op \in {"=", "<", "<=", ">", ">="} ->
           LET colLeft == e.left.kind = "COLUMN_REF"
               col == IF colLeft THEN e.left.col ELSE e.right.col
               v == LiteralForColumn(IF colLeft THEN e.right.lit ELSE e.left.lit)
               c == IF col \in DOMAIN x.preds THEN x.preds[col] ELSE FreshColumnPredicate
           IN CASE Thrown(v) -> [x EXCEPT !.thrown = TRUE]
                [] v = Null -> [x EXCEPT !.some = FALSE]
                [] OTHER ->
                     LET c2 == ApplyOp(c, EffectiveOp(e.op, colLeft), v)
                     IN [x EXCEPT !.preds = (col :> c2) @@ @, !.contra = @ \/ c2.contra]
      [] OTHER -> [x EXCEPT !.some = FALSE]

(* After the visit, a column whose bounds cannot meet is a contradiction. *)
ExtractColumnPredicates(pred) ==
    LET x == Visit([some |-> TRUE, thrown |-> FALSE, contra |-> FALSE, preds |-> <<>>], pred)
    IN [x EXCEPT !.contra = @ \/ \E c \in DOMAIN x.preds : ~BoundsCompatible(x.preds[c])]

(* choose_index_scan: the first index whose column has an equality, else  *)
(* the first whose column has any predicate (a range).                    *)
ChooseIndexScan(x) ==
    LET onCol == {i \in 1..Len(Indexes) : Indexes[i].col \in DOMAIN x.preds}
        eqIx == {i \in onCol : x.preds[Indexes[i].col].eq # Null}
        i == IF eqIx # {} THEN FirstOf(eqIx, 0) ELSE FirstOf(onCol, 0)
        c == x.preds[Indexes[i].col]
    IN CASE x.contra \/ i = 0 -> NoScan
         [] c.eq # Null -> [ix |-> i, lo |-> c.eq, loIncl |-> TRUE, hi |-> c.eq, hiIncl |-> TRUE]
         [] OTHER -> [ix |-> i, lo |-> c.lo, loIncl |-> c.loIncl, hi |-> c.hi, hiIncl |-> c.hiIncl]

(* The scan a WHERE drives (only when it has one, it extracts, and the    *)
(* table has indexes).                                                     *)
PredicateScan(pred, x) ==
    IF pred # NoWhere /\ x.some /\ Len(Indexes) > 0 THEN ChooseIndexScan(x) ELSE NoScan

Contradiction(pred, x) == pred # NoWhere /\ x.some /\ x.contra

EncodedBound(v) == IF v = Null THEN NoKey ELSE EncodeValues(<<v>>)

(* run_index_scan: ScanEqual or ScanRange over the encoded literal(s).     *)
RunIndexScan(idx, sp) ==
    IdxScan(idx[sp.ix], EncodedBound(sp.lo), sp.loIncl, EncodedBound(sp.hi), sp.hiIncl)

(* The rows a statement reads: the index candidates (rids, read later),  *)
(* or the live rows of a heap scan.                                        *)
Candidates(d, pred, x) ==
    LET sp == PredicateScan(pred, x)
    IN IF sp.ix # 0 THEN RunIndexScan(d.idx, sp) ELSE HeapScan(d.heap, Root)

(* update_all's collect_target over the candidates that still read: the   *)
(* rows the WHERE admits; thrown when the extraction or the evaluation of *)
(* any row read throws.                                                    *)
Targets(d, pred) ==
    LET x == ExtractColumnPredicates(pred)
        cands == SelectSeq(Candidates(d, pred, x), LAMBDA l : Readable(d.heap, l))
        verdict(l) == WhereResult(pred, RowAt(d.heap, l))
    IN CASE x.thrown -> [thrown |-> TRUE, locs |-> <<>>]
         [] Contradiction(pred, x) -> [thrown |-> FALSE, locs |-> <<>>]
         [] OTHER -> [thrown |-> \E j \in 1..Len(cands) : Thrown(verdict(cands[j])),
                      locs |-> SelectSeq(cands, LAMBDA l : verdict(l) = "True")]

-----------------------------------------------------------------------------
(* The statements.  A statement runs on a scratch record: the database    *)
(* fields, the heap's cached tail (a TableHeap is built per statement),   *)
(* the rid of the last heap write, and the error that stops it.           *)

(* The statement's TableHeap over the table root, and the table's indexes. *)
Begin(d) == OpenHeap([heap |-> d.heap, free |-> d.free, count |-> d.count, idx |-> d.idx,
                      tail |-> NoPage, loc |-> <<NoPage, 0>>, err |-> "ok"], Root)

Commit(s) ==
    /\ s.err # "BOUND"
    /\ db' = [heap |-> s.heap, free |-> s.free, count |-> s.count, idx |-> s.idx]
    /\ result' = s.err

(* insert_into, per index: tree.Insert(key, rid), DUPLICATE_KEY stops.     *)
InsertIntoIndexes(s, row, rid) ==
    LET step(t, i) ==
          LET k == BuildIndexKey(Indexes[i], row)
          IN CASE t.err # "ok" -> t
               [] Duplicate(Indexes[i], t.idx[i], k) -> [t EXCEPT !.err = "DUPLICATE_KEY"]
               [] OTHER -> [t EXCEPT !.idx[i] = IdxPut(@, k, rid)]
    IN SE!FoldLeft(step, s, [i \in 1..Len(Indexes) |-> i])

(* insert_into, per row: encode_row (NOT NULL check), heap.insert, then   *)
(* every index; rows already stored stay when a later one fails.          *)
InsertOne(s, row) ==
    CASE s.err # "ok" -> s
      [] ViolatesNotNull(row) -> [s EXCEPT !.err = "INVALID_CONSTRAINT"]
      [] OTHER -> LET s1 == HeapInsert(s, row)
                  IN IF s1.err # "ok" THEN s1 ELSE InsertIntoIndexes(s1, row, s1.loc)

InsertInto(rows) == Commit(SE!FoldLeft(InsertOne, Begin(db), rows))

(* delete_all's remove_row: erase, then tree.Remove(key, rid) everywhere.  *)
RemoveRow(s, loc) ==
    LET row == RowAt(s.heap, loc)
        s1 == HeapErase(s, loc)
    IN [s1 EXCEPT !.idx = [i \in 1..Len(Indexes) |->
                             IdxRemove(s1.idx[i], BuildIndexKey(Indexes[i], row), loc)]]

(* delete_all: each candidate is read, evaluated and removed in turn, so *)
(* a throw part-way keeps the removals made before it.                     *)
DeleteAll(pred) ==
    LET x == ExtractColumnPredicates(pred)
        step(s, l) ==
          CASE s.err # "ok" \/ ~Readable(s.heap, l) -> s
            [] Thrown(WhereResult(pred, RowAt(s.heap, l))) -> [s EXCEPT !.err = TypeError]
            [] WhereResult(pred, RowAt(s.heap, l)) = "True" -> RemoveRow(s, l)
            [] OTHER -> s
    IN Commit(CASE x.thrown -> [Begin(db) EXCEPT !.err = TypeError]
                [] Contradiction(pred, x) -> Begin(db)
                [] OTHER -> SE!FoldLeft(step, Begin(db), Candidates(db, pred, x)))

(* update_all leaves an index alone when neither rid nor key changed.      *)
KeepIndexEntryEither(oldRid, newRid, oldKey, newKey) == oldRid = newRid \/ oldKey = newKey

KeepIndexEntry(oldRid, newRid, oldKey, newKey) == oldRid = newRid /\ oldKey = newKey

(* update_all, per index: Remove(old key, old rid), Insert(new key, rid).  *)
UpdateIndexes(s, old, new, oldRid, newRid) ==
    LET step(t, i) ==
          LET ok == BuildIndexKey(Indexes[i], old)
              nk == BuildIndexKey(Indexes[i], new)
              m1 == IdxRemove(t.idx[i], ok, oldRid)
          IN CASE t.err # "ok" \/ KeepIndexEntry(oldRid, newRid, ok, nk) -> t
               [] Duplicate(Indexes[i], m1, nk) -> [t EXCEPT !.idx[i] = m1, !.err = "DUPLICATE_KEY"]
               [] OTHER -> [t EXCEPT !.idx[i] = IdxPut(m1, nk, newRid)]
    IN SE!FoldLeft(step, s, [i \in 1..Len(Indexes) |-> i])

(* update_all: targets and their values are collected first; then each    *)
(* gets SET col = lit (coerce_value_for_column refuses NULL for NOT NULL), *)
(* heap.update, and the index maintenance.                                 *)
UpdateAll(pred, col, lit) ==
    LET tg == Targets(db, pred)
        ts == tg.locs
        step(s, j) ==
          LET old == RowAt(db.heap, ts[j])
              new == [old EXCEPT ![col] = lit]
              s1 == HeapUpdate(s, ts[j], new)
          IN CASE s.err # "ok" -> s
               [] ViolatesNotNull(new) -> [s EXCEPT !.err = "INVALID_CONSTRAINT"]
               [] s1.err # "ok" -> s1
               [] OTHER -> UpdateIndexes(s1, old, new, ts[j], s1.loc)
    IN Commit(IF tg.thrown THEN [Begin(db) EXCEPT !.err = TypeError]
              ELSE SE!FoldLeft(step, Begin(db), [j \in 1..Len(ts) |-> j]))

(* truncate: the heap only; the indexes keep their entries.                *)
Truncate ==
    /\ db' = HeapTruncate(db, Root)
    /\ result' = "ok"

InsertRowSeqs == UNION {[1..n -> Row] : n \in 1..MaxInsertRows}

Init ==
    /\ db = [heap |-> [p \in 1..MaxPages |-> EmptyPage], free |-> <<>>, count |-> 1,
             idx |-> [i \in 1..Len(Indexes) |-> <<>>]]
    /\ result = "ok"

(* The statements but TRUNCATE, for the runs on a table with indexes,     *)
(* where TRUNCATE's stale entries are a finding of their own.              *)
NextWithoutTruncate ==
    \/ \E rows \in InsertRowSeqs : InsertInto(rows)
    \/ \E p \in Preds : DeleteAll(p)
    \/ \E p \in Preds, c \in Cols : \E v \in ColVals[c] : UpdateAll(p, c, v)

Next == NextWithoutTruncate \/ Truncate

Spec == Init /\ [][Next]_vars

-----------------------------------------------------------------------------
(* SELECT over the single table (DMLExecutor::select, lines 427-582, and   *)
(* the ORDER BY step): an operator of the database it reads, giving the   *)
(* rows and whether the statement throws.                                  *)

(* The ORDER BY fallback: a ScanRange over the order index bounded by the *)
(* WHERE's predicate on that index's first column, if there is one.       *)
OrderIndexScan(pred, x, oi) ==
    LET col == Indexes[oi].col
        c == x.preds[col]
    IN CASE ~(pred # NoWhere /\ x.some /\ col \in DOMAIN x.preds) ->
              [ix |-> oi, lo |-> Null, loIncl |-> TRUE, hi |-> Null, hiIncl |-> TRUE]
         [] c.eq # Null -> [ix |-> oi, lo |-> c.eq, loIncl |-> TRUE, hi |-> c.eq, hiIncl |-> TRUE]
         [] OTHER -> [ix |-> oi, lo |-> c.lo, loIncl |-> c.loIncl, hi |-> c.hi, hiIncl |-> c.hiIncl]

(* The comparator of the ORDER BY stable_sort: a non-NULL value before a  *)
(* NULL one, then compare() in the term's direction.                       *)
RowLess(x, y, ord) ==
    LET lv == x[ord.col]
        rv == y[ord.col]
    IN IF (lv = Null) # (rv = Null) THEN rv = Null
       ELSE lv # Null /\ IF ord.asc THEN lv < rv ELSE lv > rv

(* std::stable_sort: equal rows keep their relative order.                 *)
SortRows(rows, ord) ==
    LET before(i, j) == RowLess(rows[i], rows[j], ord)
                        \/ (~RowLess(rows[j], rows[i], ord) /\ i < j)
        pos(i) == Cardinality({j \in 1..Len(rows) : before(j, i)}) + 1
    IN [p \in 1..Len(rows) |-> rows[CHOOSE i \in 1..Len(rows) : pos(i) = p]]

ProcessRowUnchecked(pred, row) == TRUE

(* process_row: the WHERE is evaluated again on every row read.            *)
ProcessRow(pred, row) == WhereResult(pred, row) = "True"

InFinalOrderForward(rids, ord, inOrder) == rids

(* An index scan delivering the final order is reversed for all-DESC.      *)
InFinalOrder(rids, ord, inOrder) ==
    IF inOrder /\ ~ord.asc THEN SE!Reverse(rids) ELSE rids

(* The access path select takes: the WHERE's index scan, else a scan of   *)
(* the ORDER BY column's index bounded by the WHERE, else the heap.        *)
AccessPath(pred, ord, x, oi) ==
    LET sp == PredicateScan(pred, x)
    IN CASE sp.ix # 0 -> sp
         [] ord.col # 0 /\ oi # 0 -> OrderIndexScan(pred, x, oi)
         [] OTHER -> NoScan

(* The rows select reads along the path, in the order it reads them: the  *)
(* candidate rids that still read, or the heap scan.                      *)
ReadRows(d, path, ord, inOrder) ==
    LET locs == IF path.ix = 0 THEN HeapScan(d.heap, Root)
                ELSE SelectSeq(InFinalOrder(RunIndexScan(d.idx, path), ord, inOrder),
                               LAMBDA l : Readable(d.heap, l))
    IN [j \in 1..Len(locs) |-> RowAt(d.heap, locs[j])]

(* select once the WHERE is extracted: a throw of the extraction, an      *)
(* empty result for a contradiction, else process_row over the rows read  *)
(* (a throw on any of them ends the statement) and the sort unless the    *)
(* path delivered the order.                                               *)
SelectGiven(d, pred, ord, x) ==
    LET oi == FirstOf({i \in 1..Len(Indexes) : Indexes[i].col = ord.col}, 0)
        path == AccessPath(pred, ord, x, oi)
        inOrder == path.ix # 0 /\ ord.col # 0 /\ path.ix = oi
        read == ReadRows(d, path, ord, inOrder)
        rows == SelectSeq(read, LAMBDA r : ProcessRow(pred, r))
    IN CASE x.thrown -> [thrown |-> TRUE, rows |-> <<>>]
         [] Contradiction(pred, x) -> [thrown |-> FALSE, rows |-> <<>>]
         [] OTHER -> [thrown |-> \E j \in 1..Len(read) : Thrown(WhereResult(pred, read[j])),
                      rows |-> IF ord.col # 0 /\ ~inOrder THEN SortRows(rows, ord) ELSE rows]

Select(d, pred, ord) == SelectGiven(d, pred, ord, ExtractColumnPredicates(pred))

-----------------------------------------------------------------------------
(* Views for the properties.                                               *)

(* The state up to the contents of dead slots, which no operation reads   *)
(* (a slot never comes back to life; a reused page is re-initialized).    *)
Canonical ==
    <<[p \in 1..MaxPages |->
         [db.heap[p] EXCEPT !.slots = [k \in DOMAIN @ |->
             IF @[k].dead THEN [row |-> <<>>, len |-> 0, dead |-> TRUE] ELSE @[k]]]],
      db.free, db.count, db.idx, result>>

LiveRows(d) == LET ls == HeapScan(d.heap, Root) IN [j \in 1..Len(ls) |-> RowAt(d.heap, ls[j])]

(* The WHERE semantics of spec.md 4.9, written as Kleene's logic over    *)
(* False < Unknown < True (0, 1, 2): AND is the least, OR the greatest,   *)
(* NOT the mirror image, a comparison with a NULL side Unknown, a number  *)
(* in predicate position true unless zero.                                 *)
SpecOperand(e, row) == IF e.kind = "LITERAL" THEN e.lit ELSE row[e.col]

SpecCompare(op, l, r) ==
    CASE l = Null \/ r = Null -> 1
      [] op = "=" -> IF l = r THEN 2 ELSE 0
      [] op = "!=" -> IF l # r THEN 2 ELSE 0
      [] op = "<" -> IF l < r THEN 2 ELSE 0
      [] op = "<=" -> IF l <= r THEN 2 ELSE 0
      [] op = ">" -> IF l > r THEN 2 ELSE 0
      [] op = ">=" -> IF l >= r THEN 2 ELSE 0

RECURSIVE SpecTruth(_, _)
SpecTruth(e, row) ==
    CASE e.kind \in {"LITERAL", "COLUMN_REF"} ->
           LET v == SpecOperand(e, row) IN IF v = Null THEN 1 ELSE IF v = 0 THEN 0 ELSE 2
      [] e.kind = "UNARY" -> 2 - SpecTruth(e.left, row)
      [] e.kind = "BINARY" /\ e.op = "AND" ->
           LET l == SpecTruth(e.left, row) r == SpecTruth(e.right, row) IN IF l < r THEN l ELSE r
      [] e.kind = "BINARY" /\ e.op = "OR" ->
           LET l == SpecTruth(e.left, row) r == SpecTruth(e.right, row) IN IF l > r THEN l ELSE r
      [] e.kind = "BINARY" -> SpecCompare(e.op, SpecOperand(e.left, row), SpecOperand(e.right, row))
      [] e.kind = "NULL_TEST" -> IF (SpecOperand(e.left, row) = Null) # e.notnull THEN 2 ELSE 0

(* spec.md 4.9: a literal that does not fit the INTEGER column it is      *)
(* compared with is a TYPE_ERROR of the statement.                         *)
RECURSIVE SpecFails(_)
SpecFails(e) ==
    CASE e.kind = "UNARY" -> SpecFails(e.left)
      [] e.kind = "BINARY" /\ e.op \in {"AND", "OR"} -> SpecFails(e.left) \/ SpecFails(e.right)
      [] e.kind = "BINARY" ->
           \E s \in {<<e.left, e.right>>, <<e.right, e.left>>} :
               s[1].kind = "LITERAL" /\ s[1].lit = Int64Literal /\ s[2].kind = "COLUMN_REF"
      [] OTHER -> FALSE

(* The rows a statement that does not fail may return: those for which   *)
(* the WHERE is True.                                                      *)
SpecAdmits(pred, row) == pred = NoWhere \/ (~SpecFails(pred) /\ SpecTruth(pred, row) = 2)

(* The stored rows the WHERE admits, in heap order.                        *)
Matching(d, pred) == SelectSeq(LiveRows(d), LAMBDA r : SpecAdmits(pred, r))

Ordered == {o \in Orders : o.col # 0}

TypeOK ==
    /\ db.heap \in [1..MaxPages -> [slots : Seq([row : {r \in Row : \A c \in NotNull : r[c] # Null},
                                                  len : Nat, dead : BOOLEAN]),
                                     used : Nat, next : 0..MaxPages]]
    /\ db.count \in 1..MaxPages
    /\ db.free \in Seq(2..MaxPages)
    /\ \A i \in 1..Len(Indexes) :
          \A k \in DOMAIN db.idx[i] : db.idx[i][k] \in (1..MaxPages) \X (1..PageCapacity)
    /\ result \in {"ok", "DUPLICATE_KEY", "INVALID_CONSTRAINT", TypeError}

(* Heap pages are never lost or shared: after any mix of inserts, updates *)
(* that relocate rows, and TRUNCATE (which frees the chain), the pages the *)
(* file holds are exactly the heap chain plus the freelist, each once, and *)
(* the chain ends.                                                         *)
PagesAccounted ==
    LET ch == Chain(db.heap, Root)
    IN /\ db.heap[ch[Len(ch)]].next = NoPage
       /\ Len(ch) + Len(db.free) = db.count
       /\ SE!ToSet(ch) \cup SE!ToSet(db.free) = 1..db.count

(* Every index entry points at a live heap row whose key it is: the rid   *)
(* bookkeeping of INSERT, DELETE's remove_row and UPDATE's relocation and *)
(* key change never leaves a stale entry.                                 *)
IndexSound ==
    \A i \in 1..Len(Indexes) : \A k \in DOMAIN db.idx[i] :
        LET l == db.idx[i][k]
        IN Readable(db.heap, l) /\ BuildIndexKey(Indexes[i], RowAt(db.heap, l)) = k

(* spec.md 8, index maintenance: every live heap row has its entry in     *)
(* every index, whatever INSERT, UPDATE or DELETE did before.             *)
IndexComplete ==
    LET ls == HeapScan(db.heap, Root)
    IN \A i \in 1..Len(Indexes), j \in 1..Len(ls) :
          LET k == BuildIndexKey(Indexes[i], RowAt(db.heap, ls[j]))
          IN k \in DOMAIN db.idx[i] /\ db.idx[i][k] = ls[j]

(* What every SELECT the statements can issue gives in this state.         *)
Outcome == [pred \in Preds, ord \in Orders |-> Select(db, pred, ord)]

(* A SELECT that does not throw returns, through whichever access path it *)
(* picks, only stored rows that the WHERE admits under the three-valued   *)
(* semantics of spec.md 4.9, none more often than it is stored.           *)
SelectSound ==
    \A pred \in Preds, ord \in Orders :
        \A r \in {Outcome[pred, ord]} :
           ~r.thrown => SE!ToBag(r.rows) \sqsubseteq SE!ToBag(Matching(db, pred))

(* While every live row has its index entries, a SELECT that does not     *)
(* throw returns every stored row the WHERE admits: the predicate         *)
(* extraction, the contradiction test and the scan bounds that            *)
(* choose_index_scan and the ORDER BY path derive from it never leave a   *)
(* matching row out.                                                       *)
SelectComplete ==
    IndexComplete =>
        \A pred \in Preds, ord \in Orders :
            \A r \in {Outcome[pred, ord]} :
               ~r.thrown => SE!ToBag(Matching(db, pred)) \sqsubseteq SE!ToBag(r.rows)

(* A DELETE or UPDATE that fails with TYPE_ERROR has changed nothing:     *)
(* delete_all evaluates the WHERE row by row and erases each admitted row *)
(* at once, so this holds only because an evaluation that throws does so  *)
(* on the first row it reads.                                              *)
FailedStatementChangesNothing == [][result' = TypeError => db' = db]_vars

(* Consecutive rows in the order the sort comparator allows.              *)
SortedBy(out, ord) == \A i \in 1..Len(out) - 1 : ~RowLess(out[i + 1], out[i], ord)

(* ORDER BY output is in the order the sort comparator defines, whether   *)
(* the rows come sorted from an index scan (possibly reversed) or are     *)
(* sorted afterwards.                                                      *)
OrderByHonoured ==
    \A pred \in Preds, ord \in Ordered :
        \A r \in {Outcome[pred, ord]} : ~r.thrown => SortedBy(r.rows, ord)
=============================================================================
