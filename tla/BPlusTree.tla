------------------------------ MODULE BPlusTree ------------------------------
(***************************************************************************)
(* The disk B+ tree of one index (index_manager.cpp, class BPlusTree).     *)
(* A node is the decoded page: a leaf holds parallel sequences of keys     *)
(* and rids, an internal node its separator keys and children.  The       *)
(* InternalEntry.child field mirrors children[i+1] and is never read by    *)
(* the tree, so it is left out.  Keys are byte strings ordered by         *)
(* CompareKeys.  Pages of the index file are numbered from 1, the          *)
(* metadata page; pageCount is the last page handed out by new_page       *)
(* (an index file never frees a page).                                    *)
(***************************************************************************)
EXTENDS Integers, Sequences, FiniteSets, TLC, RecordCodec

SE == INSTANCE SequencesExt

CONSTANTS Keys,     \* byte strings (sequences of 0..255) that are inserted
          Rids,     \* record ids
          UniqueChoices, \* the unique flags a tree may be built with
          MaxKeys   \* config::BTREE_MAX_KEYS

VARIABLES nodes,     \* page id -> node, for every page of the file
          root,      \* root_page_id_
          pageCount, \* pages handed out so far
          unique,    \* unique_: the flag the tree was built with
          lastCall   \* history: the last Insert or Remove and its arguments

tree == <<nodes, root, pageCount, unique>>
vars == <<nodes, root, pageCount, unique, lastCall>>

NoPage == 0                 \* config::INVALID_PAGE_ID
NoKey  == <<-1>>            \* an absent std::optional key

Node == [leaf: BOOLEAN, keys: Seq(Keys), vals: Seq(Rids),
         kids: Seq(Nat), parent: Nat, next: Nat, prev: Nat]

EmptyLeaf(parent) ==
    [leaf |-> TRUE, keys |-> <<>>, vals |-> <<>>, kids |-> <<>>,
     parent |-> parent, next |-> NoPage, prev |-> NoPage]

(* First position whose key is not below key (1-based; Len+1 if none).   *)
FindLeafIndex(n, key) ==
    FirstOf({i \in 1..Len(n.keys) : ~(CompareKeys(n.keys[i], key) < 0)},
            Len(n.keys) + 1)

(* Mutant: the descent stops at a separator equal to key (< for <=).     *)
FindInternalChildStrict(n, key) == FindLeafIndex(n, key)

(* First separator above key; the child at that position (1-based).      *)
FindInternalChild(n, key) ==
    FirstOf({i \in 1..Len(n.keys) : ~(CompareKeys(n.keys[i], key) <= 0)},
            Len(n.keys) + 1)

(* The descent of Search, Remove and FindLeafPosition: the leaf for key.  *)
(* Remove and FindLeafPosition clamp the child index to the last child.   *)
RECURSIVE LeafFor(_, _, _)
LeafFor(ns, pg, key) ==
    IF ns[pg].leaf THEN pg
    ELSE LeafFor(ns, ns[pg].kids[LesserOf(FindInternalChild(ns[pg], key),
                                          Len(ns[pg].kids))], key)

RECURSIVE LeftmostLeaf(_)
LeftmostLeaf(pg) ==
    IF nodes[pg].leaf THEN pg
    ELSE IF nodes[pg].kids = <<>> THEN NoPage ELSE LeftmostLeaf(nodes[pg].kids[1])

(* The leaf entry at idx has exactly key.                                *)
EqualKeyAt(n, idx, key) == idx <= Len(n.keys) /\ CompareKeys(n.keys[idx], key) = 0

(* Search(key): [found, value] as returned by BPlusTree::Search.          *)
Search(key) ==
    LET n   == nodes[LeafFor(nodes, root, key)]
        idx == FindLeafIndex(n, key)
    IN IF EqualKeyAt(n, idx, key)
       THEN [found |-> TRUE, value |-> n.vals[idx]]
       ELSE [found |-> FALSE]

(* Mutant: new_page hands out a page number one too far.                 *)
NewPageSkip(cnt) == cnt + 2

(* PageManager::new_page in an index file, which never frees a page.     *)
NewPage(cnt) == cnt + 1

(* SplitLeaf / SplitInternal: the left node keeps total/2 entries.        *)
SplitPoint(n) == Len(n.keys) \div 2

(* Mutant: SplitLeaf promotes the last key of the left half.             *)
LeafPromotedKeyLeft(left, right) == left.keys[Len(left.keys)]

(* SplitLeaf promotes the first key of the right half (copied up).       *)
LeafPromotedKey(left, right) == right.keys[1]

(* Mutant: the old right neighbour keeps its prev_leaf.                  *)
LinkRightNeighbourSkipped(ns, next, new) == ns

(* After a leaf split the old right neighbour points back to the new leaf. *)
LinkRightNeighbour(ns, next, new) ==
    IF next # NoPage THEN [ns EXCEPT ![next].prev = new] ELSE ns

(* Mutant: an internal split leaves the moved children's parent as is.   *)
ReparentSkipped(ns, moved, parent) == ns

(* The children moved to a new internal node get it as their parent.     *)
Reparent(ns, moved, parent) ==
    [p \in DOMAIN ns |-> IF p \in moved THEN [ns[p] EXCEPT !.parent = parent]
                         ELSE ns[p]]

(* A state of InsertRecursive on return: the pages written, pages handed  *)
(* out, and the promoted key and new child (NoKey / NoPage if none).      *)
Ret(ns, cnt, promo, child) ==
    [dup |-> FALSE, ns |-> ns, cnt |-> cnt, promo |-> promo, child |-> child]

(* InsertRecursive on a leaf.  DUPLICATE_KEY is raised before any page is *)
(* written; a non-unique tree overwrites the rid of an equal key.         *)
InsertLeaf(ns, cnt, pg, key, val) ==
    LET n   == ns[pg]
        idx == FindLeafIndex(n, key)
        n1  == [n EXCEPT !.keys = SE!InsertAt(@, idx, key), !.vals = SE!InsertAt(@, idx, val)]
        new == NewPage(cnt)
        sp  == SplitPoint(n1)
        right == [EmptyLeaf(n.parent) EXCEPT
                    !.keys = SubSeq(n1.keys, sp + 1, Len(n1.keys)),
                    !.vals = SubSeq(n1.vals, sp + 1, Len(n1.vals)),
                    !.next = n.next, !.prev = pg]
        left  == [n1 EXCEPT !.keys = SubSeq(@, 1, sp), !.vals = SubSeq(@, 1, sp),
                            !.next = new]
    IN CASE EqualKeyAt(n, idx, key) /\ unique -> [dup |-> TRUE]
         [] EqualKeyAt(n, idx, key) /\ ~unique ->
              Ret([ns EXCEPT ![pg].vals[idx] = val], cnt, NoKey, NoPage)
         [] ~EqualKeyAt(n, idx, key) /\ Len(n1.keys) > MaxKeys ->
              Ret((new :> right) @@ [LinkRightNeighbour(ns, n.next, new) EXCEPT ![pg] = left],
                  new, LeafPromotedKey(left, right), new)
         [] OTHER -> Ret([ns EXCEPT ![pg] = n1], cnt, NoKey, NoPage)

(* InsertRecursive on an internal node n (the copy loaded before the      *)
(* descent, written back by StoreNode) once child ci returned r.  An      *)
(* internal split moves the pivot up rather than copying it.              *)
InsertInternal(n, pg, ci, r) ==
    LET n1 == [n EXCEPT !.keys = SE!InsertAt(@, ci, r.promo),
                        !.kids = SE!InsertAt(@, ci + 1, r.child)]
        new   == NewPage(r.cnt)
        sp    == SplitPoint(n1)
        right == [EmptyLeaf(n.parent) EXCEPT !.leaf = FALSE,
                    !.keys = SubSeq(n1.keys, sp + 2, Len(n1.keys)),
                    !.kids = SubSeq(n1.kids, sp + 2, Len(n1.kids))]
        left  == [n1 EXCEPT !.keys = SubSeq(@, 1, sp), !.kids = SubSeq(@, 1, sp + 1)]
    IN CASE r.promo = NoKey -> [r EXCEPT !.ns = [@ EXCEPT ![pg] = n]]
         [] r.promo # NoKey /\ Len(n1.keys) > MaxKeys ->
              Ret((new :> right) @@
                    [Reparent(r.ns, SE!ToSet(right.kids), new) EXCEPT ![pg] = left],
                  new, n1.keys[sp + 1], new)
         [] OTHER -> Ret([r.ns EXCEPT ![pg] = n1], r.cnt, NoKey, NoPage)

RECURSIVE InsertRecursive(_, _, _, _, _)
InsertRecursive(ns, cnt, pg, key, val) ==
    IF ns[pg].leaf THEN InsertLeaf(ns, cnt, pg, key, val)
    ELSE LET ci == FindInternalChild(ns[pg], key)
             r  == InsertRecursive(ns, cnt, ns[pg].kids[ci], key, val)
         IN IF r.dup THEN r ELSE InsertInternal(ns[pg], pg, ci, r)

(* BPlusTree::BPlusTree with root INVALID_PAGE_ID: a fresh index file     *)
(* whose first data page becomes an empty leaf root.                      *)
Init ==
    /\ nodes = (2 :> EmptyLeaf(NoPage))
    /\ root = 2
    /\ pageCount = 2
    /\ unique \in UniqueChoices
    /\ lastCall = <<"None">>

(* BPlusTree::Insert: a root split makes a new internal root over the old *)
(* root and the promoted child.  DUPLICATE_KEY leaves every page as is.   *)
Insert(key, val) ==
    LET r  == InsertRecursive(nodes, pageCount, root, key, val)
        nr == NewPage(r.cnt)
    IN IF r.dup THEN UNCHANGED tree
       ELSE IF r.promo = NoKey
       THEN /\ nodes' = r.ns
            /\ pageCount' = r.cnt
            /\ UNCHANGED <<root, unique>>
       ELSE
            /\ nodes' = (nr :> [EmptyLeaf(NoPage) EXCEPT !.leaf = FALSE,
                                  !.keys = <<r.promo>>, !.kids = <<root, r.child>>])
                        @@ [r.ns EXCEPT ![root].parent = nr, ![r.child].parent = nr]
            /\ pageCount' = nr
            /\ root' = nr
            /\ UNCHANGED unique

(* Mutant: Remove erases the first entry with the key, whatever its rid. *)
RemoveAnyValue(key, val) ==
    LET pg  == LeafFor(nodes, root, key)
        idx == FindLeafIndex(nodes[pg], key)
    IN /\ nodes' = IF EqualKeyAt(nodes[pg], idx, key)
                   THEN [nodes EXCEPT ![pg].keys = SE!RemoveAt(@, idx),
                                      ![pg].vals = SE!RemoveAt(@, idx)]
                   ELSE nodes
       /\ UNCHANGED <<root, pageCount, unique>>

(* BPlusTree::Remove: erase the first entry equal in key and value; the   *)
(* leaf is stored even when it becomes empty (there is no merge).         *)
Remove(key, val) ==
    LET pg  == LeafFor(nodes, root, key)
        n   == nodes[pg]
        idx == FindLeafIndex(n, key)
        run == {i \in idx..Len(n.keys) :
                  \A j \in idx..i : CompareKeys(n.keys[j], key) = 0}
        hit == FirstOf({i \in run : n.vals[i] = val}, 0)
    IN /\ nodes' = IF hit = 0 THEN nodes
                   ELSE [nodes EXCEPT ![pg].keys = SE!RemoveAt(@, hit),
                                      ![pg].vals = SE!RemoveAt(@, hit)]
       /\ UNCHANGED <<root, pageCount, unique>>

(* Mutant: an exclusive lower bound lets an equal key through.           *)
BelowLowerInclusive(k, lower, lowerIncl) ==
    lower # NoKey /\ CompareKeys(k, lower) < 0

(* ScanRange skips (continue) an entry below the lower bound.            *)
BelowLower(k, lower, lowerIncl) ==
    lower # NoKey /\ (CompareKeys(k, lower) < 0 \/
                      (CompareKeys(k, lower) = 0 /\ ~lowerIncl))

(* BPlusTree::ScanRange; lower/upper = NoKey means unbounded.  From the   *)
(* start leaf it follows next_leaf, skips entries below the lower bound   *)
(* and returns at the first entry above the upper bound.                  *)
ScanRange(lower, lowerIncl, upper, upperIncl) ==
    LET below(k) == BelowLower(k, lower, lowerIncl)
        above(k) == upper # NoKey /\ (CompareKeys(k, upper) > 0 \/
                                      (CompareKeys(k, upper) = 0 /\ ~upperIncl))
        RECURSIVE Walk(_, _)
        Walk(pg, start) ==
          IF pg = NoPage THEN <<>>
          ELSE LET n    == nodes[pg]
                   stop == FirstOf({i \in start..Len(n.keys) :
                                      ~below(n.keys[i]) /\ above(n.keys[i])}, 0)
                   last == IF stop = 0 THEN Len(n.keys) ELSE stop - 1
                   idxs == [j \in 1..(last - start + 1) |-> start + j - 1]
                   kept == SelectSeq(idxs, LAMBDA i : ~below(n.keys[i]))
                   got  == [j \in 1..Len(kept) |-> n.vals[kept[j]]]
               IN IF stop # 0 THEN got ELSE got \o Walk(n.next, 1)
        first == IF lower # NoKey THEN LeafFor(nodes, root, lower) ELSE LeftmostLeaf(root)
        from  == IF lower # NoKey THEN FindLeafIndex(nodes[first], lower) ELSE 1
    IN Walk(first, from)

ScanEqual(key) == ScanRange(key, TRUE, key, TRUE)

Next == \E k \in Keys, v \in Rids :
          \/ Insert(k, v) /\ lastCall' = <<"Insert", k, v>>
          \/ Remove(k, v) /\ lastCall' = <<"Remove", k, v>>

Spec == Init /\ [][Next]_vars
-----------------------------------------------------------------------------
(* Derived views of the tree, used by the properties below.               *)

RECURSIVE Subtree(_)
Subtree(pg) ==
    {pg} \cup UNION {Subtree(nodes[pg].kids[i]) : i \in 1..Len(nodes[pg].kids)}

(* Leaves in key order, read off the child pointers.                     *)
RECURSIVE LeafSeq(_)
LeafSeq(pg) ==
    IF nodes[pg].leaf THEN <<pg>>
    ELSE SE!FlattenSeq([i \in 1..Len(nodes[pg].kids) |-> LeafSeq(nodes[pg].kids[i])])

RECURSIVE Depth(_)
Depth(pg) == IF nodes[pg].leaf THEN 0 ELSE 1 + Depth(nodes[pg].kids[1])

(* The <<key, rid>> pairs stored in the leaves: the abstract index.       *)
Contents ==
    UNION {{<<nodes[p].keys[i], nodes[p].vals[i]>> : i \in 1..Len(nodes[p].keys)} :
           p \in {q \in Subtree(root) : nodes[q].leaf}}

KeysBelow(pg) == {e[1] : e \in UNION {{<<nodes[p].keys[i]>> : i \in 1..Len(nodes[p].keys)} :
                                       p \in {q \in Subtree(pg) : nodes[q].leaf}}}

SortedStrictly(s) == \A i \in 1..Len(s) - 1 : CompareKeys(s[i], s[i + 1]) < 0

TypeOK ==
    /\ pageCount \in Nat
    /\ unique \in BOOLEAN
    /\ DOMAIN nodes = 2..pageCount
    /\ root \in DOMAIN nodes
    /\ \A p \in DOMAIN nodes : nodes[p] \in Node

(* Shape of the tree after any sequence of Insert and Remove calls: every *)
(* page handed out hangs under the root, all leaves are equally deep, the *)
(* keys of a node are strictly ordered and at most MaxKeys, an internal   *)
(* node has one child more than keys, and every key under child i lies    *)
(* between separators i-1 (inclusive) and i (exclusive), the routing      *)
(* FindInternalChild relies on.  Splits in InsertRecursive must keep it.  *)
WellFormed ==
    /\ Subtree(root) = DOMAIN nodes
    /\ \A p \in DOMAIN nodes :
         LET n == nodes[p] IN
         /\ SortedStrictly(n.keys)
         /\ Len(n.keys) <= MaxKeys
         /\ n.leaf => Len(n.vals) = Len(n.keys)
         /\ ~n.leaf =>
              /\ Len(n.kids) = Len(n.keys) + 1
              /\ \A i \in 1..Len(n.kids) :
                   /\ Depth(n.kids[i]) = Depth(n.kids[1])
                   /\ \A k \in KeysBelow(n.kids[i]) :
                        /\ i > 1 => CompareKeys(n.keys[i - 1], k) <= 0
                        /\ i <= Len(n.keys) => CompareKeys(k, n.keys[i]) < 0

(* The leaf chain (next_leaf from the leftmost leaf, prev_leaf back) lists *)
(* exactly the leaves in key order: ScanRange walks it, and a split that  *)
(* forgets to relink the old right neighbour breaks it.                   *)
LeafChainConsistent ==
    LET ls == LeafSeq(root) IN
    /\ LeftmostLeaf(root) = ls[1]
    /\ \A i \in 1..Len(ls) :
         /\ nodes[ls[i]].next = (IF i < Len(ls) THEN ls[i + 1] ELSE NoPage)
         /\ nodes[ls[i]].prev = (IF i > 1 THEN ls[i - 1] ELSE NoPage)

(* parent_page_id of every node names the internal node that lists it as *)
(* a child, and the root has none; internal splits must re-parent the     *)
(* children they move.                                                    *)
ParentLinksConsistent ==
    /\ nodes[root].parent = NoPage
    /\ \A p \in DOMAIN nodes : \A i \in 1..Len(nodes[p].kids) :
         nodes[nodes[p].kids[i]].parent = p

(* Search(k) finds k exactly when some leaf holds it, with its rid.       *)
SearchAgreesWithContents ==
    \A k \in Keys :
        IF \E r \in Rids : <<k, r>> \in Contents
        THEN Search(k) = [found |-> TRUE, value |-> CHOOSE r \in Rids : <<k, r>> \in Contents]
        ELSE Search(k) = [found |-> FALSE]

(* ScanRange returns, in key order, the rids of exactly the stored keys   *)
(* within the bounds, for every bound, open or closed or absent (spec 8). *)
ScanRangeAgreesWithContents ==
    LET sorted == SE!SetToSortSeq(Contents, LAMBDA a, b : CompareKeys(a[1], b[1]) < 0)
        Bounds == Keys \cup {NoKey}
    IN \A lo, hi \in Bounds, li, hi2 \in BOOLEAN :
         LET inRange(e) ==
               /\ lo # NoKey => (CompareKeys(e[1], lo) > 0 \/ (li /\ CompareKeys(e[1], lo) = 0))
               /\ hi # NoKey => (CompareKeys(e[1], hi) < 0 \/ (hi2 /\ CompareKeys(e[1], hi) = 0))
             sel == SelectSeq(sorted, inRange)
         IN ScanRange(lo, li, hi, hi2) = [j \in 1..Len(sel) |-> sel[j][2]]
=============================================================================
