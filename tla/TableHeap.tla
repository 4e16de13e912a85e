----------------------------- MODULE TableHeap -----------------------------
(***************************************************************************)
(* The table file and its heaps.  TableHeap is translated from its        *)
(* implementation in src/src/engine/expression_evaluator.h (lines 145-552 *)
(* hold TableHeap and TableHeapMigration); Page and PageManager, whose     *)
(* code is not in the repository, follow spec.md 4.1 and 4.2.             *)
(*                                                                         *)
(* The file is a record [heap, free, count]: heap maps a page id to a     *)
(* page [slots, used, next], free is the freelist (head = next page        *)
(* new_page hands out) and count the pages the file has grown to.  A slot *)
(* is [row, len, dead]; erase only sets dead.  free_page pushes the page  *)
(* on the freelist and leaves its body alone (spec.md 4.2), and a read of *)
(* it still succeeds (Page auto-upgrades a page whose type is zeroed).    *)
(*                                                                         *)
(* A statement works on a scratch record that adds to the file fields the *)
(* TableHeap's cached tail, the location of its last write and an error.  *)
(***************************************************************************)
EXTENDS Integers, Sequences, RecordCodec

LOCAL SE == INSTANCE SequencesExt

CONSTANTS
    PageCapacity,  \* page bytes after the header
    SlotSize,      \* bytes of one slot directory entry
    MaxPages       \* pages the file may grow to

NoPage == 0        \* config::INVALID_PAGE_ID

(* Page::init: an empty DATA page with no siblings.                        *)
EmptyPage == [slots |-> <<>>, used |-> 0, next |-> NoPage]

PayloadLen(row) == Len(EncodeValues(row))

(* Page::insert: slot directory and payloads must not meet.                *)
Fits(pg, n) == (Len(pg.slots) + 1) * SlotSize + pg.used + n <= PageCapacity

Place(pg, row, n) ==
    [pg EXCEPT !.slots = Append(@, [row |-> row, len |-> n, dead |-> FALSE]),
               !.used = @ + n]

(* The pages from p on, following next_page_id (fuel bounds the walk).    *)
RECURSIVE ChainFrom(_, _, _)
ChainFrom(h, p, fuel) ==
    IF p = NoPage \/ fuel = 0 THEN <<>> ELSE <<p>> \o ChainFrom(h, h[p].next, fuel - 1)

Chain(h, root) == ChainFrom(h, root, MaxPages)

(* TableHeap::read: the slot exists and is not a tombstone.                *)
Readable(h, loc) ==
    loc[2] <= Len(h[loc[1]].slots) /\ ~h[loc[1]].slots[loc[2]].dead

RowAt(h, loc) == h[loc[1]].slots[loc[2]].row

(* TableHeap::Iterator: chain order, then slot order, live slots only.     *)
HeapScan(h, root) ==
    LET ch == Chain(h, root)
        live(p) == SelectSeq([k \in 1..Len(h[p].slots) |-> <<p, k>>],
                             LAMBDA l : ~h[p].slots[l[2]].dead)
    IN SE!FlattenSeq([j \in 1..Len(ch) |-> live(ch[j])])

(* TableHeap::TableHeap: a heap over root whose cached tail is the last   *)
(* page of the chain (find_tail); s is a scratch record.                   *)
OpenHeap(s, root) ==
    [s EXCEPT !.tail = SE!Last(Chain(s.heap, root)), !.loc = <<NoPage, 0>>]

(* PageManager::new_page: pop the freelist, else grow the file; the page  *)
(* is initialized empty.  Growing past MaxPages is not explored (err      *)
(* "BOUND").                                                               *)
NewHeapPage(s) == IF s.free # <<>> THEN Head(s.free) ELSE s.count + 1

TakePage(s) ==
    LET np == NewHeapPage(s)
    IN IF np > MaxPages THEN [s EXCEPT !.err = "BOUND"]
       ELSE [s EXCEPT !.free = IF s.free # <<>> THEN Tail(@) ELSE @,
                      !.count = IF s.free = <<>> THEN @ + 1 ELSE @,
                      !.heap[np] = EmptyPage]

(* PageManager::free_page: push on the freelist, body kept.                *)
FreePage(s, p) == [s EXCEPT !.free = <<p>> \o @]

(* A row stored at slot end of page pg; the page becomes the tail.        *)
PlaceAt(s, pg, row, n) ==
    [s EXCEPT !.heap[pg] = Place(@, row, n),
              !.tail = pg,
              !.loc = <<pg, Len(s.heap[pg].slots) + 1>>]

(* TableHeap::append_new_page: new_page, link it after the previous tail, *)
(* insert there.                                                           *)
AppendNewPage(s, prev, row, n) ==
    LET np == NewHeapPage(s)
        s1 == TakePage(s)
    IN IF s1.err # "ok" THEN s1
       ELSE PlaceAt([s1 EXCEPT !.heap[prev].next = np], np, row, n)

(* TableHeap::insert: from the cached tail follow next links to the first *)
(* page with room, else append a page after the last one.                  *)
HeapInsert(s, row) ==
    LET n == PayloadLen(row)
        ch == ChainFrom(s.heap, s.tail, MaxPages)
        i == SE!SelectInSeq(ch, LAMBDA p : Fits(s.heap[p], n))
    IN IF i # 0 THEN PlaceAt(s, ch[i], row, n)
       ELSE AppendNewPage(s, SE!Last(ch), row, n)

(* TableHeap::erase: tombstone only.                                       *)
HeapErase(s, loc) == [s EXCEPT !.heap[loc[1]].slots[loc[2]].dead = TRUE]

(* TableHeap::update: in place when the new payload fits the slot's       *)
(* current length (which then shrinks), else erase and insert elsewhere.  *)
HeapUpdate(s, loc, row) ==
    IF PayloadLen(row) <= s.heap[loc[1]].slots[loc[2]].len
    THEN [s EXCEPT !.heap[loc[1]].slots[loc[2]] =
                       [row |-> row, len |-> PayloadLen(row), dead |-> FALSE],
                   !.loc = loc]
    ELSE HeapInsert(HeapErase(s, loc), row)

(* truncate resetting the root and forgetting the rest of the chain.     *)
HeapTruncateRootOnly(d, root) == [d EXCEPT !.heap[root] = EmptyPage]

(* TableHeap::truncate: reset the root, free every later page of the      *)
(* chain in chain order.                                                   *)
HeapTruncate(d, root) ==
    [d EXCEPT !.heap[root] = EmptyPage,
              !.free = SE!Reverse(Tail(Chain(d.heap, root))) \o @]

(* TableHeapMigration::free_chain: free every page of the chain, root     *)
(* included, in chain order.                                               *)
FreeChain(d, root) == [d EXCEPT !.free = SE!Reverse(Chain(d.heap, root)) \o @]
=============================================================================
