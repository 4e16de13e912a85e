---------------------------- MODULE MC_BPlusTree ----------------------------
(***************************************************************************)
(* Model-checking instance of BPlusTree.  Five keys with a shared prefix  *)
(* (so CompareKeys meets both a differing byte and a shorter key) and a   *)
(* node capacity of two give leaf splits, internal splits and a root      *)
(* that grows to three levels; two rids let a non-unique tree overwrite.  *)
(* The tree is built unique or not (UniqueChoices), as IndexManager       *)
(* builds it from the catalog entry's is_unique.                          *)
(***************************************************************************)
EXTENDS BPlusTree

MCKeys == {<<0>>, <<0, 0>>, <<0, 1>>, <<1>>, <<1, 0>>}
MCRids == {1, 2}

(* The tree implements the abstract index of spec.md: its leaf pairs,     *)
(* seen as the index contents, change only as IndexMap allows.            *)
Abstract == INSTANCE IndexMap WITH entries <- Contents

(* Every Insert and Remove of BPlusTree is a step of the abstract index   *)
(* (spec 4.6, 8): unique trees refuse a second key, non-unique trees keep *)
(* every <<key, rid>> pair, Remove drops exactly the named pair.          *)
ImplementsIndexMap == Abstract!Spec
(* The leaf pairs as a function: each key stored once, with its rid.     *)
ContentsFn == [k \in {e[1] : e \in Contents} |-> CHOOSE r \in Rids : <<k, r>> \in Contents]

KeyRidMap == INSTANCE IndexFunction WITH map <- ContentsFn

(* What the executor relies on: unique or not, the tree behaves as a      *)
(* key -> rid map whose Insert rejects or overwrites an equal key and    *)
(* whose Remove(key, rid) drops only that pair.  For a unique tree this   *)
(* is IndexMap again: a set of pairs with at most one pair per key is a   *)
(* function.                                                              *)
ImplementsKeyRidMap == KeyRidMap!Spec
=============================================================================
