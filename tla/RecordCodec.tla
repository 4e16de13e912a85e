---------------------------- MODULE RecordCodec ----------------------------
(***************************************************************************)
(* The record codec (spec.md 4.3) as used for rows and index keys, and    *)
(* the bytewise key order of BPlusTree::CompareKeys.  A record is         *)
(*   [field_count:u16][null_bitmap][per field: tag:u8, length:u16, data] *)
(* with u16s and INTEGER data little-endian, INTEGER in two's complement, *)
(* null fields with their bit set and length 0.  Only INTEGER columns are *)
(* modelled; the tag value itself is not given by the spec and only needs *)
(* to be the same for every field of a column.                            *)
(***************************************************************************)
EXTENDS Integers, Sequences

CONSTANT Null   \* the SQL NULL value

TagInteger == 2

U16(n) == <<n % 256, n \div 256>>

(* INTEGER data: 4 bytes, least significant first, two's complement       *)
(* (v + 2^31 is formed in two halves to stay within 32-bit arithmetic).   *)
Int32Bytes(v) ==
    LET u == IF v < 0 THEN (v + 1073741824) + 1073741824 ELSE v
    IN << u % 256, (u \div 256) % 256, (u \div 65536) % 256,
          (u \div 16777216) + (IF v < 0 THEN 128 ELSE 0) >>

(* One field: tag, length, then the data (none for NULL).                 *)
EncodeField(v) ==
    IF v = Null THEN <<TagInteger>> \o U16(0)
    ELSE <<TagInteger>> \o U16(4) \o Int32Bytes(v)

(* One bitmap byte per 8 fields; field i sets bit (i-1) % 8 when NULL.    *)
NullBitmap(vals) ==
    [b \in 1..((Len(vals) + 7) \div 8) |->
        LET bits[i \in 0..8] ==
              IF i = 0 THEN 0
              ELSE bits[i - 1] + (IF 8 * (b - 1) + i <= Len(vals)
                                     /\ vals[8 * (b - 1) + i] = Null
                                  THEN 2^(i - 1) ELSE 0)
        IN bits[8]]

RECURSIVE ConcatFields(_, _)
ConcatFields(vals, i) ==
    IF i > Len(vals) THEN <<>> ELSE EncodeField(vals[i]) \o ConcatFields(vals, i + 1)

(* DMLExecutor::encode_values followed by record::encode.                 *)
EncodeValues(vals) == U16(Len(vals)) \o NullBitmap(vals) \o ConcatFields(vals, 1)

LesserOf(a, b) == IF a <= b THEN a ELSE b
FirstOf(S, none) == IF S = {} THEN none ELSE CHOOSE i \in S : \A j \in S : i <= j

(* BPlusTree::CompareKeys: memcmp over the common prefix, then the        *)
(* shorter key sorts first.                                               *)
CompareKeys(a, b) ==
    LET i == FirstOf({j \in 1..LesserOf(Len(a), Len(b)) : a[j] # b[j]}, 0)
    IN CASE i # 0 /\ a[i] < b[i] -> -1
         [] i # 0 /\ a[i] > b[i] -> 1
         [] i = 0 /\ Len(a) < Len(b) -> -1
         [] i = 0 /\ Len(a) > Len(b) -> 1
         [] OTHER -> 0
=============================================================================
