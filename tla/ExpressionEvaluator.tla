------------------------- MODULE ExpressionEvaluator -------------------------
(***************************************************************************)
(* The WHERE evaluator: ExpressionEvaluator::evaluate_predicate and its   *)
(* helpers (src/src/engine/expression_evaluator.cpp) over the expression  *)
(* tree of sql::Expression, for a single table whose columns are all      *)
(* INTEGER.  The TriBool kernels logical_not/and/or and Value's compare() *)
(* are not in the repository; they follow spec.md 4.9.                     *)
(*                                                                         *)
(* An expression is a record whose kind is that of sql::ExpressionKind:   *)
(*   [kind |-> "LITERAL", lit]            NULL or an integer               *)
(*   [kind |-> "COLUMN_REF", col]         a column id (its row index)      *)
(*   [kind |-> "UNARY", left]             NOT left                         *)
(*   [kind |-> "BINARY", op, left, right] AND, OR and the comparisons      *)
(*   [kind |-> "NULL_TEST", left, notnull] left IS [NOT] NULL              *)
(* An integer literal is its value; Int64Literal stands for one whose     *)
(* stoll value lies outside the INTEGER (int32) range.  A thrown          *)
(* QueryException is the result TypeError.  Both are model values, so     *)
(* they can be told apart from every integer.                              *)
(***************************************************************************)
EXTENDS Integers, RecordCodec

CONSTANTS
    Int64Literal,  \* an integer literal outside the int32 range
    TypeError      \* QueryException::type_error thrown

Comparisons == {"=", "!=", "<", "<=", ">", ">="}

Lit(v) == [kind |-> "LITERAL", lit |-> v]
ColRef(c) == [kind |-> "COLUMN_REF", col |-> c]
Not(e) == [kind |-> "UNARY", left |-> e]
Bin(op, l, r) == [kind |-> "BINARY", op |-> op, left |-> l, right |-> r]
IsNull(e, notnull) == [kind |-> "NULL_TEST", left |-> e, notnull |-> notnull]

Thrown(v) == v = TypeError

-----------------------------------------------------------------------------
(* TriBool and its kernels (spec.md 4.9).                                  *)

NotTri(t) == CASE t = "True" -> "False" [] t = "False" -> "True" [] OTHER -> "Unknown"

AndTri(l, r) ==
    CASE l = "False" \/ r = "False" -> "False"
      [] l = "True" /\ r = "True" -> "True"
      [] OTHER -> "Unknown"

OrTri(l, r) ==
    CASE l = "True" \/ r = "True" -> "True"
      [] l = "False" /\ r = "False" -> "False"
      [] OTHER -> "Unknown"

(* compare(): Unknown when either side is NULL.                            *)
CompareValues(l, r) ==
    CASE l = Null \/ r = Null -> "Unknown"
      [] l < r -> "Less" [] l = r -> "Equal" [] OTHER -> "Greater"

-----------------------------------------------------------------------------
(* value_to_tristate: NULL is Unknown, a number is true unless it is zero *)
(* (the BOOLEAN case is not reached: the table has INTEGER columns only   *)
(* and no BOOLEAN literal is generated).                                   *)
ValueToTristate(v) ==
    CASE v = Null -> "Unknown"
      [] v = Int64Literal -> "True"
      [] OTHER -> IF v = 0 THEN "False" ELSE "True"

(* literal_to_value: hinted means the other side of the comparison is a   *)
(* column, whose INTEGER type the literal must fit; without a hint a      *)
(* wide literal becomes a BIGINT.                                          *)
LiteralToValue(lit, hinted) ==
    IF hinted /\ lit = Int64Literal THEN TypeError ELSE lit

(* evaluate_value: a literal or a column's value; any other expression is *)
(* not a scalar.                                                           *)
EvaluateValue(e, row, hinted) ==
    CASE e.kind = "LITERAL" -> LiteralToValue(e.lit, hinted)
      [] e.kind = "COLUMN_REF" -> row[e.col]
      [] OTHER -> TypeError

(* The compare() results for which a comparison operator holds.          *)
Accepts(op) ==
    CASE op = "=" -> {"Equal"}
      [] op = "!=" -> {"Less", "Greater"}
      [] op = "<" -> {"Less"}
      [] op = "<=" -> {"Less", "Equal"}
      [] op = ">" -> {"Greater"}
      [] op = ">=" -> {"Greater", "Equal"}

(* The comparison branch: a literal facing a column gets the column type  *)
(* as its hint; both sides are evaluated, then compared (coerce_to_type   *)
(* is the identity on an INTEGER column's own values).                    *)
EvaluateComparison(e, row) ==
    LET lv == EvaluateValue(e.left, row,
                            e.left.kind = "LITERAL" /\ e.right.kind = "COLUMN_REF")
        rv == EvaluateValue(e.right, row,
                            e.right.kind = "LITERAL" /\ e.left.kind = "COLUMN_REF")
        cmp == CompareValues(lv, rv)
    IN CASE Thrown(lv) -> lv
         [] Thrown(rv) -> rv
         [] cmp = "Unknown" -> "Unknown"
         [] OTHER -> IF cmp \in Accepts(e.op) THEN "True" ELSE "False"

(* The AND and OR branch once both sides are evaluated: a throw on the    *)
(* left, then on the right, else the kernel.                               *)
(* A short-circuiting evaluation that skips the right side once the left  *)
(* decides.                                                                *)
ConnectiveShortCircuit(op, l, r) ==
    CASE Thrown(l) -> l
      [] op = "AND" /\ l = "False" -> "False"
      [] op = "OR" /\ l = "True" -> "True"
      [] Thrown(r) -> r
      [] op = "AND" -> AndTri(l, r)
      [] OTHER -> OrTri(l, r)

Connective(op, l, r) ==
    CASE Thrown(l) -> l
      [] Thrown(r) -> r
      [] op = "AND" -> AndTri(l, r)
      [] OTHER -> OrTri(l, r)

(* evaluate_predicate_internal: both sides of AND and OR are always       *)
(* evaluated, the left one first.                                          *)
RECURSIVE EvaluatePredicate(_, _)
EvaluatePredicate(e, row) ==
    CASE e.kind = "LITERAL" -> ValueToTristate(LiteralToValue(e.lit, FALSE))
      [] e.kind = "COLUMN_REF" -> ValueToTristate(row[e.col])
      [] e.kind = "UNARY" ->
           LET o == EvaluatePredicate(e.left, row)
           IN IF Thrown(o) THEN o ELSE NotTri(o)
      [] e.kind = "BINARY" /\ e.op \in {"AND", "OR"} ->
           Connective(e.op, EvaluatePredicate(e.left, row), EvaluatePredicate(e.right, row))
      [] e.kind = "BINARY" -> EvaluateComparison(e, row)
      [] e.kind = "NULL_TEST" ->
           LET v == EvaluateValue(e.left, row, FALSE)
           IN IF Thrown(v) THEN v
              ELSE IF (v = Null) # e.notnull THEN "True" ELSE "False"
=============================================================================
