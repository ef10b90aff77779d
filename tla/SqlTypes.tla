------------------------------ MODULE SqlTypes ------------------------------
(***************************************************************************)
(* Values, columns and tables of the SQL layer: src/sql/schema.rs and the *)
(* comparison of src/sql/parser/ast.rs evaluate_expr.  Value and DataType  *)
(* live in sql/types.rs, which is not among the sources: they follow the   *)
(* spec (section 3).  Only integral numbers are modelled; a Float carries  *)
(* its integral value, which is all that equality and the primary-key    *)
(* coercion of PrimaryKeyScan look at.                                     *)
(***************************************************************************)
EXTENDS Integers, Sequences, FiniteSets

\* Value: a tagged union.  Two values are equal (Rust PartialEq, HashSet
\* membership, key encoding) iff tag and payload are equal.
Null == [type |-> "Null", n |-> 0]
Integer(i) == [type |-> "Integer", n |-> i]
Float(i) == [type |-> "Float", n |-> i]
Boolean(b) == [type |-> "Boolean", n |-> IF b THEN 1 ELSE 0]

\* Value::datatype: None for Null.
DataTypeOf(v) == IF v.type = "Null" THEN "None" ELSE v.type

IsNumeric(v) == v.type \in {"Integer", "Float"}

\* evaluate_expr, Operation::Equal: numbers compare across Integer and
\* Float; Null on either side gives Null; Booleans compare; anything else
\* is the error "can not compare".
SqlEqual(l, r) ==
    CASE IsNumeric(l) /\ IsNumeric(r)                    -> Boolean(l.n = r.n)
      [] l.type = "Boolean" /\ r.type = "Boolean"         -> Boolean(l.n = r.n)
      [] l.type = "Null" \/ r.type = "Null"               -> Null
      [] OTHER                                            -> [type |-> "Error", n |-> 0]

\* Operation::GreaterThan and LessThan: the same cases, comparing with > and
\* < (Booleans as false < true).
SqlCompare(op, l, r) ==
    CASE (IsNumeric(l) /\ IsNumeric(r)) \/ (l.type = "Boolean" /\ r.type = "Boolean")
                                         -> Boolean(IF op = "gt" THEN l.n > r.n ELSE l.n < r.n)
      [] l.type = "Null" \/ r.type = "Null" -> Null
      [] OTHER                             -> [type |-> "Error", n |-> 0]

\* A WHERE clause: absent, or an Operation (Equal, GreaterThan, LessThan)
\* of two operands, each a column (Expression::Field), a constant
\* (Expression::Consts) or an aggregate call (Expression::Function).
NoWhere == [kind |-> "none"]
Field(c) == [isField |-> TRUE, name |-> c, val |-> Null]
Const(v) == [isField |-> FALSE, name |-> "", val |-> v]
Func(c) == [isField |-> FALSE, name |-> c, val |-> [type |-> "Function", n |-> 0]]
Eq(l, r) == [kind |-> "eq", l |-> l, r |-> r]
Gt(l, r) == [kind |-> "gt", l |-> l, r |-> r]
Lt(l, r) == [kind |-> "lt", l |-> l, r |-> r]

\* evaluate_expr of an operand and of the clause on a row of tbl; a column
\* that is not in the table is an error, and so is a Function ("unexpected
\* expression").
Operand(tbl, row, o) ==
    CASE o.isField /\ \E i \in 1..Len(tbl.columns) : tbl.columns[i].name = o.name
                            -> row[CHOOSE i \in 1..Len(tbl.columns) : tbl.columns[i].name = o.name]
      [] o.isField \/ o.val.type = "Function" -> [type |-> "Error", n |-> 0]
      [] OTHER                               -> o.val

EvalWhere(tbl, row, w) ==
    LET l == Operand(tbl, row, w.l)
        r == Operand(tbl, row, w.r)
    IN CASE "Error" \in {l.type, r.type} -> [type |-> "Error", n |-> 0]
         [] w.kind = "eq"               -> SqlEqual(l, r)
         [] OTHER                       -> SqlCompare(w.kind, l, r)

(* Planner::parse_scan_filter: only an Equal is parsed, to the field name *)
(* of its left operand and the value of its right one, where a Field      *)
(* parses to (name, Null) and a constant to ("", value); a Function on     *)
(* either side parses to None, which the unwrap turns into a panic.        *)
ParseScanFilter(w) ==
    CASE w.kind # "eq"                                          -> [ok |-> "none"]
      [] w.l.val.type = "Function" \/ w.r.val.type = "Function" -> [ok |-> "panic"]
      [] OTHER -> [ok |-> "some", field |-> w.l.name, value |-> w.r.val]

\* Order of stored keys: the key encoding orders by variant tag, then by
\* the payload (spec section 4.4).
TagRank == [Null |-> 0, Boolean |-> 1, Integer |-> 2, Float |-> 3]
KeyLess(a, b) ==
    \/ TagRank[a.type] < TagRank[b.type]
    \/ TagRank[a.type] = TagRank[b.type] /\ a.n < b.n

(***************************************************************************)
(* schema.rs: Column and Table.                                            *)
(***************************************************************************)
NoDefault == [type |-> "NoDefault", n |-> 0]    \* Column.default = None

ColumnNames(tbl) == [i \in 1..Len(tbl.columns) |-> tbl.columns[i].name]

\* Table::validate
ValidTable(tbl) ==
    LET cols == tbl.columns
        pks == {i \in 1..Len(cols) : cols[i].primary_key}
    IN /\ Len(cols) > 0
       /\ Cardinality(pks) = 1
       /\ \A i \in 1..Len(cols) :
             /\ ~(cols[i].primary_key /\ cols[i].nullable)
             /\ cols[i].default \notin {NoDefault, Null}
                   => DataTypeOf(cols[i].default) = cols[i].datatype

\* Table::get_primary_key: the value at the primary-key position.
PkPos(tbl) == CHOOSE i \in 1..Len(tbl.columns) : tbl.columns[i].primary_key
PrimaryKeyOf(tbl, row) == row[PkPos(tbl)]

\* Positions of the indexed columns, in column order.
IndexPositions(tbl) ==
    SelectSeq([i \in 1..Len(tbl.columns) |-> i], LAMBDA i : tbl.columns[i].index)

\* The per-column check that KVTransaction::create_row makes: Null only in a
\* nullable column, otherwise the column's datatype.  Only the first
\* Len(columns) values are looked at.
ValueFits(col, v) ==
    IF DataTypeOf(v) = "None" THEN col.nullable ELSE DataTypeOf(v) = col.datatype

ColumnsAccept(tbl, row) ==
    \A i \in 1..Len(tbl.columns) : ValueFits(tbl.columns[i], row[i])

\* What the spec (section 3, Row) requires of every stored row.
RowConforms(tbl, row) ==
    Len(row) = Len(tbl.columns) /\ ColumnsAccept(tbl, row)
=============================================================================
