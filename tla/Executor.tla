------------------------------ MODULE Executor ------------------------------
(***************************************************************************)
(* Planning and execution of the statements that change data: the         *)
(* Planner of src/sql/plan/planner.rs (CREATE TABLE, DROP TABLE, INSERT,   *)
(* UPDATE, DELETE and the scan rewrite build_scan) and the executors of    *)
(* src/sql/executor/{mutation,schema,query}.rs they run (Insert, Update,  *)
(* Delete, CreateTable, DropTable, Scan, IndexScan, PrimaryKeyScan).       *)
(*                                                                         *)
(* A WHERE clause is absent or one comparison (Equal, GreaterThan or      *)
(* LessThan) of two operands, each a column (Field) or a constant          *)
(* (Consts); SET and VALUES give constants.  Execute(s, stmt) returns     *)
(* the store after the statement and whether it failed in Plan::build     *)
(* ("build"), in execution ("exec"), or succeeded ("ok").                  *)
(***************************************************************************)
EXTENDS KVTxn

-----------------------------------------------------------------------------
(* Planner::build_scan: with a parsed filter, read the table (failing if   *)
(* it does not exist); a primary-key field gives PrimaryKeyScan, an        *)
(* indexed field IndexScan, any other a Scan with the filter.  The         *)
(* statements here have no Function operand, on which parse_scan_filter   *)
(* panics (see Query's SelectStmt).                                         *)
BuildScan(s, t, w) ==
    LET tbl == GetTable(s, t)
        f == ParseScanFilter(w)
        isCol(p(_)) == \E i \in 1..Len(tbl.columns) :
                          tbl.columns[i].name = f.field /\ p(tbl.columns[i])
    IN CASE f.ok = "none"                    -> [ok |-> TRUE, node |-> "scan", where |-> w]
         [] ~HasTable(s, t)                  -> [ok |-> FALSE, node |-> "none", where |-> w]
         [] isCol(LAMBDA c : c.primary_key)  -> [ok |-> TRUE, node |-> "pk", value |-> f.value]
         [] isCol(LAMBDA c : c.index)        -> [ok |-> TRUE, node |-> "index",
                                                 field |-> f.field, value |-> f.value]
         [] OTHER                            -> [ok |-> TRUE, node |-> "scan", where |-> w]

(* Executing a scan node: [ok, rows].                                      *)
(* Scan: scan_table with the filter.                                       *)
(* PrimaryKeyScan: an integral Float is looked up as an Integer.           *)
(* IndexScan: load_index, sort the keys, read_by_id each.                  *)
ExecScan(s, t, node) ==
    LET tbl == GetTable(s, t) IN
    CASE ~HasTable(s, t) -> [ok |-> FALSE, rows |-> <<>>]
      [] node.node = "scan" ->
            ScanTable(s, t, node.where)
      [] node.node = "pk" ->
            LET id == IF node.value.type = "Float" THEN Integer(node.value.n) ELSE node.value
                row == ReadById(s, t, id)
            IN [ok |-> TRUE, rows |-> IF row = Absent THEN <<>> ELSE <<row>>]
      [] node.node = "index" ->
            LET pks == SetToSortSeq(LoadIndex(s, t, node.field, node.value), KeyLess)
                found == SelectSeq(pks, LAMBDA pk : ReadById(s, t, pk) # Absent)
            IN [ok |-> TRUE, rows |-> [i \in 1..Len(found) |-> ReadById(s, t, found[i])]]

-----------------------------------------------------------------------------
(* mutation.rs pad_row: trailing columns missing from the row take their   *)
(* default; a missing column without one is an error.                      *)
PadRow(tbl, row) ==
    LET missing == IF Len(row) >= Len(tbl.columns) THEN <<>>     \* skip(row.len())
                   ELSE [i \in 1..(Len(tbl.columns) - Len(row)) |-> tbl.columns[Len(row) + i]]
    IN IF \E i \in 1..Len(missing) : missing[i].default = NoDefault
       THEN [ok |-> FALSE, row |-> row]
       ELSE [ok |-> TRUE, row |-> row \o [i \in 1..Len(missing) |-> missing[i].default]]

(* mutation.rs make_row: as many values as named columns; each table       *)
(* column takes its named value (the last one given), else its default,   *)
(* else the insert fails.  Names that are not columns are ignored.         *)
MakeRow(tbl, cols, vals) ==
    LET named(c) == {i \in 1..Len(cols) : cols[i] = c}
        valueOf(col) == IF named(col.name) # {}
                        THEN vals[CHOOSE i \in named(col.name) : \A j \in named(col.name) : j <= i]
                        ELSE col.default
        row == [i \in 1..Len(tbl.columns) |-> valueOf(tbl.columns[i])]
    IN IF Len(cols) # Len(vals) \/ \E i \in 1..Len(row) : row[i] = NoDefault
       THEN [ok |-> FALSE, row |-> <<>>]
       ELSE [ok |-> TRUE, row |-> row]

(* Insert::execute: read the table, then build and create_row each row    *)
(* of VALUES in turn; the first failure ends the statement.               *)
ExecInsert(s, stmt) ==
    LET tbl == GetTable(s, stmt.table)
        mk(vals) == IF stmt.columns = <<>> THEN PadRow(tbl, vals)
                    ELSE MakeRow(tbl, stmt.columns, vals)
    IN IF ~HasTable(s, stmt.table) THEN Fail(s)
       ELSE RunEach(s, stmt.values,
                    LAMBDA st, vals : IF mk(vals).ok THEN CreateRow(st, stmt.table, mk(vals).row)
                                      ELSE Fail(st))

(* Update::execute: run the source scan, read the table, and for each     *)
(* scanned row overlay the SET columns, then update_row keyed by the      *)
(* primary key of the scanned row.                                         *)
Overlay(tbl, row, set) ==
    [i \in 1..Len(row) |-> IF i <= Len(tbl.columns) /\ tbl.columns[i].name \in DOMAIN set
                           THEN set[tbl.columns[i].name] ELSE row[i]]

ExecUpdate(s, stmt, node) ==
    LET scan == ExecScan(s, stmt.table, node)
        tbl == GetTable(s, stmt.table)
    IN IF ~scan.ok THEN Fail(s)
       ELSE RunEach(s, scan.rows,
                    LAMBDA st, row : UpdateRow(st, tbl, PrimaryKeyOf(tbl, row),
                                               Overlay(tbl, row, stmt.set)))

(* Delete::execute: run the source scan, delete_row each scanned row.      *)
ExecDelete(s, stmt, node) ==
    LET scan == ExecScan(s, stmt.table, node)
        tbl == GetTable(s, stmt.table)
    IN IF ~scan.ok THEN Fail(s)
       ELSE RunEach(s, scan.rows, LAMBDA st, row : DeleteRow(st, tbl, PrimaryKeyOf(tbl, row)))

(* Planner::build_statment for CREATE TABLE: nullable defaults to "not a   *)
(* primary key", a nullable column without DEFAULT gets DEFAULT NULL, and  *)
(* the index flag is dropped on the primary key.                          *)
SchemaOf(ast) ==
    [name |-> ast.name,
     columns |-> [i \in 1..Len(ast.columns) |->
        LET c == ast.columns[i]
            nullable == CASE c.nullable = "unset" -> ~c.primary_key    \* no NULL / NOT NULL
                          [] c.nullable = "null"  -> TRUE
                          [] OTHER                -> FALSE
        IN [name |-> c.name, datatype |-> c.datatype, nullable |-> nullable,
            default |-> IF c.default # NoDefault THEN c.default
                        ELSE IF nullable THEN Null ELSE NoDefault,
            primary_key |-> c.primary_key, index |-> c.index /\ ~c.primary_key]]]

-----------------------------------------------------------------------------
(* Plan::build then execute, on the store s of the statement's            *)
(* transaction.                                                            *)
Outcome(r, built) == [res |-> IF ~built THEN "build" ELSE IF r.ok THEN "ok" ELSE "exec", s |-> r.s]

\* Whether Plan::build succeeds: only UPDATE and DELETE read the store while
\* planning (build_scan's must_get_table).
Builds(s, stmt) ==
    stmt.type \in {"update", "delete"} => BuildScan(s, stmt.table, stmt.where).ok

Execute(s, stmt) ==
    CASE stmt.type = "create" -> Outcome(CreateTable(s, SchemaOf(stmt.ast)), TRUE)
      [] stmt.type = "drop"   -> Outcome(DropTable(s, stmt.table), TRUE)
      [] stmt.type = "insert" -> Outcome(ExecInsert(s, stmt), TRUE)
      [] stmt.type = "update" ->
            LET node == BuildScan(s, stmt.table, stmt.where) IN
            Outcome(IF node.ok THEN ExecUpdate(s, stmt, node) ELSE Fail(s), node.ok)
      [] stmt.type = "delete" ->
            LET node == BuildScan(s, stmt.table, stmt.where) IN
            Outcome(IF node.ok THEN ExecDelete(s, stmt, node) ELSE Fail(s), node.ok)
=============================================================================
