------------------------------ MODULE Session ------------------------------
(***************************************************************************)
(* A client session of src/sql/engine/mod.rs (Session::execute) over the   *)
(* record layer and executors: BEGIN / COMMIT / ROLLBACK open and close an *)
(* explicit transaction; any other statement is planned and executed in    *)
(* the explicit transaction if there is one, else in an implicit one that  *)
(* commits on success and rolls back on an execution error.                *)
(*                                                                         *)
(* The MVCC layer (storage/mvcc.rs) is not among the sources; its contract *)
(* (spec section 4.3) is modelled for one session: a transaction starts    *)
(* from the committed store, works on its own copy, and commit publishes   *)
(* that copy.  Each statement is one step: the engine is single-threaded  *)
(* and Session::execute runs a statement to completion.                    *)
(***************************************************************************)
EXTENDS Executor

CONSTANTS
    Tables,      \* table names
    ColNames,    \* column names used by the schemas and the statements
    Vals,        \* the constants statements may carry
    Stmts        \* the DDL and DML statements a client may send

VARIABLES
    committed,   \* the store as of the last commit
    inTxn,       \* Session.txn is Some
    txn,         \* the explicit transaction's store (<<>> when none)
    result       \* what the last execute returned: "none", "ok", "error"

vars == <<committed, inTxn, txn, result>>

StoreKeys ==
    {TableKey(t) : t \in Tables} \cup {RowKey(t, v) : t \in Tables, v \in Vals}
      \cup {IndexKey(t, c, v) : t \in Tables, c \in ColNames, v \in Vals}

\* The stores a statement can currently see.
Stores == {committed} \cup (IF inTxn THEN {txn} ELSE {})

\* Table metadata, rows and index sets of the right shape; stored tables
\* satisfy the invariants create_table checks (spec section 3, Table).
StoreOK(s) ==
    /\ DOMAIN s \subseteq StoreKeys
    /\ \A k \in DOMAIN s :
          CASE k.kind = "table" -> s[k].name = k.t /\ ValidTable(s[k])
            [] k.kind = "row"   -> s[k] \in Seq(Vals)
            [] OTHER            -> s[k] \subseteq Vals

TypeOK ==
    /\ inTxn \in BOOLEAN
    /\ result \in {"none", "ok", "error"}
    /\ \A s \in Stores : StoreOK(s)

Init ==
    /\ committed = <<>>
    /\ inTxn = FALSE
    /\ txn = <<>>
    /\ result = "none"

-----------------------------------------------------------------------------
(* BEGIN: "Already in transaction" inside one, else engine.begin().        *)
Begin ==
    \/ /\ inTxn
       /\ result' = "error"
       /\ UNCHANGED <<committed, inTxn, txn>>
    \/ /\ ~inTxn
       /\ inTxn' = TRUE
       /\ txn' = committed
       /\ result' = "ok"
       /\ UNCHANGED committed

(* COMMIT: "Not in transaction" outside one, else take the transaction and *)
(* commit it.                                                              *)
Commit ==
    \/ /\ ~inTxn
       /\ result' = "error"
       /\ UNCHANGED <<committed, inTxn, txn>>
    \/ /\ inTxn
       /\ committed' = txn
       /\ inTxn' = FALSE
       /\ txn' = <<>>
       /\ result' = "ok"

(* ROLLBACK: "Not in transaction" outside one, else discard it.            *)
Rollback ==
    \/ /\ ~inTxn
       /\ result' = "error"
       /\ UNCHANGED <<committed, inTxn, txn>>
    \/ /\ inTxn
       /\ inTxn' = FALSE
       /\ txn' = <<>>
       /\ result' = "ok"
       /\ UNCHANGED committed

(* A statement inside the explicit transaction: Plan::build(..)?.execute   *)
(* on it; whatever it wrote stays in the transaction, error or not.        *)
ExecInTxn(stmt) ==
    LET r == Execute(txn, stmt) IN
    /\ inTxn
    /\ txn' = r.s
    /\ result' = IF r.res = "ok" THEN "ok" ELSE "error"
    /\ UNCHANGED <<committed, inTxn>>

(* A statement outside one: begin, build, execute; commit on success,     *)
(* rollback on an execution error.  A Plan::build error returns before    *)
(* either; the transaction wrote nothing.                                 *)
ExecAuto(stmt) ==
    LET r == Execute(committed, stmt) IN
    /\ ~inTxn
    /\ committed' = IF r.res = "ok" THEN r.s ELSE committed
    /\ result' = IF r.res = "ok" THEN "ok" ELSE "error"
    /\ UNCHANGED <<inTxn, txn>>

\* The store a read-only call sees: the explicit transaction's, or that of
\* an implicit one begun from the committed store.
Current == IF inTxn THEN txn ELSE committed

(* EXPLAIN stmt: Plan::build on the explicit transaction, or on an        *)
(* implicit one that is committed after a successful build (a build error  *)
(* returns before the commit, and the transaction is dropped).  Building   *)
(* only reads, so no store changes either way.                            *)
Explain(stmt) ==
    /\ result' = IF Builds(Current, stmt) THEN "ok" ELSE "error"
    /\ UNCHANGED <<committed, inTxn, txn>>

(* Session::get_table: must_get_table on the explicit transaction or on an *)
(* implicit one, committed afterwards; an unknown table is an error.       *)
GetTableCall(t) ==
    /\ result' = IF HasTable(Current, t) THEN "ok" ELSE "error"
    /\ UNCHANGED <<committed, inTxn, txn>>

(* Session::get_table_names: get_table_names never fails.                 *)
GetTableNames ==
    /\ result' = "ok"
    /\ UNCHANGED <<committed, inTxn, txn>>

Next ==
    \/ Begin
    \/ Commit
    \/ Rollback
    \/ \E stmt \in Stmts : ExecInTxn(stmt) \/ ExecAuto(stmt) \/ Explain(stmt)
    \/ \E t \in Tables : GetTableCall(t)
    \/ GetTableNames

Spec == Init /\ [][Next]_vars

-----------------------------------------------------------------------------
(* Properties.                                                             *)

ColPos(tbl, c) == CHOOSE i \in 1..Len(tbl.columns) : tbl.columns[i].name = c
RowKeysOf(s) == {k \in DOMAIN s : k.kind = "row"}
IndexKeysOf(s) == {k \in DOMAIN s : k.kind = "index"}

(* Spec section 4.5: for every row with primary key P and every indexed   *)
(* column C, P is in the index set of the row's C value; every key in an   *)
(* index set names a row holding that value; empty sets are not stored.   *)
(* It has to survive every sequence of insert, in-place and key-changing  *)
(* update, delete and drop, committed or not.                              *)
IndexConsistent ==
    \A s \in Stores :
       /\ \A k \in RowKeysOf(s) : HasTable(s, k.t) =>
             LET tbl == s[TableKey(k.t)] IN
             \A j \in 1..Len(IndexPositions(tbl)) :
                LET i == IndexPositions(tbl)[j] IN
                k.v \in LoadIndex(s, k.t, tbl.columns[i].name, s[k][i])
       /\ \A k \in IndexKeysOf(s) : HasTable(s, k.t) =>
             /\ s[k] # {}
             /\ \A pk \in s[k] :
                   /\ RowKey(k.t, pk) \in DOMAIN s
                   /\ s[RowKey(k.t, pk)][ColPos(s[TableKey(k.t)], k.c)] = k.v

(* DROP TABLE leaves nothing behind: every row and index key belongs to an *)
(* existing table, and every index key to one of its indexed columns, so a *)
(* table created again under the same name starts empty.                   *)
NoOrphans ==
    \A s \in Stores : \A k \in RowKeysOf(s) \cup IndexKeysOf(s) :
       /\ HasTable(s, k.t)
       /\ k.kind = "index" =>
             \E i \in 1..Len(s[TableKey(k.t)].columns) :
                s[TableKey(k.t)].columns[i].name = k.c /\ s[TableKey(k.t)].columns[i].index

(* The row stored under Key::Row(t, P) has primary key P, whatever updates *)
(* changed its primary key or other columns: read_by_id(P) finds the row   *)
(* whose key is P.                                                         *)
RowStoredUnderItsKey ==
    \A s \in Stores : \A k \in RowKeysOf(s) : HasTable(s, k.t) =>
       PrimaryKeyOf(s[TableKey(k.t)], s[k]) = k.v

(* Spec section 3: every stored row has one value per column, of the      *)
(* column's datatype, Null only where the column is nullable.              *)
RowsConformToSchema ==
    \A s \in Stores : \A k \in RowKeysOf(s) : HasTable(s, k.t) =>
       RowConforms(s[TableKey(k.t)], s[k])

(* Spec section 7: a statement that fails has no side effects ("partial   *)
(* side effects are never persisted beyond the previous successful        *)
(* statement"), inside an explicit transaction as well as outside.        *)
FailedStatementHasNoEffect ==
    [][result' = "error" => UNCHANGED <<committed, txn>>]_vars

(* UPDATE and DELETE act on exactly the rows their WHERE clause selects    *)
(* under evaluate_expr (Null and false do not select), whichever scan the  *)
(* planner chose: rows not selected stay as they were, selected rows are   *)
(* gone after DELETE and hold the SET values after UPDATE.                 *)
Selected(tbl, row, w) == w.kind = "none" \/ EvalWhere(tbl, row, w) = Boolean(TRUE)

ActsOnSelectedRows(stmt, before, after) ==
    LET t == stmt.table
        tbl == GetTable(before, t)
    IN \A pk \in RowPks(before, t) :
          LET row == before[RowKey(t, pk)]
              new == Overlay(tbl, row, stmt.set)
              holds(k, r) == k \in DOMAIN after /\ after[k] = r
          IN IF ~Selected(tbl, row, stmt.where)
             THEN holds(RowKey(t, pk), row)
             ELSE IF stmt.type = "delete" THEN RowKey(t, pk) \notin DOMAIN after
             ELSE holds(RowKey(t, PrimaryKeyOf(tbl, new)), new)

DmlActsOnSelectedRows ==
    [][\A stmt \in {st \in Stmts : st.type \in {"update", "delete"}} :
          /\ ExecAuto(stmt) /\ result' = "ok" => ActsOnSelectedRows(stmt, committed, committed')
          /\ ExecInTxn(stmt) /\ result' = "ok" => ActsOnSelectedRows(stmt, txn, txn')]_vars
=============================================================================
