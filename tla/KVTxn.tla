------------------------------- MODULE KVTxn -------------------------------
(***************************************************************************)
(* The record layer of src/sql/engine/kv.rs (KVTransaction): tables, rows  *)
(* and secondary indexes laid out on the keys of one transaction's store.  *)
(*                                                                         *)
(* A store is a function from keys to payloads: Key::Table(name) -> Table, *)
(* Key::Row(name, pk) -> row, Key::Index(name, column, value) -> set of    *)
(* primary keys.  Every operation takes the store it starts from and       *)
(* returns [ok |-> success, s |-> the store after it]: an operation that   *)
(* fails after writing returns the store with those writes in it, as the   *)
(* MVCC transaction keeps them.  Serialization (bincode) is left out: a    *)
(* payload is the value it encodes.                                        *)
(***************************************************************************)
EXTENDS SqlTypes, SequencesExt, Functions

TableKey(t) == [kind |-> "table", t |-> t, c |-> "", v |-> Null]
RowKey(t, pk) == [kind |-> "row", t |-> t, c |-> "", v |-> pk]
IndexKey(t, c, v) == [kind |-> "index", t |-> t, c |-> c, v |-> v]

Absent == [kind |-> "absent"]          \* txn.get returned None

\* MVCC transaction get / set / delete.
KVGet(s, k) == IF k \in DOMAIN s THEN s[k] ELSE Absent
KVSet(s, k, v) == (k :> v) @@ s
KVDelete(s, k) == Restrict(s, DOMAIN s \ {k})

Ok(s) == [ok |-> TRUE, s |-> s]
Fail(s) == [ok |-> FALSE, s |-> s]

\* Continue with F on the store of r if r succeeded (the ? operator).
Then(r, F(_)) == IF r.ok THEN F(r.s) ELSE r

\* Run F on each element of seq in order, stopping at the first failure.
RunEach(s, seq, F(_, _)) ==
    FoldLeft(LAMBDA r, x : Then(r, LAMBDA st : F(st, x)), Ok(s), seq)

-----------------------------------------------------------------------------
\* get_table / must_get_table
GetTable(s, t) == KVGet(s, TableKey(t))
HasTable(s, t) == TableKey(t) \in DOMAIN s

\* load_index: the stored set, or the empty set.
LoadIndex(s, t, c, v) == IF IndexKey(t, c, v) \in DOMAIN s THEN s[IndexKey(t, c, v)] ELSE {}

\* save_index: an empty set deletes the key.
SaveIndex(s, t, c, v, set) ==
    IF set = {} THEN KVDelete(s, IndexKey(t, c, v)) ELSE KVSet(s, IndexKey(t, c, v), set)

\* read_by_id
ReadById(s, t, pk) == KVGet(s, RowKey(t, pk))

\* The primary keys of the rows of table t, in the order scan_prefix
\* returns them (ascending key order).
RowPks(s, t) == {k.v : k \in {x \in DOMAIN s : x.kind = "row" /\ x.t = t}}
PkSeq(s, t) == SetToSortSeq(RowPks(s, t), KeyLess)

-----------------------------------------------------------------------------
(* create_row: check every column value, refuse a duplicate primary key,  *)
(* write the row, then add the key to the index set of each indexed       *)
(* column.                                                                 *)
AddToIndexes(s, tbl, pk, row) ==
    FoldLeft(LAMBDA st, i :
               LET c == tbl.columns[i].name IN
               SaveIndex(st, tbl.name, c, row[i], LoadIndex(st, tbl.name, c, row[i]) \cup {pk}),
             s, IndexPositions(tbl))

CreateRow(s, t, row) ==
    LET tbl == GetTable(s, t)
        pk == PrimaryKeyOf(tbl, row)
    IN IF ~HasTable(s, t) \/ ~ColumnsAccept(tbl, row) THEN Fail(s)
       ELSE IF RowKey(t, pk) \in DOMAIN s THEN Fail(s)
       ELSE Ok(AddToIndexes(KVSet(s, RowKey(t, pk), row), tbl, pk, row))

\* Mutant: delete_row that deletes the row key and leaves the index sets.
DeleteRowKeepsIndex(s, tbl, id) == Ok(KVDelete(s, RowKey(tbl.name, id)))

(* delete_row: for each indexed column, if the row is there, remove the    *)
(* key from the set of its value; then delete the row key (a tombstone    *)
(* even when the row is absent).                                           *)
DeleteRow(s, tbl, id) ==
    LET t == tbl.name
        s1 == FoldLeft(LAMBDA st, i :
                 LET row == ReadById(st, t, id)
                     c == tbl.columns[i].name
                 IN IF row = Absent THEN st
                    ELSE SaveIndex(st, t, c, row[i], LoadIndex(st, t, c, row[i]) \ {id}),
               s, IndexPositions(tbl))
    IN Ok(KVDelete(s1, RowKey(t, id)))

(* update_row: a new primary key is delete_row then create_row.  Otherwise *)
(* each indexed column whose value changed moves the key from the old     *)
(* value's set to the new one, and the row is rewritten unchecked.        *)
MoveIndexEntries(s, tbl, id, row) ==
    FoldLeft(LAMBDA st, i :
               LET t == tbl.name
                   c == tbl.columns[i].name
                   old == ReadById(st, t, id)
                   st1 == SaveIndex(st, t, c, old[i], LoadIndex(st, t, c, old[i]) \ {id})
               IN IF old = Absent \/ old[i] = row[i] THEN st
                  ELSE SaveIndex(st1, t, c, row[i], LoadIndex(st1, t, c, row[i]) \cup {id}),
             s, IndexPositions(tbl))

\* Mutant: update_row without the primary-key branch, writing under the old key.
UpdateRowInPlace(s, tbl, id, row) ==
    Ok(KVSet(MoveIndexEntries(s, tbl, id, row), RowKey(tbl.name, id), row))

UpdateRow(s, tbl, id, row) ==
    LET newPk == PrimaryKeyOf(tbl, row) IN
    IF id # newPk
    THEN Then(DeleteRow(s, tbl, id), LAMBDA st : CreateRow(st, tbl.name, row))
    ELSE Ok(KVSet(MoveIndexEntries(s, tbl, id, row), RowKey(tbl.name, newPk), row))

(* scan_table: the rows of t in key order, keeping those on which the      *)
(* filter w evaluates to true, dropping Null and false; any other value is *)
(* an error.                                                               *)
ScanTable(s, t, w) ==
    LET tbl == GetTable(s, t)
        rows == [i \in 1..Len(PkSeq(s, t)) |-> s[RowKey(t, PkSeq(s, t)[i])]]
        keep(r) == IF w.kind = "none" THEN Boolean(TRUE) ELSE EvalWhere(tbl, r, w)
    IN IF ~HasTable(s, t) THEN [ok |-> FALSE, rows |-> <<>>]
       ELSE IF \E i \in 1..Len(rows) : keep(rows[i]).type \notin {"Null", "Boolean"}
       THEN [ok |-> FALSE, rows |-> <<>>]
       ELSE [ok |-> TRUE, rows |-> SelectSeq(rows, LAMBDA r : keep(r) = Boolean(TRUE))]

\* Mutant: create_table without Table::validate.
CreateTableUnvalidated(s, tbl) ==
    IF HasTable(s, tbl.name) THEN Fail(s) ELSE Ok(KVSet(s, TableKey(tbl.name), tbl))

(* create_table: refuse an existing name, validate, write the metadata.    *)
CreateTable(s, tbl) ==
    IF HasTable(s, tbl.name) \/ ~ValidTable(tbl) THEN Fail(s)
    ELSE Ok(KVSet(s, TableKey(tbl.name), tbl))

\* Mutant: drop_table that deletes only the metadata.
DropTableKeepsRows(s, t) == IF ~HasTable(s, t) THEN Fail(s) ELSE Ok(KVDelete(s, TableKey(t)))

(* drop_table: scan every row, delete it through delete_row (keyed by the  *)
(* primary key read from the row), then delete the metadata.              *)
DropTable(s, t) ==
    LET tbl == GetTable(s, t)
        rows == ScanTable(s, t, NoWhere).rows
    IN IF ~HasTable(s, t) THEN Fail(s)
       ELSE Then(RunEach(s, rows, LAMBDA st, row : DeleteRow(st, tbl, PrimaryKeyOf(tbl, row))),
                 LAMBDA st : Ok(KVDelete(st, TableKey(t))))
=============================================================================
