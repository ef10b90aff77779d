# TLA+ models of rustSQL

These modules model the storage engine, the write path and the read path
(SELECT) of the SQL layer in `src/`. The Rust code is the reference throughout. `spec.md` is used only for
code that is not under `src/`: the `Value` type, MVCC, key encoding and the
`Engine` trait. PROJECT.json marks those definitions `spec_modelled`. It also
lists every component, run, mutant, hazard and finding, and maps each
definition to the source lines it translates.

## The system and how its parts interact

```
SQL text -> Lexer/Parser -> AST -> Planner -> Node tree -> Executors
                                                 |
                         Session (BEGIN/COMMIT/ROLLBACK, autocommit)
                                                 |
                 KVTransaction (tables, rows, secondary indexes on keys)
                                                 |
                      MVCC transaction (not in src/)  ->  DiskEngine (Bitcask)
```

* **Lexer** (`sql/parser/lexer.rs`) is an iterator over the characters of
  the text. Each `next` erases whitespace and scans one token: a string, a
  number, a word (a keyword if `Keyword::from_str` knows it, else a
  lower-cased identifier) or a one-character symbol.
* **Parser** (`sql/parser/mod.rs`) is recursive descent over the lexer's
  peekable stream. It folds constant arithmetic inside parentheses at parse
  time (`compute_math_operator`, `Token::compute_expr`) and requires a final
  `;` with nothing after it.
* **DiskEngine** (`storage/disk.rs`) is a Bitcask store. It has one
  append-only log file and an in-memory `KeyDir` that maps each key to the
  (offset, size) of its latest value.
  * A record is `key_len:u32 | val_len:i32 | key | value`. A value length of
    -1 marks a tombstone.
  * Startup (`Log::new` + `build_keydir`) replays the log.
  * `new_compact` also rewrites the live values into a `.compact` sibling
    file and renames it over the log.
* **MVCC** sits between the engine and the SQL layer. It is not under `src/`.
* **KVTransaction** (`sql/engine/kv.rs`) lays tables out on keys:
  * `Key::Table(t)` holds the schema;
  * `Key::Row(t, pk)` holds a row;
  * `Key::Index(t, c, v)` holds the set of primary keys whose column `c` is
    `v`.
  * `create_row`, `update_row`, `delete_row` and `drop_table` keep rows and
    index sets in step.
* **Planner** (`sql/plan/planner.rs`) turns an AST into nodes. `build_scan`
  rewrites `WHERE col = value` into a `PrimaryKeyScan` (on the primary key),
  an `IndexScan` (on an indexed column) or a `Scan` with the filter.
* **Executors** (`sql/executor/*.rs`) run the nodes. Insert, Update, Delete,
  CreateTable and DropTable change data; the others only read.
* **Session** (`sql/engine/mod.rs`) runs one statement at a time:
  * BEGIN, COMMIT and ROLLBACK open and close an explicit transaction.
  * Any other statement runs in the explicit transaction if one is open.
  * Otherwise it runs in an implicit transaction that commits on success and
    rolls back on an execution error.

### What is hard here

* **Crashes.** Only the log survives a crash. Startup must rebuild the exact
  `KeyDir`, including after a torn last record or an interrupted compaction.
* **Compaction.** It rewrites every live value at a new offset and then
  swaps files.
* **Index consistency.** Every write path must keep the secondary indexes
  consistent:
  * insert;
  * update in place;
  * update that changes the primary key, done as delete then create;
  * delete;
  * drop.
* **Statement atomicity.** A statement can fail after writing, inside an
  explicit transaction.
* **The scan rewrite** must select the same rows the WHERE clause does.

## Modules

| module | models | state / operators |
|---|---|---|
| `KVStore` | the `Engine` contract: a key-value map | `dict`; `Set`, `Delete` |
| `DiskEngine` | `storage/disk.rs` | see below |
| `MCDiskEngine` | constants for `DiskEngine` | keys {1,2}; values of 1 and 2 cells |
| `SqlTypes` | `Value` (from the spec), `sql/schema.rs`, `evaluate_expr` (Equal, GreaterThan, LessThan, a Function operand), `parse_scan_filter` | operators only |
| `KVTxn` | `sql/engine/kv.rs` | pure operators on a store |
| `Executor` | `planner.rs` (DDL/DML and `build_scan`), `mutation.rs`, `executor/schema.rs`, the three scans of `query.rs` | `Execute(s, stmt)` |
| `Session` | `Session::execute` over a single-session MVCC | see below |
| `MCSession` | table and statements for `Session` | see below |
| `Query` | the SELECT side: `Filter`, `Projection`, `Order`, `Limit`, `Offset` (`query.rs`), `NestedLoopJoin`, `HashJoin` (`join.rs`), `Aggregate` and its calculators (`agg.rs`), the SELECT plan stack, `build_from_item` and `build_scan` of `planner.rs`, `Plan::build`/`execute` | two tables `lt`, `rt`; see below |
| `MCQuery` | constants for `Query` | keys {1,2,3} and {1,2}; values Null, 1, 2, 1.0 |
| `Lexer` | `sql/parser/lexer.rs` | `text`, `iter`, `tokens`, `status`; one action per scan arm |
| `Parser` | `sql/parser/mod.rs`, the AST of `ast.rs`, `Token::compute_expr` | pure operators over a token sequence |
| `MCParser` | constants for `Lexer` and `Parser` | texts, arithmetic tokens, the statement set |

**DiskEngine.**
* Variables:
  * `file` is the log, modelled as a sequence of cells. A header cell holds
    the header and the key; each value cell is one unit of value.
  * `compactFile` is the `.compact` sibling file.
  * `keydir` maps each key to the 0-based offset and length of its value.
  * `phase` is `up`, `down` or `compacting`.
  * `newKeyDir` and `todo` hold the state of the compaction loop.
* Actions:
  * `Set` and `Delete` are `DiskEngine::set` and `delete`.
  * `Crash` is the process dying. Memory is lost and the flushed files stay.
  * `Restart` is `DiskEngine::new`. It calls the recursive `Walk`, which is
    `build_keydir`.
  * `RestartCompact` is `new_compact`. It opens the sibling file without
    truncating it.
  * `CompactStep` is one iteration of `compact()`'s loop, taken in key order.
  * `CompactReadFails` is `read_value` failing inside that loop.
  * `CompactRename` is the rename and the swap.
  * `TornCrash` leaves a prefix of a record in the file.
  * `CrashCompacting` is a crash inside `compact()`.
* `Contents` is what `get` returns for every key. While the engine is down,
  it is what `get` would return after a restart.
* `KV == INSTANCE KVStore WITH dict <- Contents` is the refinement mapping.

**Session.**
* Variables:
  * `committed` is the store as of the last commit.
  * `inTxn` is TRUE when an explicit transaction is open.
  * `txn` is that transaction's copy of the store.
  * `result` is what the last `execute` returned: `none`, `ok` or `error`.
* `Begin`, `Commit` and `Rollback` each have their error arm as a disjunct.
* `ExecInTxn(stmt)` and `ExecAuto(stmt)` are the two statement arms of
  `Session::execute`.
* `Explain(stmt)`, `GetTableCall(t)` and `GetTableNames` are EXPLAIN,
  `get_table` and `get_table_names`. They read `Current` (the open
  transaction's copy, else the committed store), set only `result`, and
  write nothing: EXPLAIN builds the plan (`Builds`) and drops it.
* A store maps `TableKey`, `RowKey` and `IndexKey` records to a schema, a row
  or a set of primary keys.
* Each `KVTxn` operation returns `[ok, s]`. On an error, `s` still holds the
  writes made before it, as the MVCC transaction does.
* `Then` is Rust's `?`. `RunEach` is a `for` loop that stops at the first
  error.

**Query.**
* The operators are pure. Each takes a result set `[ok, cols, rows]` and
  returns one. `ok` is `ok`, `error` (a returned `Err`) or `panic` (an
  `unwrap` or index out of bounds that would abort the process).
* `Order` is `SortBy` with the comparator `CmpKeys`. `SortBy` is insertion
  sort (`InsertTail`), which is what `slice::sort_by` runs on 20 elements or
  fewer. The model therefore reproduces the exact output order, including
  for a comparator that is not a total order.
* `Aggregate` returns its rows keyed by group value, because they come out
  of a `HashMap` in no defined order. `Select` takes the iteration order as
  an argument `perm`, and properties quantify over every order.
* `Select` is the planner's node stack for SELECT. `Stacked` says which nodes
  `build_statment` adds, and `RunPlan` executes them bottom-up through
  `PlanNode`.
* `SelectStmt(st, perm)` is `Plan::build` then `Plan::execute` for a whole
  SELECT. `BuildFrom` is `build_from_item`: a table becomes `SelectScan`
  (`build_scan` with the WHERE clause, so `WHERE a = v` becomes a
  PrimaryKeyScan), a join passes the WHERE to both sides, swaps the sides
  of a RIGHT JOIN, and picks NestedLoopJoin for CROSS and HashJoin
  otherwise. `ExecFrom` runs the tree as `<dyn Executor>::build` does,
  left input first. A `parse_scan_filter` panic comes before any execution.
* `ShowResultSet` is `ResultSet::to_string` for a Scan result. It panics
  when a row has more cells than there are columns (`max_len[i]`,
  executor/mod.rs:118) and otherwise shows each row's cells under the
  header. Column widths and separators are left out.
* The variables `lt` and `rt` are two tables, `l(a PRIMARY KEY, b)` and
  `r(d PRIMARY KEY, c)`, each a function from key to the other column. The
  actions `InsertL`, `InsertR`, `DeleteL` and `DeleteR` are a client's
  INSERT and DELETE. `L` and `R` are their scans in primary-key order. Every
  pair of tables up to the bounds is reached, and every property is checked
  in each.

**Lexer.**
* `text` is the input, a sequence of one-character strings; `iter` is what
  `Peekable<Chars>` has not yet yielded; `tokens` is what `next` returned;
  `status` is `scan`, `end` (`next` returned None) or `error`.
* `ScanString`, `ScanNumber`, `ScanIdent` and `ScanSymbol` are the arms of
  `scan`, each including the `erase_whitespace` before it (`Rest`). An
  unterminated string and an unknown character are the two error arms.
  `ScanEnd` is `scan` at the end of input.
* `Span` is `next_while`. `WordToken` is `Keyword::from_str` and the
  `to_lowercase` of an identifier.

**Parser.**
* Every `parse_*` function is an operator `F(ts, i)` over the token sequence
  `ts` and the index `i` of the next token. It returns `Ok(v, i')` or `Fail`,
  which is Rust's `?`. `Peek` past the end is `EOF`.
* The loops (`OrderItems`, `SelectItems`, `FromJoins`, `IdentList`,
  `ColumnList`, `SetList`, ...) are RECURSIVE operators with an accumulator.
* `ComputeMath` and `MathLoop` are `compute_math_operator`. `Compute` folds
  with exact fractions; a division by zero yields `NonFinite`, which stands
  for every infinity and NaN.
* Two reference definitions sit beside the parser:
  * `RefMath` evaluates an arithmetic token sequence by splitting it at its
    rightmost top-level `+`/`-`, then `*`/`/`, the textbook grammar;
  * `Spellings(st)` is every token sequence the spec's grammar (section 6)
    gives a statement, with keywords in any optional form and SET
    assignments in every order.
* `MathFoldAgrees(s)` and `SpecGrammarParses(st)` compare the parser with
  the references on one input. `MCParser` adds a variable `probe` that
  holds one parser input. Each arithmetic sequence and each statement is an
  initial state of its own, with the lexer at the end of the empty text.
  Beside them, the lexer's behaviours start from every text with no probe.
  TLC so checks the parser on one input per state, and a failing input is
  the state that violates `MathFoldMatchesReference` or `ParsesSpecGrammar`.
* `Bind(e, K(_))` is Rust's `let r = e;`. It names a parse result once,
  where a LET name read as `r.ok`, `r.v` and `r.i` would be re-expanded at
  each read by TLC's profiler.

## Runs

| run | cfg | result | what it shows |
|---|---|---|---|
| disk_engine | DiskEngine.cfg | pass (72k states) | `TypeOK`, `KeyDirDerivedFromLog` (the in-memory KeyDir is what startup would rebuild), `KVSpec` (DiskEngine refines KVStore through crashes, restarts and compaction) and `RecoveryPreservesContents` (no phase change alters what `get` returns). |
| disk_torn_write | DiskEngineTorn.cfg | violation | A header whose value was cut short is accepted by `build_keydir` (disk.rs:179-186). `get` for that key then fails with a read past EOF. Spec 4.1 says a torn tail is fatal or truncated. |
| disk_compact_crash | DiskEngineCompactCrash.cfg | violation | A crash in `compact()` leaves `.compact` behind. `Log::new` neither truncates nor deletes it (disk.rs:41), so the next compaction renames stale records into the log and a deleted key comes back. |
| session | Session.cfg | pass (17k states) | Over any mix of statements, in autocommit and explicit transactions: `IndexConsistent` (index sets and rows agree, with no empty sets), `NoOrphans` (no row or index entry outlives its table) and `RowStoredUnderItsKey`. |
| session_update_unchecked | SessionUpdateUnchecked.cfg | violation | `RowsConformToSchema` fails: `update_row` rewrites a row unchecked, so `UPDATE t SET b = 1.0` stores a Float in an INTEGER column. |
| session_partial_failure | SessionFailedStatement.cfg | violation | `FailedStatementHasNoEffect` fails: a two-row INSERT whose second row is a duplicate keeps the first row inside the transaction (engine/mod.rs:138). |
| session_scan_rewrite | SessionDmlScope.cfg | violation | `DmlActsOnSelectedRows` fails: `DELETE FROM t WHERE b = NULL` becomes an IndexScan on Null and deletes rows the filter would not select. |
| query | Query.cfg | pass (3k states) | `OrderSortsComparableKeys` (ORDER BY is a stable sort when no key is Null), `AggregateMatchesSpec` (COUNT/SUM/MIN/MAX/AVG and GROUP BY give the spec's values), `HashJoinMatchesNestedLoopOnIntegerKeys` (INNER, LEFT and RIGHT JOIN, planned by `build_from_item`, return the nested-loop rows), `SelectPageMatchesSpec` (ORDER BY ... LIMIT n OFFSET m returns the right page and columns), `HavingSelectsGroups` (in every HashMap order) `SelectWhereMatchesFilter` (`SELECT * FROM l WHERE ...` with `=`, `>` or `<` between a column and a constant returns the rows the filter selects, also when the planner turns it into a PrimaryKeyScan on `a = 1.0`) and `ResultsAreRectangular` (every successful SELECT, including `(l LEFT JOIN r ON b = c) LEFT JOIN r ON a = d`, CROSS JOIN, GROUP BY with HAVING and a projected page, has one cell per column in every row, so `ResultSet::to_string` shows it without a panic). |
| query_order_nulls | QueryOrderNulls.cfg | violation | `OrderSortsRowsWithNulls` fails: for b = 2, NULL, 1 the comparator calls both neighbours of NULL Equal, and the sort leaves 2 before 1 (query.rs:249-258). |
| query_hash_join | QueryHashJoin.cfg | violation | `HashJoinMatchesNestedLoop` fails: HashJoin matches keys by Value equality, so `ON b = c` joins NULL with NULL and does not join 1 with 1.0. |
| query_select_panics | QuerySelectPanics.cfg | violation | `SelectOutcomesMatchSpec` fails. SELECTs the parser accepts panic instead of returning an error. An outer join whose padded side is empty indexes `rrows[0]` (join.rs:189); `ON b = 1` unwraps a constant as a field (join.rs:217); `WHERE COUNT(b) = 1` unwraps in `parse_scan_filter` (planner.rs:254); `SELECT b, COUNT(a) FROM l` unwraps a missing group column (agg.rs:75). Spec 7 says errors are returned, never raised. Also, `SELECT b, COUNT(a) FROM l GROUP BY b ORDER BY b` fails on an empty table: Aggregate names its columns only while it computes a group (agg.rs:52), so ORDER BY cannot find `b`. The spec's scenario 4 orders a GROUP BY result by an output column. |
| parser | Parser.cfg | pass (614k states) | `TokensSpellText` (the tokens, spelled out, and the unconsumed input are the text up to whitespace and case), `LexTerminates` (every text is lexed to its end or an error), `MathFoldMatchesReference` (constant arithmetic folds to the reference value, with the usual precedence and left associativity; the reference folds each operator with the same `Compute`, so what f64 makes of a division by zero is not checked) and `ParsesSpecGrammar` (every statement parses back from each of its spellings, and a second `;` is refused). |

`create_row` also accepts an INSERT with more values than columns
(kv.rs:74). `RowsConformToSchema` fails on it when `MCSession`'s statement
set `MCStmts` is used; session_update_unchecked uses `MCStmtsFitting`,
which leaves that INSERT out so the counterexample is the UPDATE path.

Every property of a passing run has a mutant in PROJECT.json. A mutant is a
plausible bug in the modelled code, and the run's own configuration finds it:

| property | mutant |
|---|---|
| `TypeOK` (disk_engine) | the KeyDir stores the record size as the value size |
| `KVSpec` | the value offset is taken past the value |
| `RecoveryPreservesContents` | replay forgets the tombstone |
| `KeyDirDerivedFromLog` | compaction keeps the old offsets |
| `TypeOK` (session) | `create_table` skips `validate` |
| `IndexConsistent` | `delete_row` keeps the index entries |
| `NoOrphans` | `drop_table` deletes only the metadata |
| `RowStoredUnderItsKey` | `update_row` has no primary-key branch |
| `TypeOK` (query) | INSERT stores the row under its value, not its key |
| `OrderSortsComparableKeys` | insertion moves an element past equal ones |
| `AggregateMatchesSpec` | COUNT counts Nulls |
| `HashJoinMatchesNestedLoopOnIntegerKeys` | an unmatched row of an outer join is dropped |
| `SelectPageMatchesSpec` | LIMIT is stacked below OFFSET |
| `HavingSelectsGroups` | Filter keeps rows on which the predicate is Null |
| `SelectWhereMatchesFilter` | PrimaryKeyScan looks the Float key up without turning 1.0 into 1 |
| `ResultsAreRectangular` | HashJoin pads an unmatched row with as many Nulls as the row has cells |
| `TypeOK` (parser) | `scan_symbol` turns any character into a token |
| `TokensSpellText` | `scan_number` drops the decimal point |
| `LexTerminates` | `scan_symbol` returns its token without advancing |
| `MathFoldMatchesReference` | `compute_math_operator` recurses with the same precedence (right associative) |
| `ParsesSpecGrammar` | RIGHT JOIN keeps the ON operands unswapped |

## Bounds and why they are enough

**DiskEngine.**
* The bounds are 2 keys, 2 values of different lengths, and a log of at most
  9 cells (`MaxLogCells`).
* Nine cells hold three records. That is enough for:
  * an overwrite followed by a delete;
  * a compaction that rewrites two keys;
  * a torn record after a complete one.
* Values of different lengths make a wrong offset or length observable.

**Session.**
* There is one table `t(a INT PRIMARY KEY, b INT INDEX, c INT NOT NULL
  DEFAULT 1)`, plus an invalid schema without a primary key.
* Statements carry the constants Null, 1, 2 and 1.0. With these the
  following all occur:
  * a primary-key change;
  * a duplicate key;
  * a Null in a NOT NULL column;
  * an Integer/Float mismatch;
  * an index value that moves.
* The statement sets are:
  * INSERT: full, padded, with named columns, with two rows, and over-long;
  * UPDATE: five SET assignments crossed with seven WHERE clauses
    (none, `a = 1`, `b = 1`, `b = NULL`, `b = 1.0`, `a = b`, unknown column);
  * DELETE: the same seven WHERE clauses;
  * CREATE (good and bad) and DROP.
* Two primary keys exist, so at most two rows. That is enough for a
  primary-key change to collide and for a scan to return rows that must not
  be touched.
* The state space is finite because rows, keys and index sets range over
  these constants.

**Query.**
* `l` has up to 3 rows, with keys 1, 2, 3 and b in {Null, 1, 2, 1.0}. `r` has
  up to 2 rows, with c from the same values. That gives 125 × 25 = 3,125
  states, which are all the pairs of tables.
* Three rows is the fewest that can show an intransitive comparator
  (2, NULL, 1).
* 1 and 1.0 give ties under `partial_cmp` (stability) and Value-unequal
  keys that `Equal` calls equal (hash join).
* Null gives a group of its own and an all-Null SUM.
* LIMIT and OFFSET range over 0..2, so a page can be empty, partial,
  or run past the end.
* The WHERE clauses of `SelectWhereMatchesFilter` are `=` (both operand
  orders), `>` and `<` between each of `a`, `b` and an unknown column and
  each of Null, 1, 2, 1.0: a PrimaryKeyScan with an integral Float, a Null
  comparison, a mixed Integer/Float comparison and an error.

**Lexer and parser.**
* Texts are every sequence of up to 4 characters over `a S 1 . ' space ( ?`:
  a keyword (`AS`, in either case), an identifier, a number with and
  without a dot, a string, terminated or not, a symbol and an unknown
  character, each next to the others.
* Arithmetic is every token sequence of up to 6 tokens over `2 0 a + - * / ( )`.
  Six tokens hold `2-2-2` and `2/2*2` (associativity), `2+2*2`
  (precedence), `(2+2)` and `2/0`. Seven would exceed TLC's limit on the
  size of an enumerated set.
* The statement set covers every statement kind, every SELECT clause, the
  four join types and a chain of two joins, and EXPLAIN of each kind but
  SELECT.

## Fairness

`Lexer`'s specification has weak fairness on `Next`: the consumer of the
iterator (`Parser`, or `collect` in the lexer's tests) keeps calling `next`
until it returns None or an error, so a scan that is enabled is taken. This
is what `LexTerminates` needs. Every other module is a sequence of client
calls, and a client is free to stop, so no fairness is assumed there.

## Not modelled

* **Parser details.** Error messages and the `Display` impls are left out.
  `[INNER] JOIN` in the spec's grammar is not accepted as written: `INNER`
  is not a keyword, so only `JOIN` means an inner join. An integer literal
  beyond i64 fails in `n.parse()` (mod.rs:477); the model's literals are
  small. Infinities and NaN are one value. The lexer and the parser are not
  composed: the parser is checked on token sequences, and the sessions take
  statements as ASTs.
* **Plan formatting and display layout.** The text EXPLAIN returns
  (`Node`'s `Display`), the one-line strings of the non-SELECT results, and
  column widths and padding are output only. What `ResultSet::to_string`
  can get wrong, a panic on an over-long row, is modelled.
* **The file lock.** `try_lock_exclusive` is an OS facility outside the
  model.
* **The `as i32` value length** (disk.rs:206). It only bites at 2 GiB values.
* **MVCC with several sessions.** `storage/mvcc.rs` is not under `src/`,
  the engine is single-threaded (spec 5), multi-statement transactions
  across connections are a non-goal, and spec 9 defers write-conflict
  handling. There is no contract a multi-session model could be checked
  against, so `Session` models one session. The transaction that
  `Session::execute` leaks when `Plan::build` fails in autocommit
  (mod.rs:127 and 144) writes nothing and has no effect in that model.
* **WHERE under a join.** `BuildFrom` passes the WHERE clause to both
  sides of a join (planner.rs:193), as the code does, and every join the
  properties run goes through it. No property says what such a query
  should return: spec 4.6 describes the WHERE rewrite only for a base
  table, and a WHERE naming a column of one table fails with an error
  (not wrong rows) once the other table has a row.
* **Strings and unknown aggregate functions.** No property tells strings
  apart, and an unknown function name is a plain error.
* **Composing Session over DiskEngine.** `Session` runs over an abstract
  store. `DiskEngine` is shown to refine `KVStore`, the key-value contract
  under it; the MVCC layer that maps versions onto engine keys between the
  two is not under `src/`.
