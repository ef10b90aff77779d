------------------------------- MODULE Query -------------------------------
(***************************************************************************)
(* The read side of the executor: Order (src/sql/executor/query.rs), the  *)
(* joins (join.rs) and Aggregate with its calculators (agg.rs), as pure    *)
(* operators on result sets.  A result set is ResultSet::Scan: column      *)
(* names and rows.  An operator either returns one, fails with an Error,   *)
(* or panics (an unwrap or an index out of bounds).                        *)
(***************************************************************************)
EXTENDS SqlTypes, SequencesExt

Rs(cols, rows) == [ok |-> "ok", cols |-> cols, rows |-> rows]
Err == [ok |-> "error", cols |-> <<>>, rows |-> <<>>]
Panic == [ok |-> "panic", cols |-> <<>>, rows |-> <<>>]

\* The position of column c in a list of column names (iter().position).
Pos(cols, c) == CHOOSE i \in 1..Len(cols) : cols[i] = c
HasCol(cols, c) == \E i \in 1..Len(cols) : cols[i] = c

-----------------------------------------------------------------------------
(* Value::partial_cmp (types.rs, spec section 3): numbers compare across  *)
(* Integer and Float, Booleans among themselves; anything with Null, or of *)
(* two different kinds, is None.                                           *)
ValueCmp(x, y) ==
    IF (IsNumeric(x) /\ IsNumeric(y)) \/ (x.type = "Boolean" /\ y.type = "Boolean")
    THEN IF x.n < y.n THEN "lt" ELSE IF x.n = y.n THEN "eq" ELSE "gt"
    ELSE "none"

(* Order's comparator: the first ORDER BY key whose values compare Less or *)
(* Greater decides, reversed for DESC; Equal and None go on to the next    *)
(* key; all keys passed is Equal.  A key is [pos, asc].                    *)
RECURSIVE CmpKeys(_, _, _)
CmpKeys(x, y, keys) ==
    IF keys = <<>> THEN "eq"
    ELSE LET k == Head(keys)
             o == ValueCmp(x[k.pos], y[k.pos])
         IN CASE o \in {"eq", "none"} -> CmpKeys(x, y, Tail(keys))
              [] k.asc                -> o
              [] o = "lt"             -> "gt"
              [] OTHER                -> "lt"

(* slice::sort_by on at most 20 elements is insertion sort: each element   *)
(* in turn is shifted left past the elements it is less than (insert_tail *)
(* with is_less = compare() == Less).                                      *)
\* Mutant: an element also moves past the elements equal to it.
RECURSIVE InsertTailUnstable(_, _, _)
InsertTailUnstable(sorted, x, keys) ==
    IF sorted = <<>> \/ CmpKeys(x, Last(sorted), keys) = "gt"
    THEN Append(sorted, x)
    ELSE Append(InsertTailUnstable(Front(sorted), x, keys), Last(sorted))

RECURSIVE InsertTail(_, _, _)
InsertTail(sorted, x, keys) ==
    IF sorted = <<>> \/ CmpKeys(x, Last(sorted), keys) # "lt"
    THEN Append(sorted, x)
    ELSE Append(InsertTail(Front(sorted), x, keys), Last(sorted))

SortBy(rows, keys) == FoldLeft(LAMBDA s, x : InsertTail(s, x, keys), <<>>, rows)

(* Order::execute: every ORDER BY column must be in the input; then sort.  *)
(* orderBy is a sequence of [name, asc].                                   *)
Order(rs, orderBy) ==
    IF \E j \in 1..Len(orderBy) : ~HasCol(rs.cols, orderBy[j].name) THEN Err
    ELSE Rs(rs.cols, SortBy(rs.rows, [j \in 1..Len(orderBy) |->
                                        [pos |-> Pos(rs.cols, orderBy[j].name),
                                         asc |-> orderBy[j].asc]]))

-----------------------------------------------------------------------------
(* Joins.  evaluate_expr(pred, lcols, lrow, rcols, rrow) resolves the left *)
(* operand of Equal against the left row and the right operand against    *)
(* the right row.                                                          *)
EvalJoin(lcols, lrow, rcols, rrow, w) ==
    LET tbl(cols) == [columns |-> [i \in 1..Len(cols) |-> [name |-> cols[i]]]]
        l == Operand(tbl(lcols), lrow, w.l)
        r == Operand(tbl(rcols), rrow, w.r)
    IN IF "Error" \in {l.type, r.type} THEN [type |-> "Error", n |-> 0] ELSE SqlEqual(l, r)

NullRow(n) == [i \in 1..n |-> Null]

(* NestedLoopJoin::execute: for each left row, each right row on which the *)
(* predicate is true (every right row without one); with outer and no     *)
(* match, the left row padded with rrows[0].len() Nulls, which panics when *)
(* the right input is empty.  Only a predicate sets `matched`.             *)
NestedLoopJoin(l, r, pred, outer) ==
    LET ev(lrow, rrow) == EvalJoin(l.cols, lrow, r.cols, rrow, pred)
        hits(lrow) == SelectSeq(r.rows, LAMBDA rrow : pred.kind = "none" \/ ev(lrow, rrow) = Boolean(TRUE))
        matched(lrow) == pred.kind # "none" /\ hits(lrow) # <<>>
        out(lrow) == [i \in 1..Len(hits(lrow)) |-> lrow \o hits(lrow)[i]]
                     \o IF outer /\ ~matched(lrow) THEN <<lrow \o NullRow(Len(r.rows[1]))>> ELSE <<>>
    IN CASE outer /\ r.rows = <<>> /\ l.rows # <<>> -> Panic
         [] pred.kind # "none" /\ \E i \in 1..Len(l.rows), j \in 1..Len(r.rows) :
               ev(l.rows[i], r.rows[j]).type \notin {"Null", "Boolean"} -> Err
         [] OTHER -> Rs(l.cols \o r.cols, FlattenSeq([i \in 1..Len(l.rows) |-> out(l.rows[i])]))

(* join.rs parse_join_filter: the field names of Equal(l, r); a constant   *)
(* operand makes unwrap panic; no predicate is None.                       *)
ParseJoinFilter(pred) ==
    CASE pred.kind = "none"                 -> [ok |-> "error"]
      [] ~pred.l.isField \/ ~pred.r.isField -> [ok |-> "panic"]
      [] OTHER                              -> [ok |-> "ok", l |-> pred.l.name, r |-> pred.r.name]

(* HashJoin::execute: hash the right rows by their rfield value, probe     *)
(* with each left row's lfield value (Value equality: Null finds Null, 1   *)
(* does not find 1.0); an unmatched left row with outer is padded with    *)
(* rrows[0].len() Nulls.                                                   *)
\* Mutant: an unmatched left row is dropped even for an outer join.
HashJoinNoOuterPad(l, r, pred, outer) ==
    LET f == ParseJoinFilter(pred)
        hits(lrow) == SelectSeq(r.rows, LAMBDA rrow : rrow[Pos(r.cols, f.r)] = lrow[Pos(l.cols, f.l)])
    IN Rs(l.cols \o r.cols, FlattenSeq([i \in 1..Len(l.rows) |->
            [j \in 1..Len(hits(l.rows[i])) |-> l.rows[i] \o hits(l.rows[i])[j]]]))

\* Mutant: an unmatched left row is padded with as many Nulls as it has cells.
HashJoinPadsLeftWidth(l, r, pred, outer) ==
    LET f == ParseJoinFilter(pred)
        hits(lrow) == SelectSeq(r.rows, LAMBDA rrow : rrow[Pos(r.cols, f.r)] = lrow[Pos(l.cols, f.l)])
        out(lrow) == IF hits(lrow) # <<>>
                     THEN [i \in 1..Len(hits(lrow)) |-> lrow \o hits(lrow)[i]]
                     ELSE IF outer THEN <<lrow \o NullRow(Len(lrow))>> ELSE <<>>
    IN CASE f.ok = "error" -> Err
         [] f.ok = "panic" -> Panic
         [] ~HasCol(l.cols, f.l) \/ ~HasCol(r.cols, f.r) -> Err
         [] outer /\ r.rows = <<>> /\ l.rows # <<>> -> Panic
         [] OTHER -> Rs(l.cols \o r.cols, FlattenSeq([i \in 1..Len(l.rows) |-> out(l.rows[i])]))

HashJoin(l, r, pred, outer) ==
    LET f == ParseJoinFilter(pred)
        lpos == Pos(l.cols, f.l)
        rpos == Pos(r.cols, f.r)
        hits(lrow) == SelectSeq(r.rows, LAMBDA rrow : rrow[rpos] = lrow[lpos])
        out(lrow) == IF hits(lrow) # <<>>
                     THEN [i \in 1..Len(hits(lrow)) |-> lrow \o hits(lrow)[i]]
                     ELSE IF outer THEN <<lrow \o NullRow(Len(r.rows[1]))>> ELSE <<>>
    IN CASE f.ok = "error" -> Err
         [] f.ok = "panic" -> Panic
         [] ~HasCol(l.cols, f.l) \/ ~HasCol(r.cols, f.r) -> Err
         [] outer /\ r.rows = <<>> /\ l.rows # <<>> -> Panic
         [] OTHER -> Rs(l.cols \o r.cols, FlattenSeq([i \in 1..Len(l.rows) |-> out(l.rows[i])]))

-----------------------------------------------------------------------------
(* Aggregate calculators over the values of one column (agg.rs).          *)

NonNull(vals) == SelectSeq(vals, LAMBDA v : v # Null)

\* Mutant: Nulls are counted too.
CountAll(vals) == Integer(Len(vals))

\* Count: the values that are not Null.
CountOf(vals) == Integer(Len(NonNull(vals)))

\* Sum: Null when no value is a number; a non-number is an error; otherwise
\* the sum as a Float.
SumOf(vals) ==
    LET nn == NonNull(vals) IN
    CASE \E i \in 1..Len(nn) : ~IsNumeric(nn[i]) -> [type |-> "Error", n |-> 0]
      [] nn = <<>>                              -> Null
      [] OTHER -> Float(FoldSeq(LAMBDA v, acc : acc + v.n, 0, nn))

\* Min / Max: sort the non-Null values with partial_cmp().unwrap() and take
\* the first / last; Null when there is none.
SortedValues(vals) ==
    LET s == SortBy([i \in 1..Len(NonNull(vals)) |-> <<NonNull(vals)[i]>>],
                    <<[pos |-> 1, asc |-> TRUE]>>)
    IN [i \in 1..Len(s) |-> s[i][1]]

MinOf(vals) == IF NonNull(vals) = <<>> THEN Null ELSE Head(SortedValues(vals))
MaxOf(vals) == IF NonNull(vals) = <<>> THEN Null ELSE Last(SortedValues(vals))

\* Avg: Sum / Count when Sum is a Float, else Null.  The quotient is kept
\* as the pair (sum, count).
AvgOf(vals) ==
    LET s == SumOf(vals) IN
    CASE s.type = "Error" -> s
      [] s.type = "Float" -> [type |-> "Float", n |-> s.n, d |-> CountOf(vals).n]
      [] OTHER            -> Null

Calc(fn, vals) ==
    CASE fn = "COUNT" -> CountOf(vals)
      [] fn = "SUM"   -> SumOf(vals)
      [] fn = "MIN"   -> MinOf(vals)
      [] fn = "MAX"   -> MaxOf(vals)
      [] OTHER        -> AvgOf(vals)

(* Aggregate::execute.  exprs is a sequence of [fn, col, alias]; fn = ""  *)
(* is a plain column, alias = "" is none.  Output columns are named while *)
(* the first group is computed, so with no group there are none.          *)
(* group is the GROUP BY column, "" for none.  calc builds  *)
(* one output row, failing at the first bad expression: an unknown column *)
(* is an error, a plain column other than the GROUP BY column is an error, *)
(* and a plain column without GROUP BY unwraps None and panics.  Groups    *)
(* come out of a HashMap in no defined order, so the rows are returned    *)
(* keyed by group value.                                                   *)
Aggregate(rs, exprs, group) ==
    LET cell(key, rows, j) ==
            LET e == exprs[j] IN
            CASE e.fn # "" /\ ~HasCol(rs.cols, e.col)  -> [type |-> "Error", n |-> 0]
              [] e.fn # ""  -> Calc(e.fn, [i \in 1..Len(rows) |-> rows[i][Pos(rs.cols, e.col)]])
              [] group # "" /\ e.col # group           -> [type |-> "Error", n |-> 0]
              [] group = ""                            -> [type |-> "Panic", n |-> 0]
              [] OTHER                                 -> key
        calc(key, rows) == [j \in 1..Len(exprs) |-> cell(key, rows, j)]
        firstBad(row) == LET bad == {j \in 1..Len(row) : row[j].type \in {"Error", "Panic"}}
                         IN IF bad = {} THEN "ok" ELSE row[CHOOSE j \in bad : \A i \in bad : j <= i].type
        gpos == Pos(rs.cols, group)
        keys == {rs.rows[i][gpos] : i \in 1..Len(rs.rows)}
        members(k) == SelectSeq(rs.rows, LAMBDA row : row[gpos] = k)
        out == IF group = "" THEN [k \in {Null} |-> calc(Null, rs.rows)]
               ELSE [k \in keys |-> calc(k, members(k))]
        name(e) == CASE e.alias # "" -> e.alias [] e.fn # "" -> e.fn [] OTHER -> e.col
        cols == IF DOMAIN out = {} THEN <<>> ELSE [j \in 1..Len(exprs) |-> name(exprs[j])]
    IN CASE group # "" /\ ~HasCol(rs.cols, group) -> Err
         [] \E k \in DOMAIN out : firstBad(out[k]) = "Panic" -> Panic
         [] \E k \in DOMAIN out : firstBad(out[k]) = "Error" -> Err
         [] OTHER -> [ok |-> "ok", cols |-> cols, groups |-> out]

-----------------------------------------------------------------------------
\* Mutant: a row on which the predicate is Null is kept.
FilterKeepsNull(rs, w) ==
    LET tbl == [columns |-> [i \in 1..Len(rs.cols) |-> [name |-> rs.cols[i]]]]
    IN IF rs.ok # "ok" THEN rs
       ELSE Rs(rs.cols, SelectSeq(rs.rows, LAMBDA row : EvalWhere(tbl, row, w) # Boolean(FALSE)))

(* Filter::execute (the HAVING node): keep the rows on which the predicate *)
(* is true, drop Null and false, fail on any other value.                  *)
Filter(rs, w) ==
    LET tbl == [columns |-> [i \in 1..Len(rs.cols) |-> [name |-> rs.cols[i]]]]
        keep(row) == EvalWhere(tbl, row, w)
    IN CASE rs.ok # "ok" -> rs
         [] \E i \in 1..Len(rs.rows) : keep(rs.rows[i]).type \notin {"Null", "Boolean"} -> Err
         [] OTHER -> Rs(rs.cols, SelectSeq(rs.rows, LAMBDA row : keep(row) = Boolean(TRUE)))

(* Projection::execute: the Field expressions, in order, under their alias *)
(* or name; other expressions are skipped.                                 *)
Projection(rs, exprs) ==
    LET fields == SelectSeq(exprs, LAMBDA e : e.fn = "")
        n == Len(fields)
    IN CASE rs.ok # "ok" -> rs
         [] \E j \in 1..n : ~HasCol(rs.cols, fields[j].col) -> Err
         [] OTHER -> Rs([j \in 1..n |-> IF fields[j].alias # "" THEN fields[j].alias ELSE fields[j].col],
                        [i \in 1..Len(rs.rows) |-> [j \in 1..n |-> rs.rows[i][Pos(rs.cols, fields[j].col)]]])

\* Limit::execute and Offset::execute: take and skip.
Limit(rs, n) ==
    IF rs.ok # "ok" THEN rs
    ELSE Rs(rs.cols, SubSeq(rs.rows, 1, IF n < Len(rs.rows) THEN n ELSE Len(rs.rows)))
Offset(rs, n) ==
    IF rs.ok # "ok" THEN rs ELSE Rs(rs.cols, SubSeq(rs.rows, n + 1, Len(rs.rows)))

\* Aggregate's rows in the HashMap's iteration order perm.
AggRows(agg, perm) ==
    IF agg.ok # "ok" THEN agg ELSE Rs(agg.cols, [i \in 1..Len(perm) |-> agg.groups[perm[i]]])

\* An absent LIMIT or OFFSET.
NoneExpr == [type |-> "None", n |-> 0]

(* One node of a SELECT plan executed over the result rs of the node     *)
(* below it; perm is the order the HashMap yields groups in.               *)
PlanNode(rs, q, perm, node) ==
    CASE node = "aggregate" -> IF rs.ok # "ok" THEN rs ELSE AggRows(Aggregate(rs, q.exprs, q.group), perm)
      [] node = "having"    -> Filter(rs, q.having)
      [] node = "order"     -> IF rs.ok # "ok" THEN rs ELSE Order(rs, q.orderBy)
      [] node = "offset"    -> Offset(rs, q.offset.n)
      [] node = "limit"     -> Limit(rs, q.limit.n)
      [] OTHER              -> Projection(rs, q.exprs)

\* Executing the top node runs the stack from the bottom up.
RECURSIVE RunPlan(_, _, _, _)
RunPlan(rs, q, perm, nodes) ==
    IF nodes = <<>> THEN rs
    ELSE RunPlan(PlanNode(rs, q, perm, Head(nodes)), q, perm, Tail(nodes))

\* Whether build_statment stacks each kind of node for q.
HasAgg(q) == (\E j \in 1..Len(q.exprs) : q.exprs[j].fn # "") \/ q.group # ""
Stacked(q, node) ==
    CASE node = "aggregate" -> HasAgg(q)
      [] node = "having"    -> q.having.kind # "none"
      [] node = "order"     -> q.orderBy # <<>>
      [] node = "offset"    -> q.offset # NoneExpr
      [] node = "limit"     -> q.limit # NoneExpr
      [] OTHER              -> q.exprs # <<>> /\ ~HasAgg(q)

\* Mutant: LIMIT is stacked below OFFSET.
SelectLimitFirst(src, q, perm) ==
    CASE q.offset # NoneExpr /\ q.offset.type # "Integer" -> Err
      [] q.limit # NoneExpr /\ q.limit.type # "Integer"   -> Err
      [] OTHER -> RunPlan(src, q, perm,
                    SelectSeq(<<"aggregate", "having", "order", "limit", "offset", "project">>,
                              LAMBDA node : Stacked(q, node)))

(* Planner::build_statment for SELECT over a FROM result src: Aggregate   *)
(* when a SELECT expression is a function or there is a GROUP BY, then    *)
(* HAVING as a Filter, ORDER BY, OFFSET, LIMIT, and Projection when there *)
(* is a SELECT list and no aggregate.  A LIMIT or OFFSET that is not an    *)
(* Integer fails while planning.  q has exprs, group, having, orderBy,     *)
(* offset and limit.                                                       *)
Select(src, q, perm) ==
    CASE q.offset # NoneExpr /\ q.offset.type # "Integer" -> Err
      [] q.limit # NoneExpr /\ q.limit.type # "Integer"   -> Err
      [] OTHER -> RunPlan(src, q, perm,
                    SelectSeq(<<"aggregate", "having", "order", "offset", "limit", "project">>,
                              LAMBDA node : Stacked(q, node)))

-----------------------------------------------------------------------------
(* The inputs: two tables a client fills with INSERT and DELETE,          *)
(* l(a PRIMARY KEY, b) and r(d PRIMARY KEY, c), each stored as a function *)
(* from primary key to the other column.  A scan returns the rows in      *)
(* primary-key order (Scan of scan_table over the record layer).          *)
CONSTANTS
    LKeys, LVals,    \* primary keys and b values of l
    RKeys, RVals     \* primary keys and c values of r

VARIABLES lt, rt

vars == <<lt, rt>>

LCols == <<"a", "b">>
RCols == <<"d", "c">>

ScanOf(tbl, cols) ==
    LET pks == SetToSortSeq(DOMAIN tbl, LAMBDA x, y : x.n < y.n)
    IN Rs(cols, [i \in 1..Len(pks) |-> <<pks[i], tbl[pks[i]]>>])

L == ScanOf(lt, LCols)
R == ScanOf(rt, RCols)

TypeOK ==
    /\ DOMAIN lt \subseteq LKeys /\ \A k \in DOMAIN lt : lt[k] \in LVals
    /\ DOMAIN rt \subseteq RKeys /\ \A k \in DOMAIN rt : rt[k] \in RVals

Init == lt = <<>> /\ rt = <<>>

\* Mutant: the row is stored under its b value instead of its key.
InsertLByValue(k, v) == k \notin DOMAIN lt /\ lt' = lt @@ (v :> k) /\ UNCHANGED rt

\* INSERT INTO l VALUES (k, v): create_row fails on a duplicate key.
InsertL(k, v) == k \notin DOMAIN lt /\ lt' = lt @@ (k :> v) /\ UNCHANGED rt
InsertR(k, v) == k \notin DOMAIN rt /\ rt' = rt @@ (k :> v) /\ UNCHANGED lt
\* DELETE FROM l WHERE a = k: delete_row of the row with that key.
DeleteL(k) == k \in DOMAIN lt /\ lt' = [x \in DOMAIN lt \ {k} |-> lt[x]] /\ UNCHANGED rt
DeleteR(k) == k \in DOMAIN rt /\ rt' = [x \in DOMAIN rt \ {k} |-> rt[x]] /\ UNCHANGED lt

Next ==
    \/ \E k \in LKeys, v \in LVals : InsertL(k, v)
    \/ \E k \in RKeys, v \in RVals : InsertR(k, v)
    \/ \E k \in LKeys : DeleteL(k)
    \/ \E k \in RKeys : DeleteR(k)

Spec == Init /\ [][Next]_vars

-----------------------------------------------------------------------------
(* The FROM clause of a SELECT (Planner::build_from_item, build_scan) and  *)
(* the whole statement (Plan::build, then Plan::execute).  l is           *)
(* (a PRIMARY KEY, b) and r is (d PRIMARY KEY, c); neither has an index,   *)
(* so build_scan's IndexScan arm is not taken here (Executor has it).      *)
(* A FROM item is a table or a join of two FROM items; a join predicate   *)
(* is the AST's, in which the parser has already swapped a RIGHT JOIN's    *)
(* ON operands.                                                            *)
Tbl(n) == [kind |-> "table", name |-> n]
JoinOf(l, r, type, pred) == [kind |-> "join", left |-> l, right |-> r, type |-> type, pred |-> pred]

ColsOf(n) == IF n = "l" THEN LCols ELSE RCols
PkOf(n) == IF n = "l" THEN "a" ELSE "d"
RowsOf(n) == IF n = "l" THEN lt ELSE rt

(* build_scan: a parsed filter on the primary key gives PrimaryKeyScan,   *)
(* anything else a Scan that keeps the whole WHERE clause.                 *)
SelectScan(n, w) ==
    LET f == ParseScanFilter(w) IN
    IF f.ok = "some" /\ f.field = PkOf(n)
    THEN [node |-> "pk", table |-> n, value |-> f.value]
    ELSE [node |-> "scan", table |-> n, where |-> w]

\* Mutant: PrimaryKeyScan looks the value up as it is.
ExecSelectScanNoCoerce(node) ==
    LET rs == ScanOf(RowsOf(node.table), ColsOf(node.table)) IN
    IF node.node = "pk" THEN Rs(rs.cols, SelectSeq(rs.rows, LAMBDA row : row[1] = node.value))
    ELSE IF node.where.kind = "none" THEN rs ELSE Filter(rs, node.where)

(* Scan::execute: scan_table with the clause, which, like Filter, drops   *)
(* rows on which it is Null or false and fails on any other value.        *)
(* PrimaryKeyScan::execute: read_by_id of the value, an integral Float    *)
(* looked up as an Integer.                                                *)
ExecSelectScan(node) ==
    LET rs == ScanOf(RowsOf(node.table), ColsOf(node.table)) IN
    IF node.node = "pk"
    THEN LET id == IF node.value.type = "Float" THEN Integer(node.value.n) ELSE node.value
         IN Rs(rs.cols, SelectSeq(rs.rows, LAMBDA row : row[1] = id))
    ELSE IF node.where.kind = "none" THEN rs ELSE Filter(rs, node.where)

(* build_from_item: a table is a scan built with the statement's WHERE    *)
(* clause, so every table under a join gets it; RIGHT swaps the two sides; *)
(* CROSS is a NestedLoopJoin, the others a HashJoin; LEFT and RIGHT are    *)
(* outer.                                                                  *)
RECURSIVE BuildFrom(_, _)
BuildFrom(item, w) ==
    IF item.kind = "table" THEN SelectScan(item.name, w)
    ELSE LET sides == IF item.type = "right" THEN <<item.right, item.left>>
                      ELSE <<item.left, item.right>>
         IN [node |-> IF item.type = "cross" THEN "nlj" ELSE "hj",
             left |-> BuildFrom(sides[1], w), right |-> BuildFrom(sides[2], w),
             pred |-> item.pred, outer |-> item.type \in {"left", "right"}]

(* Executing a join runs its left input, then its right one (the ? on     *)
(* each passes a failure up), then joins them.                             *)
RECURSIVE ExecFrom(_)
ExecFrom(node) ==
    IF node.node \in {"scan", "pk"} THEN ExecSelectScan(node)
    ELSE LET l == ExecFrom(node.left)
             r == ExecFrom(node.right)
         IN CASE l.ok # "ok"        -> l
              [] r.ok # "ok"        -> r
              [] node.node = "nlj"  -> NestedLoopJoin(l, r, node.pred, node.outer)
              [] OTHER              -> HashJoin(l, r, node.pred, node.outer)

(* A SELECT statement st (from, where, and q for Select): build_from_item  *)
(* runs first, and the first build_scan that parses a WHERE clause with a  *)
(* Function operand panics before anything executes; otherwise Select     *)
(* plans the nodes above the FROM tree and executing the plan runs the     *)
(* tree first.                                                             *)
SelectStmt(st, perm) ==
    IF ParseScanFilter(st.where).ok = "panic" THEN Panic
    ELSE Select(ExecFrom(BuildFrom(st.from, st.where)), st.q, perm)

-----------------------------------------------------------------------------
(* Properties.                                                             *)

OrderByB(asc) == Order(L, <<[name |-> "b", asc |-> asc]>>)

\* Row x's b sorts strictly before row y's under ASC or DESC.
Before(x, y, asc) == ValueCmp(x[2], y[2]) = IF asc THEN "lt" ELSE "gt"

(* ORDER BY b and ORDER BY b DESC, when no b is Null, return each input   *)
(* row once, sorted by b, and rows whose b compare Equal (1 and 1.0) keep *)
(* their primary-key order: Order::execute's comparator under sort_by is  *)
(* a stable sort when every pair of keys compares.                         *)
OrderSortsComparableKeys ==
    (\A i \in 1..Len(L.rows) : L.rows[i][2] # Null) =>
       \A asc \in BOOLEAN :
          LET out == OrderByB(asc).rows IN
          /\ Len(out) = Len(L.rows)
          /\ Range(out) = Range(L.rows)
          /\ \A i, j \in 1..Len(out) : i < j =>
                /\ ~Before(out[j], out[i], asc)
                /\ ValueCmp(out[i][2], out[j][2]) = "eq" => out[i][1].n < out[j][1].n

(* Spec section 4.7: a Null key, whose partial_cmp is None, leaves only   *)
(* that pair's order unchanged; rows whose b values compare still come    *)
(* out of ORDER BY b in order.                                             *)
OrderSortsRowsWithNulls ==
    LET out == OrderByB(TRUE).rows IN
    \A i, j \in 1..Len(out) : i < j => ~Before(out[j], out[i], TRUE)

\* Spec section 4.7's value of aggregate fn over the values vals[i], i \in I.
SpecAggHolds(fn, got, vals, I) ==
    LET nn == {i \in I : vals[i] # Null}
        sum == SumFunctionOnSet([i \in DOMAIN vals |-> vals[i].n], nn)
        best(ok) == got \in {vals[i] : i \in nn} /\ \A i \in nn : ValueCmp(got, vals[i]) \in ok
    IN CASE fn = "COUNT" -> got = Integer(Cardinality(nn))
         [] nn = {}      -> got = Null
         [] fn = "SUM"   -> got = Float(sum)
         [] fn = "MIN"   -> best({"lt", "eq"})
         [] fn = "MAX"   -> best({"gt", "eq"})
         [] OTHER        -> got = [type |-> "Float", n |-> sum, d |-> Cardinality(nn)]

AggFns == <<"COUNT", "SUM", "MIN", "MAX", "AVG">>

\* SELECT COUNT(b), SUM(b), MIN(b), MAX(b), AVG(b) FROM l
AllAggsOfB == Aggregate(L, [j \in 1..5 |-> [fn |-> AggFns[j], col |-> "b", alias |-> ""]], "")
\* SELECT b, COUNT(a), COUNT(b), SUM(a) FROM l GROUP BY b
GroupedByB == Aggregate(L, << [fn |-> "", col |-> "b", alias |-> ""], [fn |-> "COUNT", col |-> "a", alias |-> ""],
                              [fn |-> "COUNT", col |-> "b", alias |-> ""], [fn |-> "SUM", col |-> "a", alias |-> ""] >>, "b")

(* Aggregate computes spec section 4.7's values: COUNT ignores Nulls, SUM *)
(* promotes to Float and is Null on no value, MIN/MAX ignore Nulls, AVG   *)
(* is SUM/COUNT; with GROUP BY b there is exactly one row per distinct b  *)
(* (Null a group of its own) computed over that group's rows.             *)
AggregateMatchesSpec ==
    LET col(j) == [i \in 1..Len(L.rows) |-> L.rows[i][j]]
        all == 1..Len(L.rows)
        members(k) == {i \in all : L.rows[i][2] = k}
    IN /\ AllAggsOfB.ok = "ok"
       /\ DOMAIN AllAggsOfB.groups = {Null}
       /\ \A j \in 1..5 : SpecAggHolds(AggFns[j], AllAggsOfB.groups[Null][j], col(2), all)
       /\ GroupedByB.ok = "ok"
       /\ DOMAIN GroupedByB.groups = {L.rows[i][2] : i \in all}
       /\ \A k \in DOMAIN GroupedByB.groups :
             LET row == GroupedByB.groups[k] IN
             /\ row[1] = k
             /\ SpecAggHolds("COUNT", row[2], col(1), members(k))
             /\ SpecAggHolds("COUNT", row[3], col(2), members(k))
             /\ SpecAggHolds("SUM", row[4], col(1), members(k))

OnBC == Eq(Field("b"), Field("c"))

(* Spec section 4.7: HashJoin has NestedLoopJoin's semantics for          *)
(* l JOIN r ON b = c and l LEFT JOIN r ON b = c: a row pair joins when    *)
(* Equal(b, c) is true.                                                    *)
HashJoinMatchesNestedLoop ==
    \A outer \in BOOLEAN : HashJoin(L, R, OnBC, outer) = NestedLoopJoin(L, R, OnBC, outer)

\* SELECT * : no SELECT list and no clause above FROM.
StarQuery ==
    [exprs |-> <<>>, group |-> "", having |-> NoWhere, orderBy |-> <<>>,
     offset |-> NoneExpr, limit |-> NoneExpr]

Star(from, w) == [from |-> from, where |-> w, q |-> StarQuery]

\* The WHERE clauses that compare a column of l (or the unknown column e)
\* with a constant, either way round, under =, > and <.
ColumnConstWheres ==
    UNION {{Eq(Field(c), Const(v)), Eq(Const(v), Field(c)), Gt(Field(c), Const(v)),
            Lt(Const(v), Field(c))} : c \in {"a", "b", "e"}, v \in LVals}

(* SELECT * FROM l WHERE w returns exactly what filtering the scan of l by *)
(* w returns (the rows on which evaluate_expr gives true, in key order, or *)
(* the error): build_scan's rewrite of a = v into a PrimaryKeyScan, with   *)
(* its Float-to-Integer coercion and its lookup of Null, selects the same  *)
(* rows as the clause does.  (A clause a = b, compared with a column, is   *)
(* rewritten into a lookup of Null; session_scan_rewrite shows that.)      *)
SelectWhereMatchesFilter ==
    \A w \in ColumnConstWheres : SelectStmt(Star(Tbl("l"), w), <<>>) = Filter(L, w)

OnCB == Eq(Field("c"), Field("b"))
\* SELECT * FROM l <t> JOIN r ON b = c as the parser hands it over.
JoinSelect(t) == Star(JoinOf(Tbl("l"), Tbl("r"), t, IF t = "right" THEN OnCB ELSE OnBC), NoWhere)

(* Where the join keys are Integers on both sides, hashing on Value and    *)
(* evaluating Equal agree, and the planner builds the join the spec says:  *)
(* SELECT * FROM l JOIN r ON b = c and l LEFT JOIN r ON b = c return       *)
(* NestedLoopJoin's rows of l and r, in the same order, Null-padding       *)
(* unmatched l rows for LEFT; l RIGHT JOIN r ON b = c returns              *)
(* NestedLoopJoin's rows of r and l, Null-padding unmatched r rows.        *)
HashJoinMatchesNestedLoopOnIntegerKeys ==
    (/\ \A i \in 1..Len(L.rows) : L.rows[i][2].type = "Integer"
     /\ \A i \in 1..Len(R.rows) : R.rows[i][2].type = "Integer") =>
       \A t \in {"inner", "left", "right"} :
          SelectStmt(JoinSelect(t), <<>>) =
             IF t = "right" THEN NestedLoopJoin(R, L, OnCB, TRUE)
             ELSE NestedLoopJoin(L, R, OnBC, t = "left")

GrouplessQuery ==
    [StarQuery EXCEPT !.exprs = << [fn |-> "", col |-> "b", alias |-> ""],
                                   [fn |-> "COUNT", col |-> "a", alias |-> ""] >>]

\* SELECT b, COUNT(a) FROM l GROUP BY b ORDER BY b
GroupedOrderQuery ==
    [StarQuery EXCEPT !.exprs = GrouplessQuery.exprs, !.group = "b",
                      !.orderBy = << [name |-> "b", asc |-> TRUE] >>]

(* SELECTs that reach the unwraps, the indexing and the column naming of  *)
(* the read path, each with the outcomes spec sections 4.7 and 7 allow:   *)
(* "ok", or "error" for a column outside GROUP BY and for a join          *)
(* predicate that is not col = col.                                        *)
SelectOutcomes ==
    { [st |-> JoinSelect("left"), want |-> {"ok"}],
      [st |-> JoinSelect("right"), want |-> {"ok"}],
      [st |-> Star(JoinOf(Tbl("l"), Tbl("r"), "inner", Eq(Field("b"), Const(Integer(1)))), NoWhere),
       want |-> {"error"}],
      [st |-> Star(Tbl("l"), Eq(Func("b"), Const(Integer(1)))), want |-> {"ok", "error"}],  \* WHERE COUNT(b) = 1
      [st |-> [from |-> Tbl("l"), where |-> NoWhere, q |-> GrouplessQuery], want |-> {"error"}],
      [st |-> [from |-> Tbl("l"), where |-> NoWhere, q |-> GroupedOrderQuery], want |-> {"ok"}] }

(* Spec section 7: every operation returns success or an error, and no    *)
(* exception crosses the API; "column must appear in GROUP BY" and an     *)
(* unrecognised join predicate are Internal errors; spec section 8's      *)
(* scenario 4 orders a GROUP BY result by an output column.  Each SELECT  *)
(* has the outcome the spec gives it: no outer HashJoin panics on an      *)
(* empty side (rrows[0]), nor a plain column without GROUP BY              *)
(* (col_val.unwrap()), a constant ON operand (parse_join_filter) or a      *)
(* Function in WHERE (parse_scan_filter); and ORDER BY b over GROUP BY b   *)
(* finds b although Aggregate names its columns only while computing a    *)
(* group.                                                                  *)
SelectOutcomesMatchSpec ==
    \A o \in SelectOutcomes :
       LET rs == SelectStmt(o.st, SetToSeq({lt[k] : k \in DOMAIN lt})) IN rs.ok \in o.want

\* SELECT b AS x, a FROM l ORDER BY a DESC LIMIT n OFFSET m
PageQuery(n, m) ==
    [exprs |-> << [fn |-> "", col |-> "b", alias |-> "x"], [fn |-> "", col |-> "a", alias |-> ""] >>,
     group |-> "", having |-> NoWhere, orderBy |-> << [name |-> "a", asc |-> FALSE] >>,
     offset |-> Integer(m), limit |-> Integer(n)]

(* SELECT b AS x, a FROM l ORDER BY a DESC LIMIT n OFFSET m returns the   *)
(* rows m+1 to m+n of l in descending key order, as columns x and a: the   *)
(* planner stacks Order, Offset, Limit and Projection in that order.       *)
SelectPageMatchesSpec ==
    LET byA == SetToSortSeq(DOMAIN lt, LAMBDA x, y : x.n > y.n)
        size(n, m) == IF m >= Len(byA) THEN 0 ELSE IF n < Len(byA) - m THEN n ELSE Len(byA) - m
    IN \A n, m \in 0..2 :
          Select(L, PageQuery(n, m), <<>>) =
             Rs(<<"x", "a">>, [i \in 1..size(n, m) |-> <<lt[byA[m + i]], byA[m + i]>>])

\* SELECT b, COUNT(a) FROM l GROUP BY b HAVING b = 1
HavingQuery ==
    [exprs |-> << [fn |-> "", col |-> "b", alias |-> ""], [fn |-> "COUNT", col |-> "a", alias |-> ""] >>,
     group |-> "b", having |-> Eq(Field("b"), Const(Integer(1))), orderBy |-> <<>>,
     offset |-> NoneExpr, limit |-> NoneExpr]

(* SELECT b, COUNT(a) FROM l GROUP BY b HAVING b = 1 returns one row for   *)
(* each group whose b is Equal to 1 (the groups 1 and 1.0, not NULL), with *)
(* the number of rows in that group, whatever order the HashMap yields the *)
(* groups in.                                                              *)
HavingSelectsGroups ==
    LET keys == {lt[k] : k \in DOMAIN lt}
        want == {<<v, Integer(Cardinality({k \in DOMAIN lt : lt[k] = v}))>> :
                    v \in {w \in keys : SqlEqual(w, Integer(1)) = Boolean(TRUE)}}
    IN \A perm \in SetToSeqs(keys) :
          LET out == Select(L, HavingQuery, perm) IN
          out.ok = "ok" /\ Len(out.rows) = Cardinality(want) /\ Range(out.rows) = want

(* ResultSet::to_string for a Scan result, the text the client prints.    *)
(* max_len starts with one width per column name and is widened by every *)
(* cell at its position i, so a row with more cells than there are        *)
(* columns indexes past max_len and panics.  Each shown line zips a row's *)
(* cells with max_len, so a row with fewer cells shows fewer.  Widths,    *)
(* padding and separators are left out: a shown line is the cells it      *)
(* shows, under the header, followed by the row count.                    *)
ShowResultSet(rs) ==
    IF \E i \in 1..Len(rs.rows) : Len(rs.rows[i]) > Len(rs.cols) THEN [ok |-> "panic"]
    ELSE [ok |-> "ok", header |-> rs.cols, count |-> Len(rs.rows),
          lines |-> [i \in 1..Len(rs.rows) |-> [j \in 1..Len(rs.rows[i]) |-> rs.rows[i][j]]]]

\* SELECT * FROM (l LEFT JOIN r ON b = c) LEFT JOIN r ON a = d
ChainSelect ==
    Star(JoinOf(JoinOf(Tbl("l"), Tbl("r"), "left", OnBC), Tbl("r"), "left",
                Eq(Field("a"), Field("d"))), NoWhere)

\* SELECTs whose result rows are built by padding, concatenation, grouping
\* or projection.
ShownSelects ==
    { JoinSelect("inner"), JoinSelect("left"), JoinSelect("right"), ChainSelect,
      Star(JoinOf(Tbl("l"), Tbl("r"), "cross", NoWhere), NoWhere),
      [from |-> Tbl("l"), where |-> NoWhere, q |-> HavingQuery],
      [from |-> Tbl("l"), where |-> NoWhere, q |-> PageQuery(1, 1)] }

(* Every SELECT that succeeds can be shown: each result row has exactly   *)
(* one cell per result column, so ResultSet::to_string neither panics on  *)
(* max_len[i] nor prints a row short of cells.  Rows are built by         *)
(* HashJoin's and NestedLoopJoin's concatenation and Null padding          *)
(* (rrows[0].len() Nulls), Aggregate's calc and Projection, through joins  *)
(* nested two deep.                                                        *)
ResultsAreRectangular ==
    \A st \in ShownSelects :
       LET rs == SelectStmt(st, SetToSeq({lt[k] : k \in DOMAIN lt})) IN
       rs.ok = "ok" =>
          LET shown == ShowResultSet(rs) IN
          shown.ok = "ok" /\ \A i \in 1..shown.count : Len(shown.lines[i]) = Len(shown.header)

=============================================================================
