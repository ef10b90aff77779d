------------------------------- MODULE Parser -------------------------------
(***************************************************************************)
(* The recursive-descent parser of src/sql/parser/mod.rs and the constant *)
(* folding of lexer.rs (Token::compute_expr) as operators over a token     *)
(* sequence.  Every parse_* function becomes an operator P(ts, i) that     *)
(* reads ts from position i and returns [ok, v, i]: the AST built and the  *)
(* position after it, or a failure (any Error::Parse or Error::Internal;   *)
(* messages are not modelled).  Peekable's peek is ts[i]; next moves on.   *)
(***************************************************************************)
EXTENDS SqlTypes, SequencesExt

CONSTANTS
    NumberLit,   \* text of a Number token -> [digits, n, d]: what n.parse()
                 \* yields (digits: every character is a digit)
    MathTokens,  \* the tokens arithmetic is checked over
    MaxMathLen,  \* and the longest token sequence checked
    Statements   \* the statements whose spellings are parsed

(***************************************************************************)
(* Tokens (lexer.rs Token).  v is the keyword's name, the ident, the      *)
(* string or the number text, and "" for a symbol.                        *)
(***************************************************************************)
KW(k) == [kind |-> "Keyword", v |-> k]
Sym(s) == [kind |-> s, v |-> ""]
IdentT(x) == [kind |-> "Ident", v |-> x]
NumT(x) == [kind |-> "Number", v |-> x]
StrT(x) == [kind |-> "String", v |-> x]
EOF == [kind |-> "EOF", v |-> ""]

(***************************************************************************)
(* The AST (ast.rs).  Constants reuse SqlTypes' values; a Float is the    *)
(* fraction n/d, and an infinite or NaN f64 is NonFinite.                  *)
(***************************************************************************)
Str(s) == [type |-> "String", s |-> s]
FloatQ(n, d) == [type |-> "Float", n |-> n, d |-> d]
NonFinite == [type |-> "Float", inf |-> TRUE]
FieldE(c) == [e |-> "Field", name |-> c]
ConstE(v) == [e |-> "Consts", val |-> v]
FuncE(f, c) == [e |-> "Function", name |-> f, col |-> c]
OpE(op, l, r) == [e |-> "Operation", op |-> op, l |-> l, r |-> r]
TableItem(n) == [item |-> "Table", name |-> n]
Some(x) == [some |-> TRUE, v |-> x]
NoneO == [some |-> FALSE]

Ok(v, i) == [ok |-> TRUE, v |-> v, i |-> i]
Fail == [ok |-> FALSE, v |-> "", i |-> 0]

\* let r = e; k(r): the result e, computed once and named r in K.  A
\* result bound by LET and read as r.ok, r.v and r.i would be expanded at
\* each read by TLC's profiler; bound here it is read as a value.
Bind(e, K(_)) == CHOOSE v \in {K(r) : r \in {e}} : TRUE

\* peek: the token at i, EOF past the end.  next() at the end is the
\* error "Unexpected end of input", which no expected token matches.
Peek(ts, i) == IF i \in 1..Len(ts) THEN ts[i] ELSE EOF

\* next_ident: the next token must be an Ident.
NextIdent(ts, i) == IF Peek(ts, i).kind = "Ident" THEN Ok(ts[i].v, i + 1) ELSE Fail

(***************************************************************************)
(* Operators and constant folding (lexer.rs).                              *)
(***************************************************************************)
IsOperator(t) == t.kind \in {"+", "-", "*", "/"}

Precedence(t) ==
    CASE t.kind \in {"+", "-"} -> 1
      [] t.kind \in {"*", "/"} -> 2
      [] OTHER                 -> 0

Finite(c) == "inf" \notin DOMAIN c
QOf(c) == IF c.type = "Integer" THEN [n |-> c.n, d |-> 1] ELSE [n |-> c.n, d |-> c.d]

\* compute, on f64 values as fractions.  x / 0 is infinite; an infinite
\* operand gives a non-finite result (inf and NaN are not told apart).
Compute(op, l, r) ==
    LET a == QOf(l)  b == QOf(r) IN
    CASE ~Finite(l) \/ ~Finite(r)   -> NonFinite
      [] op = "*"                   -> FloatQ(a.n * b.n, a.d * b.d)
      [] op = "+"                   -> FloatQ(a.n * b.d + b.n * a.d, a.d * b.d)
      [] op = "-"                   -> FloatQ(a.n * b.d - b.n * a.d, a.d * b.d)
      [] op = "/" /\ b.n = 0        -> NonFinite
      [] OTHER                      -> FloatQ(a.n * b.d, a.d * b.n)

\* compute_expr: both sides must be numeric constants; the result is a
\* Float even for two Integers.
ComputeExpr(t, l, r) ==
    IF /\ l.e = "Consts" /\ r.e = "Consts"
       /\ IsNumeric(l.val) /\ IsNumeric(r.val)
    THEN Ok(ConstE(Compute(t.kind, l.val, r.val)), 0)
    ELSE Fail

\* parse_expression, Token::Number: digits only is an Integer, else a Float.
NumberConst(lit) ==
    IF NumberLit[lit].digits THEN Integer(NumberLit[lit].n)
    ELSE FloatQ(NumberLit[lit].n, NumberLit[lit].d)

(***************************************************************************)
(* parse_expression and compute_math_operator.                             *)
(***************************************************************************)
RECURSIVE ParseExpression(_, _), ComputeMath(_, _, _), MathLoop(_, _, _, _)

ParseExpression(ts, i) ==
    LET t == Peek(ts, i) IN
    CASE t.kind = "Ident" /\ Peek(ts, i + 1) = Sym("(") ->
           LET c == NextIdent(ts, i + 2) IN
           IF c.ok /\ Peek(ts, c.i) = Sym(")") THEN Ok(FuncE(t.v, c.v), c.i + 1) ELSE Fail
      [] t.kind = "Ident"   -> Ok(FieldE(t.v), i + 1)
      [] t.kind = "Number"  -> Ok(ConstE(NumberConst(t.v)), i + 1)
      [] t = Sym("(")       ->
           Bind(ComputeMath(ts, i + 1, 1), LAMBDA e :
                IF e.ok /\ Peek(ts, e.i) = Sym(")") THEN Ok(e.v, e.i + 1) ELSE Fail)
      [] t.kind = "String"  -> Ok(ConstE(Str(t.v)), i + 1)
      [] t = KW("TRUE")     -> Ok(ConstE(Boolean(TRUE)), i + 1)
      [] t = KW("FALSE")    -> Ok(ConstE(Boolean(FALSE)), i + 1)
      [] t = KW("NULL")     -> Ok(ConstE(Null), i + 1)
      [] OTHER              -> Fail

\* compute_math_operator(min_prec): a primary, then, while the next token
\* is an operator of precedence >= min_prec, consume it, parse the right
\* side with min_prec = precedence + 1 and fold the two.
ComputeMath(ts, i, minPrec) ==
    Bind(ParseExpression(ts, i), LAMBDA l :
         IF l.ok THEN MathLoop(ts, l.i, minPrec, l.v) ELSE Fail)

MathLoopRightAssoc(ts, i, minPrec, left) ==
    LET t == Peek(ts, i) IN
    IF ~IsOperator(t) \/ Precedence(t) < minPrec THEN Ok(left, i)
    ELSE Bind(ComputeMath(ts, i + 1, Precedence(t)), LAMBDA r :
           IF ~r.ok THEN Fail
           ELSE Bind(ComputeExpr(t, left, r.v), LAMBDA c :
                     IF c.ok THEN MathLoop(ts, r.i, minPrec, c.v) ELSE Fail))

MathLoop(ts, i, minPrec, left) ==
    LET t == Peek(ts, i) IN
    IF ~IsOperator(t) \/ Precedence(t) < minPrec THEN Ok(left, i)
    ELSE Bind(ComputeMath(ts, i + 1, Precedence(t) + 1), LAMBDA r :
           IF ~r.ok THEN Fail
           ELSE Bind(ComputeExpr(t, left, r.v), LAMBDA c :
                     IF c.ok THEN MathLoop(ts, r.i, minPrec, c.v) ELSE Fail))

\* parse_operation_expr: a primary, "=", ">" or "<", then a folded
\* expression.  Anything else is Error::Internal("Unexpected token").
ParseOperationExpr(ts, i) ==
    Bind(ParseExpression(ts, i), LAMBDA l :
         IF l.ok /\ Peek(ts, l.i).kind \in {"=", ">", "<"}
         THEN Bind(ComputeMath(ts, l.i + 1, 1), LAMBDA r :
                   IF r.ok THEN Ok(OpE(Peek(ts, l.i).kind, l.v, r.v), r.i) ELSE Fail)
         ELSE Fail)

Opt(r) == Bind(r, LAMBDA x : IF x.ok THEN Ok(Some(x.v), x.i) ELSE Fail)

\* parse_where_clause and parse_having_clause.
ParseWhereClause(ts, i) ==
    IF Peek(ts, i) = KW("WHERE") THEN Opt(ParseOperationExpr(ts, i + 1)) ELSE Ok(NoneO, i)

ParseHavingClause(ts, i) ==
    IF Peek(ts, i) = KW("HAVING") THEN Opt(ParseOperationExpr(ts, i + 1)) ELSE Ok(NoneO, i)

\* parse_group_clause: GROUP BY and one expression.
ParseGroupClause(ts, i) ==
    CASE Peek(ts, i) # KW("GROUP")      -> Ok(NoneO, i)
      [] Peek(ts, i + 1) = KW("BY")     -> Opt(ParseExpression(ts, i + 2))
      [] OTHER                          -> Fail

\* The LIMIT and OFFSET arms of parse_select.
ParseLimit(ts, i) ==
    IF Peek(ts, i) = KW("LIMIT") THEN Opt(ParseExpression(ts, i + 1)) ELSE Ok(NoneO, i)

ParseOffset(ts, i) ==
    IF Peek(ts, i) = KW("OFFSET") THEN Opt(ParseExpression(ts, i + 1)) ELSE Ok(NoneO, i)

\* parse_order_clause: ORDER BY col [ASC | DESC] {, col [ASC | DESC]};
\* the direction defaults to Asc.
RECURSIVE OrderItems(_, _, _)
OrderItems(ts, i, acc) ==
    LET c == NextIdent(ts, i)
        d == Peek(ts, c.i)
        j == IF d \in {KW("ASC"), KW("DESC")} THEN c.i + 1 ELSE c.i
        items == Append(acc, [col |-> c.v, dir |-> IF d = KW("DESC") THEN "Desc" ELSE "Asc"])
    IN CASE ~c.ok                   -> Fail
         [] Peek(ts, j) = Sym(",")  -> OrderItems(ts, j + 1, items)
         [] OTHER                   -> Ok(items, j)

ParseOrderClause(ts, i) ==
    CASE Peek(ts, i) # KW("ORDER")      -> Ok(<<>>, i)
      [] Peek(ts, i + 1) = KW("BY")     -> OrderItems(ts, i + 2, <<>>)
      [] OTHER                          -> Fail

\* parse_select_clause: SELECT *, which is the empty list, or
\* expr [AS alias] {, expr [AS alias]}.
RECURSIVE SelectItems(_, _, _)
SelectItems(ts, i, acc) ==
    Bind(ParseExpression(ts, i), LAMBDA e :
    LET a == IF Peek(ts, e.i) = KW("AS") THEN Opt(NextIdent(ts, e.i + 1)) ELSE Ok(NoneO, e.i)
        items == Append(acc, [expr |-> e.v, alias |-> a.v])
    IN CASE ~e.ok \/ ~a.ok          -> Fail
         [] Peek(ts, a.i) = Sym(",") -> SelectItems(ts, a.i + 1, items)
         [] OTHER                    -> Ok(items, a.i))

ParseSelectClause(ts, i) ==
    CASE Peek(ts, i) # KW("SELECT")     -> Fail
      [] Peek(ts, i + 1) = Sym("*")     -> Ok(<<>>, i + 2)
      [] OTHER                          -> SelectItems(ts, i + 1, <<>>)

\* parse_from_clause_join: the join type, "none" when no join follows.
ParseFromClauseJoin(ts, i) ==
    LET t == Peek(ts, i)
        joined(type) == IF Peek(ts, i + 1) = KW("JOIN") THEN Ok(type, i + 2) ELSE Fail
    IN CASE t = KW("CROSS") -> joined("Cross")
         [] t = KW("JOIN")  -> Ok("Inner", i + 1)
         [] t = KW("LEFT")  -> joined("Left")
         [] t = KW("RIGHT") -> joined("Right")
         [] OTHER           -> Ok("none", i)

\* The loop of parse_from_clause: each join nests the item so far as its
\* left side.  A join other than CROSS needs ON expr = expr; for a RIGHT
\* join the two sides of the predicate are swapped.
RECURSIVE FromJoins(_, _, _)
FromJoinsNoSwap(ts, i, item) ==
    LET j == ParseFromClauseJoin(ts, i)
        r == NextIdent(ts, j.i)
        join(p, k) == FromJoins(ts, k, [item |-> "Join", left |-> item, right |-> TableItem(r.v),
                                        join_type |-> j.v, predicate |-> p])
    IN CASE ~j.ok                       -> Fail
         [] j.v = "none"                -> Ok(item, i)
         [] ~r.ok                       -> Fail
         [] j.v = "Cross"               -> join(NoneO, r.i)
         [] Peek(ts, r.i) # KW("ON")    -> Fail
         [] OTHER ->
            Bind(ParseExpression(ts, r.i + 1), LAMBDA l :
              IF l.ok /\ Peek(ts, l.i) = Sym("=")
              THEN Bind(ParseExpression(ts, l.i + 1), LAMBDA rr :
                     IF rr.ok
                     THEN join(Some(OpE("=", l.v, rr.v)), rr.i)
                     ELSE Fail)
              ELSE Fail)

FromJoins(ts, i, item) ==
    LET j == ParseFromClauseJoin(ts, i)
        r == NextIdent(ts, j.i)
        join(p, k) == FromJoins(ts, k, [item |-> "Join", left |-> item, right |-> TableItem(r.v),
                                        join_type |-> j.v, predicate |-> p])
    IN CASE ~j.ok                       -> Fail
         [] j.v = "none"                -> Ok(item, i)
         [] ~r.ok                       -> Fail
         [] j.v = "Cross"               -> join(NoneO, r.i)
         [] Peek(ts, r.i) # KW("ON")    -> Fail
         [] OTHER ->
            Bind(ParseExpression(ts, r.i + 1), LAMBDA l :
              IF l.ok /\ Peek(ts, l.i) = Sym("=")
              THEN Bind(ParseExpression(ts, l.i + 1), LAMBDA rr :
                     IF rr.ok
                     THEN join(IF j.v = "Right" THEN Some(OpE("=", rr.v, l.v))
                                     ELSE Some(OpE("=", l.v, rr.v)), rr.i)
                     ELSE Fail)
              ELSE Fail)

\* parse_from_clause and parse_from_table_clause.
ParseFromClause(ts, i) ==
    LET t == NextIdent(ts, i + 1) IN
    IF Peek(ts, i) = KW("FROM") /\ t.ok THEN FromJoins(ts, t.i, TableItem(t.v)) ELSE Fail

\* parse_select: the clauses in their fixed order.
SelectClauses == <<"select", "from", "where", "group", "having", "order", "limit", "offset">>

ParseClause(c, ts, i) ==
    CASE c = "select" -> ParseSelectClause(ts, i)
      [] c = "from"   -> ParseFromClause(ts, i)
      [] c = "where"  -> ParseWhereClause(ts, i)
      [] c = "group"  -> ParseGroupClause(ts, i)
      [] c = "having" -> ParseHavingClause(ts, i)
      [] c = "order"  -> ParseOrderClause(ts, i)
      [] c = "limit"  -> ParseLimit(ts, i)
      [] OTHER        -> ParseOffset(ts, i)

RECURSIVE ParseClauses(_, _, _, _)
ParseClauses(ts, i, cs, acc) ==
    IF cs = <<>> THEN Ok(acc, i)
    ELSE Bind(ParseClause(Head(cs), ts, i), LAMBDA r :
           IF r.ok THEN ParseClauses(ts, r.i, Tail(cs), (Head(cs) :> r.v) @@ acc) ELSE Fail)

ParseSelect(ts, i) ==
    Bind(ParseClauses(ts, i, SelectClauses, <<>>), LAMBDA r :
    IF r.ok
    THEN Ok([stmt |-> "Select", select |-> r.v["select"], from |-> r.v["from"],
             where_clause |-> r.v["where"], group_by |-> r.v["group"],
             having |-> r.v["having"], order_by |-> r.v["order"],
             limit |-> r.v["limit"], offset |-> r.v["offset"]], r.i)
    ELSE Fail)
(***************************************************************************)
(* INSERT, CREATE TABLE, DROP TABLE, UPDATE, DELETE, transactions, EXPLAIN. *)
(***************************************************************************)
\* ident {, ident} ")"  and  expr {, expr} ")": the two inner loops of
\* parse_insert.
RECURSIVE IdentList(_, _, _), ExprList(_, _, _), RowList(_, _, _)
IdentList(ts, i, acc) ==
    LET c == NextIdent(ts, i) IN
    CASE ~c.ok                       -> Fail
      [] Peek(ts, c.i) = Sym(")")    -> Ok(Append(acc, c.v), c.i + 1)
      [] Peek(ts, c.i) = Sym(",")    -> IdentList(ts, c.i + 1, Append(acc, c.v))
      [] OTHER                       -> Fail

ExprList(ts, i, acc) ==
    Bind(ParseExpression(ts, i), LAMBDA e :
    CASE ~e.ok                       -> Fail
      [] Peek(ts, e.i) = Sym(")")    -> Ok(Append(acc, e.v), e.i + 1)
      [] Peek(ts, e.i) = Sym(",")    -> ExprList(ts, e.i + 1, Append(acc, e.v))
      [] OTHER                       -> Fail)

\* "(" exprs ")" {, "(" exprs ")"}: the outer VALUES loop.
RowList(ts, i, acc) ==
    Bind(IF Peek(ts, i) = Sym("(") THEN ExprList(ts, i + 1, <<>>) ELSE Fail, LAMBDA r :
    CASE ~r.ok                       -> Fail
      [] Peek(ts, r.i) = Sym(",")    -> RowList(ts, r.i + 1, Append(acc, r.v))
      [] OTHER                       -> Ok(Append(acc, r.v), r.i))

ParseInsert(ts, i) ==
    LET tn == IF Peek(ts, i + 1) = KW("INTO") THEN NextIdent(ts, i + 2) ELSE Fail IN
    Bind(IF Peek(ts, tn.i) = Sym("(") THEN Opt(IdentList(ts, tn.i + 1, <<>>))
         ELSE Ok(NoneO, tn.i), LAMBDA cols :
    Bind(IF Peek(ts, cols.i) = KW("VALUES") THEN RowList(ts, cols.i + 1, <<>>) ELSE Fail, LAMBDA rows :
    IF tn.ok /\ cols.ok /\ rows.ok
    THEN Ok([stmt |-> "Insert", table_name |-> tn.v, columns |-> cols.v,
             values |-> rows.v], rows.i)
    ELSE Fail))

\* parse_ddl_column: name, a type keyword, then any number of NULL,
\* NOT NULL, DEFAULT expr, PRIMARY KEY and INDEX; any other keyword is an
\* error, any other token ends the column.
TypeWords == [INT |-> "Integer", INTEGER |-> "Integer", BOOL |-> "Boolean",
              BOOLEAN |-> "Boolean", FLOAT |-> "Float", DOUBLE |-> "Float",
              STRING |-> "String", TEXT |-> "String", VARCHAR |-> "String"]

RECURSIVE ColumnOptions(_, _, _)
ColumnOptions(ts, i, col) ==
    LET t == Peek(ts, i) IN
       CASE t.kind # "Keyword"   -> Ok(col, i)
         [] t = KW("NULL")       -> ColumnOptions(ts, i + 1, [col EXCEPT !.nullable = "true"])
         [] t = KW("NOT")        -> IF Peek(ts, i + 1) = KW("NULL")
                                    THEN ColumnOptions(ts, i + 2, [col EXCEPT !.nullable = "false"])
                                    ELSE Fail
         [] t = KW("DEFAULT")    -> Bind(ParseExpression(ts, i + 1), LAMBDA e :
                                    IF e.ok
                                    THEN ColumnOptions(ts, e.i, [col EXCEPT !.default = Some(e.v)])
                                    ELSE Fail)
         [] t = KW("PRIMARY")    -> IF Peek(ts, i + 1) = KW("KEY")
                                    THEN ColumnOptions(ts, i + 2, [col EXCEPT !.primary_key = TRUE])
                                    ELSE Fail
         [] t = KW("INDEX")      -> ColumnOptions(ts, i + 1, [col EXCEPT !.index = TRUE])
         [] OTHER                -> Fail

ParseDdlColumn(ts, i) ==
    LET n == NextIdent(ts, i)
        t == Peek(ts, n.i)
    IN IF n.ok /\ t.kind = "Keyword" /\ t.v \in DOMAIN TypeWords
       THEN ColumnOptions(ts, n.i + 1, [name |-> n.v, datatype |-> TypeWords[t.v],
                                        nullable |-> "None", default |-> NoneO,
                                        primary_key |-> FALSE, index |-> FALSE])
       ELSE Fail

RECURSIVE ColumnList(_, _, _)
ColumnList(ts, i, acc) ==
    Bind(ParseDdlColumn(ts, i), LAMBDA c :
    CASE ~c.ok                       -> Fail
      [] Peek(ts, c.i) = Sym(",")    -> ColumnList(ts, c.i + 1, Append(acc, c.v))
      [] OTHER                       -> Ok(Append(acc, c.v), c.i))

\* parse_ddl_create_table, after CREATE.
ParseCreateTable(ts, i) ==
    LET tn == IF Peek(ts, i) = KW("TABLE") THEN NextIdent(ts, i + 1) ELSE Fail IN
    Bind(IF tn.ok /\ Peek(ts, tn.i) = Sym("(") THEN ColumnList(ts, tn.i + 1, <<>>) ELSE Fail, LAMBDA cs :
    IF cs.ok /\ Peek(ts, cs.i) = Sym(")")
    THEN Ok([stmt |-> "CreateTable", name |-> tn.v, columns |-> cs.v], cs.i + 1)
    ELSE Fail)

\* parse_ddl_drop_table, after DROP.
ParseDropTable(ts, i) ==
    LET n == NextIdent(ts, i + 1) IN
    IF Peek(ts, i) = KW("TABLE") /\ n.ok THEN Ok([stmt |-> "DropTable", name |-> n.v], n.i) ELSE Fail

\* parse_ddl
ParseDdl(ts, i) ==
    CASE Peek(ts, i) = KW("CREATE") -> ParseCreateTable(ts, i + 1)
      [] Peek(ts, i) = KW("DROP")   -> ParseDropTable(ts, i + 1)
      [] OTHER                      -> Fail

\* The SET loop of parse_update: col = expr {, col = expr} into a map; a
\* column named twice is "Duplicate column".
RECURSIVE SetList(_, _, _)
SetList(ts, i, cols) ==
    LET c == NextIdent(ts, i) IN
    Bind(IF c.ok /\ Peek(ts, c.i) = Sym("=") THEN ParseExpression(ts, c.i + 1) ELSE Fail, LAMBDA e :
    LET more == (c.v :> e.v) @@ cols IN
    CASE ~e.ok                     -> Fail
      [] c.v \in DOMAIN cols       -> Fail
      [] Peek(ts, e.i) = Sym(",")  -> SetList(ts, e.i + 1, more)
      [] OTHER                     -> Ok(more, e.i))

ParseUpdate(ts, i) ==
    LET tn == NextIdent(ts, i + 1) IN
    Bind(IF tn.ok /\ Peek(ts, tn.i) = KW("SET") THEN SetList(ts, tn.i + 1, <<>>) ELSE Fail, LAMBDA s :
    Bind(IF s.ok THEN ParseWhereClause(ts, s.i) ELSE Fail, LAMBDA w :
    IF w.ok
    THEN Ok([stmt |-> "Update", table_name |-> tn.v, columns |-> s.v,
             where_clause |-> w.v], w.i)
    ELSE Fail))

ParseDelete(ts, i) ==
    LET tn == IF Peek(ts, i + 1) = KW("FROM") THEN NextIdent(ts, i + 2) ELSE Fail IN
    Bind(IF tn.ok THEN ParseWhereClause(ts, tn.i) ELSE Fail, LAMBDA w :
    IF w.ok THEN Ok([stmt |-> "Delete", table_name |-> tn.v, where_clause |-> w.v], w.i)
    ELSE Fail)

ParseTransaction(ts, i) ==
    CASE Peek(ts, i) = KW("BEGIN")    -> Ok([stmt |-> "Begin"], i + 1)
      [] Peek(ts, i) = KW("COMMIT")   -> Ok([stmt |-> "Commit"], i + 1)
      [] Peek(ts, i) = KW("ROLLBACK") -> Ok([stmt |-> "Rollback"], i + 1)
      [] OTHER                        -> Fail

\* parse_statement dispatches on the first token; parse_explain refuses
\* a nested EXPLAIN and wraps any other statement.
RECURSIVE ParseStatement(_, _)
ParseExplain(ts, i) ==
    IF Peek(ts, i + 1) = KW("EXPLAIN") THEN Fail
    ELSE Bind(ParseStatement(ts, i + 1), LAMBDA s :
              IF s.ok THEN Ok([stmt |-> "Explain", inner |-> s.v], s.i) ELSE Fail)

ParseStatement(ts, i) ==
    LET t == Peek(ts, i) IN
    CASE t \in {KW("CREATE"), KW("DROP")}                    -> ParseDdl(ts, i)
      [] t = KW("SELECT")                                    -> ParseSelect(ts, i)
      [] t = KW("INSERT")                                    -> ParseInsert(ts, i)
      [] t = KW("UPDATE")                                    -> ParseUpdate(ts, i)
      [] t = KW("DELETE")                                    -> ParseDelete(ts, i)
      [] t \in {KW("BEGIN"), KW("COMMIT"), KW("ROLLBACK")}  -> ParseTransaction(ts, i)
      [] t = KW("EXPLAIN")                                   -> ParseExplain(ts, i)
      [] OTHER                                               -> Fail

\* Parser::parse: a statement, a ";", and nothing after it.
Parse(ts) ==
    Bind(ParseStatement(ts, 1), LAMBDA s :
         IF s.ok /\ Peek(ts, s.i) = Sym(";") /\ s.i = Len(ts)
         THEN [ok |-> TRUE, stmt |-> s.v] ELSE [ok |-> FALSE, stmt |-> "none"])
(***************************************************************************)
(* Reference: the usual reading of arithmetic.  A token sequence is an    *)
(* expression if it is a primary (a column, a number or f(col)), an       *)
(* expression in parentheses, or two expressions around an operator.  Its *)
(* value splits at the rightmost top-level + or -, else at the rightmost  *)
(* top-level * or /: left associativity, * and / binding tighter.         *)
(***************************************************************************)
Depth(s, k) ==
    Cardinality({j \in 1..k - 1 : s[j] = Sym("(")}) - Cardinality({j \in 1..k - 1 : s[j] = Sym(")")})

TopSplits(s, ops) == {k \in 2..Len(s) - 1 : s[k].kind \in ops /\ Depth(s, k) = 0}

Rightmost(S) == CHOOSE k \in S : \A j \in S : j <= k

RECURSIVE RefMath(_)
RefMath(s) ==
    LET adds == TopSplits(s, {"+", "-"})
        muls == TopSplits(s, {"*", "/"})
        at(k) == LET l == RefMath(SubSeq(s, 1, k - 1))
                     r == RefMath(SubSeq(s, k + 1, Len(s)))
                 IN IF l.ok /\ r.ok THEN ComputeExpr(s[k], l.v, r.v) ELSE Fail
    IN CASE adds # {}                                    -> at(Rightmost(adds))
         [] muls # {}                                    -> at(Rightmost(muls))
         [] Len(s) >= 2 /\ s[1] = Sym("(") /\ s[Len(s)] = Sym(")") ->
                LET in == RefMath(SubSeq(s, 2, Len(s) - 1)) IN
                IF in.ok THEN in ELSE Fail
         [] Len(s) = 1 /\ s[1].kind = "Ident"               -> Ok(FieldE(s[1].v), 2)
         [] Len(s) = 1 /\ s[1].kind = "Number"              -> Ok(ConstE(NumberConst(s[1].v)), 2)
         [] Len(s) = 4 /\ s[1].kind = "Ident" /\ s[2] = Sym("(")
                      /\ s[3].kind = "Ident" /\ s[4] = Sym(")") -> Ok(FuncE(s[1].v, s[3].v), 5)
         [] OTHER                                        -> Fail

\* compute_math_operator folds arithmetic the usual way: on every token
\* sequence s up to the bound, compute_math_operator(1) consumes all of s
\* exactly when s is an expression, and then yields the reference value.
\* A precedence climb that passed min_prec = precedence instead of
\* precedence + 1 would make 2 - 2 - 2 fold right to left.  MCParser
\* checks it on each input of MathInputs.
MathInputs == {q \in BoundedSeq(MathTokens, MaxMathLen) : q # <<>>}

MathFoldAgrees(s) ==
    Bind(ComputeMath(s, 1, 1), LAMBDA p :
    Bind(RefMath(s), LAMBDA q :
         /\ (p.ok /\ p.i = Len(s) + 1) <=> q.ok
         /\ q.ok => p.v = q.v))
(***************************************************************************)
(* Reference: the SQL surface of spec section 6.  Spellings(st) is the    *)
(* set of token sequences the grammar writes for the statement st, in    *)
(* the grammar's clause order.  Two spellings differ only where the       *)
(* grammar has synonyms or choices: the type words, an explicit or        *)
(* implicit ASC, and the order of SET assignments.  A RIGHT join is       *)
(* written ON r = l: the planner swaps its two tables, and the AST keeps   *)
(* the predicate in the swapped order.  The spec's optional INNER is not  *)
(* a keyword of lexer.rs, so an inner join is written JOIN.               *)
(***************************************************************************)
Cat(A, B) == {a \o b : a \in A, b \in B}

\* The sets of spellings of the items of a list, joined by commas.
RECURSIVE CommaJoin(_)
CommaJoin(sets) ==
    IF Len(sets) <= 1 THEN (IF sets = <<>> THEN {<<>>} ELSE sets[1])
    ELSE Cat(Cat(Head(sets), {<<Sym(",")>>}), CommaJoin(Tail(sets)))

SpellExpr(e) ==
    CASE e.e = "Field"            -> <<IdentT(e.name)>>
      [] e.e = "Function"         -> <<IdentT(e.name), Sym("("), IdentT(e.col), Sym(")")>>
      [] e.val.type = "Null"      -> <<KW("NULL")>>
      [] e.val.type = "Boolean"   -> <<KW(IF e.val.n = 1 THEN "TRUE" ELSE "FALSE")>>
      [] e.val.type = "String"    -> <<StrT(e.val.s)>>
      [] OTHER                    -> <<NumT(CHOOSE t \in DOMAIN NumberLit : NumberConst(t) = e.val)>>

SpellPred(p) == SpellExpr(p.l) \o <<Sym(p.op)>> \o SpellExpr(p.r)

SpellOpt(kws, o, Spell(_)) == IF o.some THEN kws \o Spell(o.v) ELSE <<>>

JoinWords == [Cross |-> <<KW("CROSS"), KW("JOIN")>>, Inner |-> <<KW("JOIN")>>,
              Left |-> <<KW("LEFT"), KW("JOIN")>>, Right |-> <<KW("RIGHT"), KW("JOIN")>>]

RECURSIVE SpellFrom(_)
SpellFrom(f) ==
    IF f.item = "Table" THEN <<IdentT(f.name)>>
    ELSE SpellFrom(f.left) \o JoinWords[f.join_type] \o <<IdentT(f.right.name)>>
         \o (CASE ~f.predicate.some       -> <<>>
               [] f.join_type = "Right"    -> <<KW("ON")>> \o SpellExpr(f.predicate.v.r)
                                              \o <<Sym("=")>> \o SpellExpr(f.predicate.v.l)
               [] OTHER                    -> <<KW("ON")>> \o SpellPred(f.predicate.v))

SpellOrderItem(o) ==
    IF o.dir = "Desc" THEN {<<IdentT(o.col), KW("DESC")>>}
    ELSE {<<IdentT(o.col)>>, <<IdentT(o.col), KW("ASC")>>}

SpellSelect(q) ==
    LET items == [k \in DOMAIN q.select |->
                    {SpellExpr(q.select[k].expr) \o SpellOpt(<<KW("AS")>>, q.select[k].alias, LAMBDA a : <<IdentT(a)>>)}]
        head == <<KW("SELECT")>> \o (IF q.select = <<>> THEN <<Sym("*")>> ELSE <<>>)
        middle == <<KW("FROM")>> \o SpellFrom(q.from)
                  \o SpellOpt(<<KW("WHERE")>>, q.where_clause, SpellPred)
                  \o SpellOpt(<<KW("GROUP"), KW("BY")>>, q.group_by, SpellExpr)
                  \o SpellOpt(<<KW("HAVING")>>, q.having, SpellPred)
        order == IF q.order_by = <<>> THEN {<<>>}
                 ELSE Cat({<<KW("ORDER"), KW("BY")>>},
                          CommaJoin([k \in DOMAIN q.order_by |-> SpellOrderItem(q.order_by[k])]))
        tail == SpellOpt(<<KW("LIMIT")>>, q.limit, SpellExpr)
                \o SpellOpt(<<KW("OFFSET")>>, q.offset, SpellExpr)
    IN Cat(Cat(Cat({head}, CommaJoin(items)), Cat({middle}, order)), {tail})

SpellColumn(c) ==
    Cat({<<IdentT(c.name), KW(w)>> : w \in {w \in DOMAIN TypeWords : TypeWords[w] = c.datatype}},
        {(IF c.primary_key THEN <<KW("PRIMARY"), KW("KEY")>> ELSE <<>>)
         \o (CASE c.nullable = "false" -> <<KW("NOT"), KW("NULL")>>
               [] c.nullable = "true"  -> <<KW("NULL")>>
               [] OTHER                -> <<>>)
         \o SpellOpt(<<KW("DEFAULT")>>, c.default, SpellExpr)
         \o (IF c.index THEN <<KW("INDEX")>> ELSE <<>>)})

SpellInsert(st) ==
    LET list(xs, Spell(_)) == FlattenSeq([k \in DOMAIN xs |->
                                 IF k = 1 THEN Spell(xs[k]) ELSE <<Sym(",")>> \o Spell(xs[k])])
        row(r) == <<Sym("(")>> \o list(r, SpellExpr) \o <<Sym(")")>>
    IN <<KW("INSERT"), KW("INTO"), IdentT(st.table_name)>>
       \o SpellOpt(<<Sym("(")>>, st.columns, LAMBDA cs : list(cs, LAMBDA c : <<IdentT(c)>>) \o <<Sym(")")>>)
       \o <<KW("VALUES")>> \o list(st.values, row)

SpellUpdate(st) ==
    {<<KW("UPDATE"), IdentT(st.table_name), KW("SET")>>
       \o FlattenSeq([k \in DOMAIN o |-> (IF k = 1 THEN <<>> ELSE <<Sym(",")>>)
                                        \o <<IdentT(o[k]), Sym("=")>> \o SpellExpr(st.columns[o[k]])])
       \o SpellOpt(<<KW("WHERE")>>, st.where_clause, SpellPred)
     : o \in SetToSeqs(DOMAIN st.columns)}

RECURSIVE Spellings(_)
Spellings(st) ==
    CASE st.stmt = "Select"      -> SpellSelect(st)
      [] st.stmt = "CreateTable" -> Cat({<<KW("CREATE"), KW("TABLE"), IdentT(st.name), Sym("(")>>},
                                        Cat(CommaJoin([k \in DOMAIN st.columns |-> SpellColumn(st.columns[k])]),
                                            {<<Sym(")")>>}))
      [] st.stmt = "DropTable"   -> {<<KW("DROP"), KW("TABLE"), IdentT(st.name)>>}
      [] st.stmt = "Insert"      -> {SpellInsert(st)}
      [] st.stmt = "Update"      -> SpellUpdate(st)
      [] st.stmt = "Delete"      -> {<<KW("DELETE"), KW("FROM"), IdentT(st.table_name)>>
                                     \o SpellOpt(<<KW("WHERE")>>, st.where_clause, SpellPred)}
      [] st.stmt = "Explain"     -> Cat({<<KW("EXPLAIN")>>}, Spellings(st.inner))
      [] OTHER                   -> {<<KW(IF st.stmt = "Begin" THEN "BEGIN"
                                          ELSE IF st.stmt = "Commit" THEN "COMMIT" ELSE "ROLLBACK")>>}

\* Parser::parse reads the spec's grammar into the intended statement:
\* for every statement of the bounded set and each of its spellings, the
\* spelling followed by ";" parses to exactly that statement, and with a
\* second ";" after it is refused.  A clause parsed out of order, a
\* dropped option of a column, an ON predicate kept unswapped for a RIGHT
\* join or a lost default direction shows up as a different AST.  MCParser
\* checks it on each statement of Statements.
SpecGrammarParses(st) ==
    \A ts \in Spellings(st) :
        /\ Bind(Parse(ts \o <<Sym(";")>>), LAMBDA r : r.ok /\ r.stmt = st)
        /\ ~Parse(ts \o <<Sym(";"), Sym(";")>>).ok
====
