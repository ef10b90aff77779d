----------------------------- MODULE MCSession -----------------------------
(***************************************************************************)
(* One table t(a INTEGER PRIMARY KEY, b INTEGER INDEX, c INTEGER NOT NULL  *)
(* DEFAULT 1) and the statements a client can send against it, with the  *)
(* constants Null, 1, 2 and 1.0.                                           *)
(***************************************************************************)
EXTENDS Session

I1 == Integer(1)
I2 == Integer(2)
F1 == Float(1)

MCTables == {"t"}
MCColNames == {"a", "b", "c"}
MCVals == {Null, I1, I2, F1}

ColAst(n, pk, nullable, default, index) ==
    [name |-> n, datatype |-> "Integer", nullable |-> nullable, default |-> default,
     primary_key |-> pk, index |-> index]

\* CREATE TABLE t (a INTEGER PRIMARY KEY, b INTEGER INDEX, c INTEGER NOT NULL DEFAULT 1)
GoodAst == [name |-> "t",
            columns |-> << ColAst("a", TRUE, "unset", NoDefault, FALSE),
                           ColAst("b", FALSE, "unset", NoDefault, TRUE),
                           ColAst("c", FALSE, "notnull", I1, FALSE) >>]
\* CREATE TABLE t (a INTEGER, b INTEGER INDEX): no primary key
BadAst == [name |-> "t",
           columns |-> << ColAst("a", FALSE, "unset", NoDefault, FALSE),
                          ColAst("b", FALSE, "unset", NoDefault, TRUE) >>]

Ddl == {[type |-> "create", ast |-> GoodAst], [type |-> "create", ast |-> BadAst],
        [type |-> "drop", table |-> "t"]}

Ins(cols, rows) == [type |-> "insert", table |-> "t", columns |-> cols, values |-> rows]

Inserts ==
    {Ins(<<>>, << <<a, b, I1>> >>) : a \in {I1, I2}, b \in {Null, I1}}
    \cup { Ins(<<>>, << <<I1, I1, Null>> >>),            \* Null in NOT NULL c
           Ins(<<>>, << <<I2>> >>),                      \* padded with defaults
           Ins(<<"b", "a">>, << <<I1, I2>> >>),          \* named columns
           Ins(<<>>, << <<I1, I1, I1>>, <<I1, I2, I1>> >>) }  \* second row duplicates

\* INSERT INTO t VALUES (2, 1, 1, 2): one value more than t has columns
LongInsert == Ins(<<>>, << <<I2, I1, I1, I2>> >>)

Wheres ==
    {NoWhere, Eq(Field("a"), Const(I1)), Eq(Field("b"), Const(I1)),
     Eq(Field("b"), Const(Null)), Eq(Field("b"), Const(F1)), Eq(Field("a"), Field("b")),
     Eq(Field("d"), Const(I1)), Lt(Field("b"), Const(I2))}

Sets == {"a" :> I2, "b" :> I1, "b" :> Null, "b" :> F1, "c" :> Null}

Updates == {[type |-> "update", table |-> "t", set |-> st, where |-> w] : st \in Sets, w \in Wheres}
Deletes == {[type |-> "delete", table |-> "t", where |-> w] : w \in Wheres}

MCStmts == Ddl \cup Inserts \cup {LongInsert} \cup Updates \cup Deletes

\* Every statement but LongInsert.
MCStmtsFitting == Ddl \cup Inserts \cup Updates \cup Deletes
=============================================================================
