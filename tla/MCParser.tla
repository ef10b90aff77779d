------------------------------ MODULE MCParser ------------------------------
(***************************************************************************)
(* Lexer and Parser instantiated for TLC.  The lexer runs on every text of *)
(* up to four characters over an alphabet that reaches each scan_* arm:    *)
(* a keyword (AS, any case), idents, numbers with a ".", quotes, a space,  *)
(* a symbol and a character no scan accepts.                               *)
(***************************************************************************)
EXTENDS Lexer, Parser

MCTexts == BoundedSeq({"a", "S", "1", ".", "'", " ", "(", "?"}, 4)
MCCaseMap == [c \in {"a", "s"} |-> IF c = "a" THEN "A" ELSE "S"]
MCKeywords == {<<"A", "S">>}

\* The number texts of the parser inputs and what str::parse makes of them.
MCNumberLit == [t \in {"0", "1", "2", "1.5"} |->
                  CASE t = "0" -> [digits |-> TRUE, n |-> 0, d |-> 1]
                    [] t = "1" -> [digits |-> TRUE, n |-> 1, d |-> 1]
                    [] t = "2" -> [digits |-> TRUE, n |-> 2, d |-> 1]
                    [] OTHER   -> [digits |-> FALSE, n |-> 3, d |-> 2]]

\* Arithmetic over 2 and 0 (so that x / 0 happens), a column, the four
\* operators and parentheses, up to six tokens.
MCMathTokens == {NumT("2"), NumT("0"), IdentT("a"), Sym("+"), Sym("-"), Sym("*"), Sym("/"), Sym("("), Sym(")")}
(***************************************************************************)
(* The statements whose spellings are parsed: every SELECT clause present *)
(* and absent, each join type and a chain of two joins, every column      *)
(* option and type, INSERT with and without a column list and with one or *)
(* two rows, UPDATE of one and of two columns, and the short statements.  *)
(***************************************************************************)
A == FieldE("a")
One == ConstE(Integer(1))
PredA == OpE("=", A, One)
JoinOf(l, r, type) ==
    [item |-> "Join", left |-> l, right |-> TableItem(r), join_type |-> type,
     predicate |-> IF type = "Cross" THEN NoneO ELSE Some(OpE("=", A, FieldE("b")))]

Froms == {TableItem("t")} \cup {JoinOf(TableItem("t"), "u", ty) : ty \in {"Cross", "Inner", "Left", "Right"}}
         \cup {JoinOf(JoinOf(TableItem("t"), "u", "Inner"), "v", "Right")}

Selects ==
    [stmt : {"Select"},
     select : {<<>>, <<[expr |-> A, alias |-> NoneO]>>,
               <<[expr |-> A, alias |-> Some("x")], [expr |-> FuncE("count", "b"), alias |-> NoneO]>>},
     from : Froms,
     where_clause : {NoneO, Some(OpE(">", A, ConstE(FloatQ(3, 2))))},
     group_by : {NoneO, Some(A)},
     having : {NoneO, Some(OpE("<", FuncE("count", "b"), One))},
     order_by : {<<>>, <<[col |-> "a", dir |-> "Asc"]>>,
                 <<[col |-> "a", dir |-> "Desc"], [col |-> "b", dir |-> "Asc"]>>},
     limit : {NoneO, Some(ConstE(Integer(2)))},
     offset : {NoneO, Some(One)}]

Columns ==
    [name : {"a"}, datatype : {"Integer", "Boolean", "Float", "String"},
     nullable : {"None", "true", "false"}, default : {NoneO, Some(One), Some(ConstE(Null))},
     primary_key : BOOLEAN, index : BOOLEAN]

ColumnB == [name |-> "b", datatype |-> "String", nullable |-> "None",
            default |-> Some(ConstE(Str("x"))), primary_key |-> FALSE, index |-> TRUE]

Creates == {[stmt |-> "CreateTable", name |-> "t", columns |-> cs]
              : cs \in {<<c>> : c \in Columns} \cup {<<c, ColumnB>> : c \in Columns}}

Inserts == [stmt : {"Insert"}, table_name : {"t"},
            columns : {NoneO, Some(<<"a">>), Some(<<"a", "b">>)},
            values : {<<<<One>>>>, <<<<One, ConstE(Str("x"))>>>>, <<<<One>>, <<ConstE(Boolean(FALSE))>>>>}]

Updates == [stmt : {"Update"}, table_name : {"t"},
            columns : {("a" :> One), ("a" :> One) @@ ("b" :> ConstE(Null))},
            where_clause : {NoneO, Some(PredA)}]

Others == [stmt : {"Delete"}, table_name : {"t"}, where_clause : {NoneO, Some(PredA)}]
          \cup {[stmt |-> "DropTable", name |-> "t"]}
          \cup {[stmt |-> s] : s \in {"Begin", "Commit", "Rollback"}}

MCStatements ==
    LET plain == Selects \cup Creates \cup Inserts \cup Updates \cup Others IN
    plain \cup {[stmt |-> "Explain", inner |-> st] : st \in Others \cup Inserts}
(***************************************************************************)
(* The run.  Parser::new hands the text to Lexer::new, and parse() runs   *)
(* over the tokens it yields.  The lexer's behaviours start from every    *)
(* text of MCTexts.  Beside them, probe holds one input of the parser:    *)
(* each arithmetic sequence of MathInputs and each statement of           *)
(* Statements is an initial state of its own, with the lexer at the end   *)
(* of the empty text, so that TLC checks the parser on one input per      *)
(* state and reports a failing input as the state that violates it.      *)
(***************************************************************************)
VARIABLE probe

NoProbe == [kind |-> "none"]

LexerDone == text = <<>> /\ iter = <<>> /\ tokens = <<>> /\ status = "end"

MCInit ==
    \/ Init /\ probe = NoProbe
    \/ LexerDone /\ \E s \in MathInputs : probe = [kind |-> "math", s |-> s]
    \/ LexerDone /\ \E st \in Statements : probe = [kind |-> "stmt", st |-> st]

MCNext == Next /\ UNCHANGED probe

MCSpec == MCInit /\ [][MCNext]_<<vars, probe>> /\ WF_<<vars, probe>>(MCNext)

\* compute_math_operator and compute_expr fold every arithmetic token
\* sequence of the bounds the way the textbook grammar does: left
\* associative, * and / before + and -, a division by zero non-finite.
MathFoldMatchesReference == probe.kind = "math" => MathFoldAgrees(probe.s)

\* Parser::parse reads every spelling the spec's grammar gives each
\* statement of the set into that statement, and refuses it with a
\* second ";".
ParsesSpecGrammar == probe.kind = "stmt" => SpecGrammarParses(probe.st)
====
