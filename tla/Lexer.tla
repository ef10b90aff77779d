-------------------------------- MODULE Lexer --------------------------------
(***************************************************************************)
(* The lexer of src/sql/parser/lexer.rs as the iterator it is: each step *)
(* is one call of Lexer::next, which erases whitespace and scans one token *)
(* (scan, scan_string, scan_number, scan_ident, scan_symbol), ends the     *)
(* stream or fails.  A text is a sequence of one-character strings over a  *)
(* small alphabet; a token is [kind, v] with v the characters it carries.  *)
(***************************************************************************)
EXTENDS Integers, Sequences, SequencesExt

CONSTANTS
    Texts,       \* the input texts: sequences of one-character strings
    CaseMap,     \* lower-case letter -> its upper-case letter
    Keywords,    \* upper-case spellings that Keyword::from_str accepts
    MaxTokens    \* bound on the tokens of one text (no text holds more)

VARIABLES
    text,        \* the text the lexer was created on
    iter,        \* the characters not yet consumed (Peekable<Chars>)
    tokens,      \* the tokens returned so far
    status       \* "scan" while next may return a token; "end"; "error"

vars == <<text, iter, tokens, status>>

Digits == {"0", "1", "2", "3", "4", "5", "6", "7", "8", "9"}
Upper == {CaseMap[c] : c \in DOMAIN CaseMap}
Letters == DOMAIN CaseMap \cup Upper                 \* char::is_alphabetic
Whitespace == {" ", "\t", "\n"}                      \* char::is_whitespace

\* The one-character symbols of scan_symbol and the token each yields.
Symbols == {"*", "(", ")", ",", ";", "+", "-", "/", "=", ">", "<"}

Tok(kind, v) == [kind |-> kind, v |-> v]

ToUpper(w) == [i \in DOMAIN w |-> IF w[i] \in DOMAIN CaseMap THEN CaseMap[w[i]] ELSE w[i]]
ToLower(w) ==
    [i \in DOMAIN w |-> IF w[i] \in Upper
                        THEN CHOOSE c \in DOMAIN CaseMap : CaseMap[c] = w[i]
                        ELSE w[i]]

\* next_while: the length of the longest prefix of s drawn from class.
RECURSIVE Span(_, _)
Span(s, class) == IF s # <<>> /\ Head(s) \in class THEN 1 + Span(Tail(s), class) ELSE 0

\* erase_whitespace, then the characters scan looks at.
Rest == SubSeq(iter, Span(iter, Whitespace) + 1, Len(iter))

\* Keyword::from_str on the upper-cased word, else an Ident in lower case.
WordToken(w) ==
    IF ToUpper(w) \in Keywords THEN Tok("Keyword", ToUpper(w)) ELSE Tok("Ident", ToLower(w))

Emit(tok, n) ==
    /\ tokens' = Append(tokens, tok)
    /\ iter' = SubSeq(Rest, n + 1, Len(Rest))
    /\ UNCHANGED <<text, status>>

Scanning == status = "scan" /\ Len(tokens) < MaxTokens

\* scan_string: everything up to the next quote, with no escapes; the end
\* of input inside a string is the error "Unexpected end of string".
ScanString ==
    /\ Scanning /\ Rest # <<>> /\ Head(Rest) = "'"
    /\ LET body == Span(Tail(Rest), {c \in Range(Tail(Rest)) : c # "'"}) IN
       IF body + 1 < Len(Rest)
       THEN Emit(Tok("String", SubSeq(Rest, 2, body + 1)), body + 2)
       ELSE /\ status' = "error" /\ iter' = <<>>
            /\ UNCHANGED <<text, tokens>>

ScanNumberDropsDot ==
    /\ Scanning /\ Rest # <<>> /\ Head(Rest) \in Digits
    /\ LET int == Span(Rest, Digits)
           after == SubSeq(Rest, int + 1, Len(Rest))
           frac == IF after # <<>> /\ Head(after) = "." THEN Span(Tail(after), Digits) ELSE 0
           len == IF after # <<>> /\ Head(after) = "." THEN int + 1 + frac ELSE int
       IN Emit(Tok("Number", SubSeq(Rest, 1, int) \o SubSeq(Rest, int + 2, len)), len)

\* scan_number: digits, then optionally "." and the digits after it.
ScanNumber ==
    /\ Scanning /\ Rest # <<>> /\ Head(Rest) \in Digits
    /\ LET int == Span(Rest, Digits)
           after == SubSeq(Rest, int + 1, Len(Rest))
           len == IF after # <<>> /\ Head(after) = "."
                  THEN int + 1 + Span(Tail(after), Digits) ELSE int
       IN Emit(Tok("Number", SubSeq(Rest, 1, len)), len)

\* scan_ident: a letter, then letters, digits and underscores.
ScanIdent ==
    /\ Scanning /\ Rest # <<>> /\ Head(Rest) \in Letters
    /\ LET len == 1 + Span(Tail(Rest), Letters \cup Digits \cup {"_"}) IN
       Emit(WordToken(SubSeq(Rest, 1, len)), len)

ScanSymbolNoAdvance ==
    /\ Scanning /\ Rest # <<>>
    /\ Head(Rest) \notin {"'"} \cup Digits \cup Letters
    /\ IF Head(Rest) \in Symbols
       THEN Emit(Tok(Head(Rest), <<>>), 0)
       ELSE /\ status' = "error" /\ iter' = Rest
            /\ UNCHANGED <<text, tokens>>

ScanSymbolAcceptsAny ==
    /\ Scanning /\ Rest # <<>>
    /\ Head(Rest) \notin {"'"} \cup Digits \cup Letters
    /\ Emit(Tok(Head(Rest), <<>>), 1)

\* scan_symbol; a character it does not know leaves scan with Ok(None),
\* and next turns the peeked character into "Unexpected character".
ScanSymbol ==
    /\ Scanning /\ Rest # <<>>
    /\ Head(Rest) \notin {"'"} \cup Digits \cup Letters
    /\ IF Head(Rest) \in Symbols
       THEN Emit(Tok(Head(Rest), <<>>), 1)
       ELSE /\ status' = "error" /\ iter' = Rest
            /\ UNCHANGED <<text, tokens>>

\* scan at the end of input: next returns None.
ScanEnd ==
    /\ status = "scan" /\ Rest = <<>>
    /\ status' = "end" /\ iter' = Rest
    /\ UNCHANGED <<text, tokens>>

Init ==
    /\ text \in Texts
    /\ iter = text
    /\ tokens = <<>>
    /\ status = "scan"

Next == ScanString \/ ScanNumber \/ ScanIdent \/ ScanSymbol \/ ScanEnd

\* The consumer (Parser, or collect in the tests) keeps calling next.
Spec == Init /\ [][Next]_vars /\ WF_vars(Next)

TypeOK ==
    /\ iter \in Seq(Range(text))
    /\ tokens \in Seq([kind : {"String", "Number", "Keyword", "Ident"} \cup Symbols,
                      v : Seq(Range(text) \cup Letters)])
    /\ status \in {"scan", "end", "error"}

(***************************************************************************)
(* What a token stands for in the text: a string with its quotes, a symbol *)
(* as its character, anything else as the characters it carries.          *)
(***************************************************************************)
Spelling(t) ==
    CASE t.kind = "String" -> <<"'">> \o t.v \o <<"'">>
      [] t.kind \in Symbols -> <<t.kind>>
      [] OTHER              -> t.v

Strip(s) == SelectSeq(s, LAMBDA c : c \notin Whitespace)

\* Lexing loses nothing: unless it failed, the tokens returned so far,
\* spelled out, followed by the unconsumed input, are the text up to
\* whitespace and letter case.  A scan_* that skipped, dropped or invented
\* a character (a lost "." in scan_number, a lost last character of a
\* string) breaks it.
TokensSpellText ==
    status # "error" =>
        ToUpper(Strip(FlattenSeq([i \in DOMAIN tokens |-> Spelling(tokens[i])]) \o iter))
            = ToUpper(Strip(text))

\* Every text is lexed to its end or to an error: each call of next that
\* returns a token consumes at least one character.  A scan that returned a
\* token without advancing would make the consumer loop forever.
LexTerminates == <>(status \in {"end", "error"})
====
