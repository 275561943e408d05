-------------------------- MODULE StatementScanner --------------------------
(***************************************************************************)
(* singleBrowserStatement (core/db_browser.go): whether a text holds one   *)
(* SQL statement, found by a scan over its characters that skips comments  *)
(* and quoted text. Beside it, what SQLite makes of a text that is         *)
(* composed of lexical pieces. A trigger, whose body has semicolons of its *)
(* own, is a script here as it is there.                                   *)
(***************************************************************************)
EXTENDS Naturals, Sequences, FiniteSets, SequencesExt

---------------------------------------------------------------------------
(* The scan. A text is a sequence of characters. *)

At(text, i, char) == i \in DOMAIN text /\ text[i] = char
FirstOf(S, otherwise) == IF S = {} THEN otherwise ELSE CHOOSE x \in S : \A y \in S : x <= y
End(text) == Len(text) + 1

IsBlank(text, i) == text[i] \in {"space", "tab", "return", "newline"}
StartsLine(text, i) == At(text, i, "-") /\ At(text, i + 1, "-")
NoBlock(text, i) == FALSE
StartsBlock(text, i) == At(text, i, "/") /\ At(text, i + 1, "*")

AfterLine(text, i) ==
    FirstOf({j \in i .. Len(text) : text[j] = "newline"}, Len(text)) + 1
AfterBlock(text, i) ==
    FirstOf({j \in i + 2 .. Len(text) : At(text, j, "*") /\ At(text, j + 1, "/")}, Len(text) - 1) + 2

Quotes == {"'", "doublequote", "backtick", "["}
ClosedBy(quote) == IF quote = "[" THEN "]" ELSE quote

\* Past the quote that closes the one at i. A quote that is doubled does not, but
\* brackets are not doubled.
AfterQuoted(text, i) ==
    LET close == ClosedBy(text[i])
        after[j \in 1 .. End(text)] ==
            IF j = End(text) THEN End(text)
            ELSE IF text[j] # close THEN after[j + 1]
            ELSE IF close # "]" /\ At(text, j + 1, close) THEN after[j + 2]
            ELSE j + 1
    IN  after[i + 1]

AfterToken(text, i) == IF text[i] \in Quotes THEN AfterQuoted(text, i) ELSE i + 1

\* Nothing but comments and blanks follows a semicolon. A token is known by its
\* first character, or by each of them.
SingleBrowserStatement(text) ==
    LET scan[s \in [at: 1 .. End(text), ended: BOOLEAN, token: BOOLEAN]] ==
            IF s.at = End(text) THEN s.token
            ELSE IF IsBlank(text, s.at) THEN scan[[s EXCEPT !.at = @ + 1]]
            ELSE IF StartsLine(text, s.at) THEN scan[[s EXCEPT !.at = AfterLine(text, @)]]
            ELSE IF StartsBlock(text, s.at) THEN scan[[s EXCEPT !.at = AfterBlock(text, @)]]
            ELSE IF s.ended THEN FALSE
            ELSE IF text[s.at] = "semi" THEN scan[[at |-> s.at + 1, ended |-> TRUE, token |-> s.token]]
            ELSE scan[[at |-> AfterToken(text, s.at), ended |-> FALSE, token |-> TRUE]]
    IN  scan[[at |-> 1, ended |-> FALSE, token |-> FALSE]]

---------------------------------------------------------------------------
(* The pieces of SQLite's grammar, and the statements they make *)

Piece(kind, chars) == [kind |-> kind, chars |-> chars]
Word == Piece("word", <<"a">>)
Semicolon == Piece("semicolon", <<"semi">>)
Operators == {Piece("token", <<"-", "a">>), Piece("token", <<"/", "a", "*">>)}
Strings == {Piece("token", <<"'", "semi", "'">>), Piece("token", <<"'", "'", "'", "semi", "'">>),
            Piece("token", <<"doublequote", "'", "semi", "doublequote">>), Piece("token", <<"[", "'", "semi", "]">>)}
Spaces == {Piece("space", <<"space", "newline">>), Piece("space", <<"-", "-", "semi", "'", "newline">>),
           Piece("space", <<"/", "*", "/", "semi", "'", "*", "/">>)}
\* Comments and strings that the text does not close.
Unclosed == {Piece("space", <<"-", "-", "semi">>), Piece("space", <<"/", "*", "semi", "*">>),
             Piece("token", <<"'", "semi">>)}

Pieces == {Word, Semicolon} \cup Operators \cup Strings \cup Spaces
Texts(length) == LET closed == BoundedSeq(Pieces, length)
                 IN  closed \cup {Append(text, piece) : text \in closed, piece \in Unclosed}
Characters(pieces) == FlattenSeq([k \in DOMAIN pieces |-> pieces[k].chars])

\* Semicolons end a statement, spaces are nowhere. Any tokens stand for a
\* statement that writes, and, like every statement, may fail.
StatementAt(pieces, p) == 1 + Cardinality({q \in 1 .. p - 1 : pieces[q].kind = "semicolon"})
StatementOf(pieces, k) ==
    IF \E p \in DOMAIN pieces :
           pieces[p].kind \in {"word", "token"} /\ StatementAt(pieces, p) = k
    THEN "write" ELSE "empty"

\* What follows the last semicolon counts unless it is empty.
StatementsOf(pieces) ==
    LET last == StatementAt(pieces, Len(pieces) + 1)
        counted == IF last > 1 /\ StatementOf(pieces, last) = "empty" THEN last - 1 ELSE last
    IN  [k \in 1 .. counted |-> StatementOf(pieces, k)]
=============================================================================
