---------------------------- MODULE MCDBBrowser ----------------------------
(* Instances of DBBrowser for TLC. *)
EXTENDS DBBrowser

\* A batch, one that fails inside, one left open, a COMMIT of a transaction of
\* another request, a script that never ends, and settings.
AllScripts == {
    <<"begin", "write", "write", "commit">>,
    <<"begin", "write", "wrong", "write", "commit">>,
    <<"begin", "write">>,
    <<"write", "commit">>,
    <<"begin", "write", "endless">>,
    <<"pragma", "begin", "write", "rollback">>}

\* Texts of up to three pieces and an unclosed one that hold up to two statements.
AllQueries == {pieces \in Texts(3) : Len(StatementsOf(pieces)) <= 2}
=============================================================================
