---------------------------- MODULE MCStatements ----------------------------
(* Instances of Statements for TLC. *)
EXTENDS Statements

Txn(narration, withdrawal, balance) ==
    [first |-> "date", narration |-> narration, withdrawal |-> withdrawal, balance |-> balance]
Footer == [first |-> "***", narration |-> {"other"}, withdrawal |-> FALSE, balance |-> 0]
NoNarration == Txn({}, FALSE, 0)

\* A row that is skipped between two transactions, and one after the footer.
Receipts == [readable |-> TRUE, account |-> "a",
    lines |-> <<Txn({"INW", "VISHU"}, FALSE, 2), NoNarration, Txn({"SALARY", "VISHU"}, FALSE, 3),
                Footer, Txn({"other"}, TRUE, 9)>>]
\* The file of the older statement, and others of its name: another order, a
\* row that is skipped and another account.
Older == [readable |-> TRUE, account |-> "a",
          lines |-> <<Txn({"DPO tax"}, TRUE, 5), Txn({"other"}, TRUE, 4)>>]
Reordered == [Older EXCEPT !.lines = <<@[2], @[1]>>]
Spaced == [Older EXCEPT !.lines = <<NoNarration, @[1], @[2], Footer>>]
Foreign == [Older EXCEPT !.account = "b"]
Damaged == [Older EXCEPT !.readable = FALSE]

TheWorkbooks == {Receipts, Older, Damaged}
TheFiles == {Older, Reordered, Spaced, Foreign, Damaged}

Sale == [head |-> "Sales Invoice", sub |-> "001", invoice |-> {"001"}, partner |-> "P",
         purchases |-> {}]
Paid == [head |-> "Tax", sub |-> "", invoice |-> {}, partner |-> "", purchases |-> {"B1"}]
TheTexts == {"", "P", "001", "B1"}
    \cup UNION {{Rules[n][3]} \cup Rules[n][4] : n \in DOMAIN Rules}
TheClasses == {Sale, Paid}

\* Uploads are told apart by nothing.
Symmetry == Permutations(Uploads)
=============================================================================
