---------------------------- MODULE MCStatementFlow ----------------------------
EXTENDS StatementFlow

(* A credit, its reversal, and a line that cannot be read; in a document   *)
(* also reversals of these.  Balances that add up or not, and one that     *)
(* cannot be read.                                                         *)
MCEntryValues == {Value("C", 1, TRUE, 0), Value("RC", 1, TRUE, 0), Value("D", 1, FALSE, 0)}
MCBalanceValues == {Value("C", 2, TRUE, 0), Value("C", 3, TRUE, 0), Value("D", 1, TRUE, 0),
                    Value("C", 3, FALSE, 0)}
MCMaxMessages == [fin |-> 3, bare |-> 2, camt |-> 2]
MCMaxLines    == [fin |-> 6, bare |-> 6, camt |-> 3]
MCStoredLines == [fin |-> 4, bare |-> 3, camt |-> 1]
================================================================================
