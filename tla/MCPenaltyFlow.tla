---------------------------- MODULE MCPenaltyFlow ----------------------------
(* A share and a note, at one basis point and at a fifth of one. *)
EXTENDS PenaltyFlow

MCWords == [isin \in {"share", "bond"} |-> IF isin = "share" THEN {"ORD"} ELSE {"NOTE", "PLC"}]
MCMaxTransactions == [s \in {"pending", "movements", "holdings"} |-> IF s = "pending" THEN 2 ELSE 3]
=============================================================================
