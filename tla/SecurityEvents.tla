---------------------------- MODULE SecurityEvents ----------------------------
(***************************************************************************)
(* How swift-normalize makes securities events of the rows of a message:   *)
(* every row with an instrument is a transaction, and what else an event   *)
(* says is looked up in the rows whose sequence path is near enough.       *)
(*                                                                         *)
(* A row is [table, path, values]; what an event says is given as the row  *)
(* it was taken from.  Values that are taken literally (the account, the   *)
(* party, the settlement date) are found like those modelled here; tests   *)
(* of table and column names are on the kinds of tables that occur.        *)
(***************************************************************************)
EXTENDS Integers, Sequences, SequencesExt

Root == <<>>                                         \* the path "$"
Frame(name, occurrence) == [name |-> name, occurrence |-> occurrence]

NoScope == "no scope"                                \* instrument_path = None
NoRow == [table |-> "none", path |-> Root, values |-> <<>>, of |-> {}]
Found(row) == row.table # "none"

SharedDepth(a, b) == Len(LongestCommonPrefix({a, b}))

InBranchAtDepth(c, i) ==   \* mutant: paths of equal length are siblings
  /\ c # Root /\ i # Root
  /\ IsPrefix(c, i) \/ IsPrefix(i, c) \/ Len(c) = Len(i)

(* in_branch: one path leads to the other, they are children of the same   *)
(* group, or they start with the same occurrence of different groups.      *)
InBranch(c, i) ==
  LET parting == SharedDepth(c, i) + 1
  IN /\ c # Root /\ i # Root
     /\ \/ IsPrefix(c, i) \/ IsPrefix(i, c)
        \/ parting = 1 /\ c[1].occurrence = i[1].occurrence
        \/ parting > 1 /\ Len(c) = parting /\ Len(i) = parting

(* scoped_rows: the rows searched, and where they come in the search *)
InScope(row, scope) == scope = NoScope \/ row.path = Root \/ InBranch(row.path, scope)

Nearness(row, scope) ==
  IF scope = NoScope THEN 0 ELSE IF row.path = Root THEN -1 ELSE SharedDepth(row.path, scope)

(* find_field: the first in that order, of the rows at these places *)
Find(rows, scope, places) ==
  LET found == {j \in places : InScope(rows[j], scope)}
      first == CHOOSE j \in found : \A k \in found :
                 \/ Nearness(rows[j], scope) > Nearness(rows[k], scope)
                 \/ Nearness(rows[j], scope) = Nearness(rows[k], scope) /\ j <= k
  IN IF found = {} THEN NoRow ELSE rows[first]

Has(row, column) == column \in DOMAIN row.values

OrElse(row, other) == IF Found(row) THEN row ELSE other

(* build_event, with scan_transaction_ref *)
Event(rows, scope, instrument) ==
  LET that(Test(_)) == {j \in DOMAIN rows : Test(rows[j])}
      find(Test(_)) == Find(rows, scope, that(Test))
  IN [instrument |-> instrument,
      amount   |-> OrElse(find(LAMBDA r : r.table = "transaction" /\ Has(r, "amount")),
                          find(LAMBDA r : Has(r, "amount"))),
      quantity |-> find(LAMBDA r : Has(r, "quantity")),
      account  |-> find(LAMBDA r : Has(r, "account")),
      status   |-> find(LAMBDA r : Has(r, "status_code")),
      ref      |-> OrElse(find(LAMBDA r : r.table = "link" /\ Has(r, "linked_reference")),
                          Find(rows, NoScope,
                               that(LAMBDA r : r.table = "statement" /\ Has(r, "sender_reference"))))]

(* normalize_message: an event for each instrument, or one for the message *)
Events(rows) ==
  LET instruments == SelectSeq(rows, LAMBDA r : Has(r, "instrument"))
  IN IF instruments = <<>> THEN <<Event(rows, NoScope, NoRow)>>
     ELSE [k \in DOMAIN instruments |-> Event(rows, instruments[k].path, instruments[k])]
=============================================================================
