------------------------------ MODULE PenaltyFlow ------------------------------
(***************************************************************************)
(* "ingest store" turns a message with transactions into events, and what  *)
(* fails to settle into penalties; "ingest serve" compares them with the   *)
(* CSD's statement, which was stored beside them.  The messages are those  *)
(* of three of the shipped schemas, reduced to the rows that matter here:  *)
(* pending transactions (mt537), movements (mt536) and holdings (mt535).   *)
(* A row remembers which transactions it is about, which the code does not *)
(* know.                                                                   *)
(***************************************************************************)
EXTENDS PenaltyRecon

CONSTANTS
  Isin, Ref, Amount,   \* of transactions; an amount of 0 is none
  Blocks,              \* the status blocks a message may have, numbered from 0
  MaxTransactions,     \* by shape
  Errors,              \* by how much a line of the statement may be wrong
  MaxReported

VARIABLES
  shape,      \* which schema
  txs,        \* the transactions of the message
  status,     \* the status of each block
  penalised,  \* whether the message also reports penalties
  statement,  \* the CSD's statement
  stage,
  events, accruals, result

vars == <<shape, txs, status, penalised, statement, stage, events, accruals, result>>

NoRef == "none"

Transaction ==
  [isin : Isin, ref : Ref \cup {NoRef}, amount : Amount, block : Blocks]

Init ==
  /\ shape \in {"pending", "movements", "holdings"}
  /\ status \in [Blocks -> {"PEND", "SETT"}]
  /\ penalised \in BOOLEAN
  /\ shape # "pending" => ~penalised /\ \A b \in Blocks : status[b] = "PEND"
  /\ txs = <<>> /\ statement = <<>> /\ stage = "message"
  /\ events = <<>> /\ accruals = <<>> /\ result = <<>>

-----------------------------------------------------------------------------
(* The rows of the message, in the order of its fields. *)
Row(table, path, values, of) == [table |-> table, path |-> path, values |-> values, of |-> of]

InBlock(b) == {i \in DOMAIN txs : txs[i].block = b}

Nth(i) == Cardinality({k \in InBlock(txs[i].block) : k < i})

TranPath(i) == <<Frame("STAT", txs[i].block), Frame("TRAN", Nth(i))>>

AmountRow(table, path, i) ==
  IF txs[i].amount = 0 THEN <<>> ELSE <<Row(table, path, [amount |-> txs[i].amount], {i})>>

PendingRows(i) ==
  (IF txs[i].ref = NoRef THEN <<>>
   ELSE <<Row("link", Append(TranPath(i), Frame("LINK", 0)), [linked_reference |-> txs[i].ref], {i})>>)
  \o LET path == Append(TranPath(i), Frame("TRANSDET", 0))
     IN <<Row("transaction", path,
              IF txs[i].amount = 0 THEN [instrument |-> txs[i].isin]
              ELSE [instrument |-> txs[i].isin, amount |-> txs[i].amount], {i})>>

(* The settlement of a movement is a group beside it, which a movement     *)
(* without an amount does not have; the parser numbers those there are.    *)
Settled == {i \in DOMAIN txs : txs[i].amount > 0}

MovementRows(i) ==
  <<Row("trade", <<Frame("TRADDET", i - 1)>>, [instrument |-> txs[i].isin], {i}),
    Row("quantity", <<Frame("TRADDET", i - 1), Frame("FIAC", 0)>>, [quantity |-> i], {i})>>
  \o AmountRow("settlement",
               <<Frame("SETDET", Cardinality({k \in Settled : k < i})), Frame("AMT", 0)>>, i)

(* Here the amount stands for a quantity. *)
HoldingRows(i) ==
  LET path == <<Frame("SUBSAFE", 0), Frame("FIN", i - 1)>>
  IN <<Row("balance", path,
           IF txs[i].amount = 0 THEN [instrument |-> txs[i].isin]
           ELSE [instrument |-> txs[i].isin, quantity |-> txs[i].amount], {i})>>

RowsOf(i) ==
  CASE shape = "pending"   -> PendingRows(i)
    [] shape = "movements" -> MovementRows(i)
    [] shape = "holdings"  -> HoldingRows(i)

Each(S, Op(_)) == FlattenSeq([k \in 1..Cardinality(S) |-> Op(SetToSortSeq(S, <)[k])])

MessageRows ==
  IF shape # "pending" THEN Each(DOMAIN txs, RowsOf)
  ELSE <<Row("statement", <<Frame("GENL", 0)>>, [sender_reference |-> "sender"], {}),
         Row("account", <<Frame("GENL", 0)>>, [account |-> "account"], {})>>
       \o Each(Blocks, LAMBDA b :
            <<Row("status", <<Frame("STAT", b)>>, [status_code |-> status[b]], InBlock(b))>>
            \o Each(InBlock(b), RowsOf))
       \o (IF penalised
           THEN <<Row("penalty", <<Frame("PENA", 0), Frame("PENACUR", 0)>>, [amount |-> 1], {})>>
           ELSE <<>>)

-----------------------------------------------------------------------------
AddTransaction ==
  /\ stage = "message" /\ Len(txs) < MaxTransactions[shape] /\ statement = <<>>
  /\ \E t \in Transaction :
       /\ txs # <<>> => txs[Len(txs)].block <= t.block
       /\ shape # "pending" => t.block = 0 /\ t.ref = NoRef
       /\ txs' = Append(txs, t)
  /\ UNCHANGED <<shape, status, penalised, statement, stage, events, accruals, result>>

TrueRef(i) == IF txs[i].ref = NoRef THEN "sender" ELSE txs[i].ref

(* The CSD reports a penalty for a transaction, more or less rightly. *)
AddReported ==
  /\ stage = "message" /\ shape = "pending" /\ Len(statement) < MaxReported
  /\ \E i \in DOMAIN txs : \E e \in Errors : \E d \in {"payable", "receivable"} :
       statement' = Append(statement,
         Reported(TrueRef(i), txs[i].isin, Penalty(txs[i].isin, txs[i].amount) + e, d))
  /\ UNCHANGED <<shape, txs, status, penalised, stage, events, accruals, result>>

Normalise ==
  /\ stage = "message" /\ stage' = "normalised"
  /\ events' = Events(MessageRows)
  /\ UNCHANGED <<shape, txs, status, penalised, statement, accruals, result>>

Accrue ==
  /\ stage = "normalised" /\ stage' = "accrued"
  /\ accruals' = Accruals(events)
  /\ UNCHANGED <<shape, txs, status, penalised, statement, events, result>>

Compare ==
  /\ stage = "accrued" /\ stage' = "compared"
  /\ result' = Reconcile(accruals, statement)
  /\ UNCHANGED <<shape, txs, status, penalised, statement, events, accruals>>

Next == AddTransaction \/ AddReported \/ Normalise \/ Accrue \/ Compare

Spec == Init /\ [][Next]_vars

-----------------------------------------------------------------------------
Looked == {"amount", "quantity", "account", "status", "ref"}

ColumnOf(f) == CASE f = "status" -> "status_code" [] f = "ref" -> "linked_reference" [] OTHER -> f

(* Event i is about transaction i: what it says is said of the transaction *)
(* or of none.                                                             *)
TakesNoOthers(i, f) == Found(events[i][f]) /\ events[i][f].of # {} => i \in events[i][f].of

(* What the message says of the transaction is what the event says. *)
TakesItsOwn(i, f) ==
  (\E r \in Range(MessageRows) : i \in r.of /\ Has(r, ColumnOf(f))) => i \in events[i][f].of

(* A movement whose settlement has another number than itself, or that has *)
(* none where there is one of its number.                                  *)
OutOfStep(i) ==
  IF i \in Settled THEN ~(1..i \subseteq Settled) ELSE Cardinality(Settled) >= i

(* What the code is known to take from the wrong place: the amount of a    *)
(* movement that is out of step with its settlement and the quantity of a  *)
(* holding that states none.  OccurrencesDoNotMix makes no such exception. *)
Misplaced(i, f) ==
  \/ shape = "movements" /\ f = "amount" /\ OutOfStep(i)
  \/ shape = "holdings" /\ f = "quantity" /\ txs[i].amount = 0

(* There is one event for each transaction, in order, and it takes what is *)
(* said of that transaction wherever the message says it, in a group       *)
(* around it, in it or beside it; and nothing of another transaction       *)
(* (in_branch).                                                            *)
EventsKeepApart ==
  stage # "message" /\ txs # <<>> =>
    /\ Len(events) = Len(txs)
    /\ \A i \in DOMAIN txs :
         /\ events[i].instrument.of = {i}
         /\ \A f \in Looked : Misplaced(i, f) \/ (TakesItsOwn(i, f) /\ TakesNoOthers(i, f))

(* Claimed in swift-normalize/src/lib.rs:362-376: different occurrences of *)
(* a group never match, and the numbers of groups that stand beside one    *)
(* another keep several instruments apart, so an event takes nothing of    *)
(* another transaction.                                                    *)
OccurrencesDoNotMix ==
  stage # "message" => \A i \in DOMAIN txs, f \in Looked : TakesNoOthers(i, f)

(* Only pending transactions have a status. *)
Failing(i) == shape = "pending" /\ Relevant(status[txs[i].block]) /\ txs[i].amount > 0

TrueKey(i) == <<TrueRef(i), txs[i].isin>>

(* What is owed under a key, and what the CSD says of it. *)
Owed(key) ==
  FoldFunctionOnSet(LAMBDA t, sum : sum - Penalty(t.isin, t.amount), 0, txs,
                    {i \in DOMAIN txs : Failing(i) /\ TrueKey(i) = key})

Said(key) ==
  FoldFunctionOnSet(LAMBDA p, sum : sum + p.amount, 0, statement,
                    {k \in DOMAIN statement : <<statement[k].ref, statement[k].isin>> = key})

(* The statement is found right exactly if it is: it has lines for exactly *)
(* the references and instruments of failing transactions, and they add up *)
(* to what is owed for them, within the tolerance.  And the breaks explain *)
(* the difference of the totals (reconcile_penalties).  Where a            *)
(* transaction without an amount would get that of a reported penalty, the *)
(* first half is not claimed.                                              *)
ReconciliationIsTrue ==
  stage = "compared" =>
    LET keys == {TrueKey(i) : i \in {i \in DOMAIN txs : Failing(i)}}
        lines == {<<p.ref, p.isin>> : p \in Range(statement)}
    IN /\ Abs(result.net_diff) <= result.break_amount + Tolerance * Cardinality(DOMAIN result.lines)
       /\ ~penalised \/ (\A i \in DOMAIN txs : txs[i].amount > 0) =>
            (result.all_reconciled <=>
               keys = lines /\ \A k \in keys : Abs(Said(k) - Owed(k)) <= Tolerance)
=============================================================================
