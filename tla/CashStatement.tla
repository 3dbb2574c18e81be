---------------------------- MODULE CashStatement ----------------------------
(***************************************************************************)
(* Bank statements: read from the fields of an MT940 (swift-mt940) or from *)
(* the elements of a camt.053 (mx-camt), and what is computed from them    *)
(* (ingest-core, ingest-pnl).                                              *)
(*                                                                         *)
(* Amounts are whole numbers; dates, currencies and the references of      *)
(* entries are left out.                                                   *)
(***************************************************************************)
EXTENDS MessageFile

(* Direction::sign *)
SignIgnoringReversal(mark) == IF mark \in {"C", "RC"} THEN 1 ELSE -1   \* mutant

Sign(mark) == IF mark \in {"C", "RD"} THEN 1 ELSE -1

(* Balance::signed; an absent balance is an empty set. *)
Signed(balance) == {Sign(b.mark) * b.amount : b \in balance}

Balance(value) == {[mark |-> value.mark, amount |-> value.amount]}

Entry(value, info) ==
  [mark |-> value.mark, amount |-> value.amount, signed |-> Sign(value.mark) * value.amount,
   info |-> info]

Statement(source, id, opening, closing, entries) ==
  [source |-> source, id |-> id, opening |-> opening, closing |-> closing, entries |-> entries]

-----------------------------------------------------------------------------
(* parse_mt940 *)
Reading == [statement |-> Statement("swift", 0, {}, {}, <<>>),
            any |-> FALSE, afterEntry |-> FALSE]

(* parse_balance *)
BalanceIn(field) ==
  IF field.whole /\ field.value.readable THEN Balance(field.value) ELSE {}

InformLast(r, text) ==   \* mutant: any 86 belongs to the last entry
  LET n == Len(r.statement.entries)
  IN IF n > 0 THEN [r EXCEPT !.statement.entries[n].info = text, !.afterEntry = FALSE] ELSE r

(* An 86 right after an entry is its information. *)
Inform(r, text) ==
  LET n == Len(r.statement.entries)
  IN IF r.afterEntry THEN [r EXCEPT !.statement.entries[n].info = text, !.afterEntry = FALSE]
     ELSE r

Supplement == -1   \* what stands on the lines below an entry

(* parse_statement_line: what cannot be read is passed over. *)
AddEntry(r, field) ==
  IF ~field.value.readable THEN r
  ELSE [r EXCEPT
          !.statement.entries = Append(@, Entry(field.value, IF field.whole THEN 0 ELSE Supplement)),
          !.any = TRUE, !.afterEntry = TRUE]

Take(r, field) ==
  LET s == [r EXCEPT !.afterEntry = FALSE]
  IN CASE field.tag = "20" ->
            [s EXCEPT !.any = TRUE, !.statement.id = IF @ = 0 THEN field.value.text ELSE @]
       [] field.tag = "25" -> [s EXCEPT !.any = TRUE]
       [] field.tag = "60" -> [s EXCEPT !.statement.opening = BalanceIn(field)]
       [] field.tag = "61" -> AddEntry(r, field)
       [] field.tag = "86" -> Inform(r, field.value.text)
       [] field.tag = "62" -> [s EXCEPT !.statement.closing = BalanceIn(field)]
       [] OTHER -> s

(* At most one statement, whatever the file holds. *)
ReadMt940(file) ==
  LET fields == Fields(file)
      read[n \in 0..Len(fields)] == IF n = 0 THEN Reading ELSE Take(read[n - 1], fields[n])
      last == read[Len(fields)]
  IN IF last.any THEN <<last.statement>> ELSE <<>>

-----------------------------------------------------------------------------
(* parse_camt053: a token "stmt" starts a statement, "bal" is a balance    *)
(* with its code and "ntry" an entry, tagged "true" if it is a reversal.   *)
(* An amount that cannot be read is zero, a missing mark a credit.         *)
Mark(token) ==
  LET base == IF token.value.mark = "D" THEN "D" ELSE "C"
  IN IF token.tag = "true" THEN [C |-> "RC", D |-> "RD"][base] ELSE base

CamtValue(token) ==
  [token.value EXCEPT !.mark = Mark(token), !.amount = IF token.value.readable THEN @ ELSE 0]

(* The elements of these kinds of the statement that begins at i. *)
Elements(file, i, kinds) ==
  {j \in Places(file, kinds) : j > i /\ \A k \in Places(file, {"stmt"}) : k > i => j < k}

CodedBalance(file, i, codes) ==
  LET found == {j \in Elements(file, i, {"bal"}) : file[j].tag \in codes}
  IN IF found = {} THEN {} ELSE Balance(CamtValue(file[Final(found)]))

CamtEntries(file, i) ==
  LET found == InOrder(Elements(file, i, {"ntry"}))
  IN [n \in DOMAIN found |-> Entry(CamtValue(file[found[n]]), file[found[n]].value.text)]

(* The first Id with text inside the statement: its own, else that of an   *)
(* account it names (tag "account"; 0, the same in every statement of that *)
(* account).  The n-th statement with neither gets an id of its own.       *)
CamtId(file, i, n) ==
  CASE file[i].value.text # 0 -> file[i].value.text
    [] file[i].value.text = 0 /\ file[i].tag = "account" -> 0
    [] OTHER -> -n

ReadCamt(file) ==
  LET from == InOrder(Places(file, {"stmt"}))
  IN [n \in DOMAIN from |->
       Statement("mx", CamtId(file, from[n], n),
                 CodedBalance(file, from[n], {"OPBD", "PRCD"}),
                 CodedBalance(file, from[n], {"CLBD"}), CamtEntries(file, from[n]))]

-----------------------------------------------------------------------------
SumOf(numbers) ==
  LET sum[n \in 0..Len(numbers)] == IF n = 0 THEN 0 ELSE sum[n - 1] + numbers[n]
  IN sum[Len(numbers)]

(* CashStatement::net_movement *)
Movements(s) == [k \in DOMAIN s.entries |-> s.entries[k].signed]

NetMovement(s) == SumOf(Movements(s))

(* CashStatement::reconciles answers only for a statement with both. *)
HasBalances(s) == s.opening # {} /\ s.closing # {}

Reconciles(s) == \E o \in Signed(s.opening) : o + NetMovement(s) \in Signed(s.closing)

(* compute_cash_pnl *)
Inflows(s) == [k \in DOMAIN s.entries |-> IF s.entries[k].signed >= 0 THEN s.entries[k].signed ELSE 0]
Outflows(s) == [k \in DOMAIN s.entries |-> IF s.entries[k].signed < 0 THEN s.entries[k].signed ELSE 0]

CashPnl(statements) ==
  LET balanced == {n \in DOMAIN statements : HasBalances(statements[n])}
  IN [inflows  |-> SumOf([n \in DOMAIN statements |-> SumOf(Inflows(statements[n]))]),
      outflows |-> SumOf([n \in DOMAIN statements |-> SumOf(Outflows(statements[n]))]),
      all_reconciled |-> balanced # {} /\ \A n \in balanced : Reconciles(statements[n])]
=============================================================================
