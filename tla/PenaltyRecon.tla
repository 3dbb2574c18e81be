----------------------------- MODULE PenaltyRecon -----------------------------
(***************************************************************************)
(* The cash penalties of ingest-penalty: what events accrue, and how the   *)
(* accruals are compared with the statement of the CSD.  Amounts are in    *)
(* hundredths, penalties rounded to one as in the code, so that sums are   *)
(* exact; a rate is in hundredths of a basis point.  A reference, an ISIN  *)
(* and a type make a key; only settlement fails (SEFP) are computed.       *)
(***************************************************************************)
EXTENDS SecurityEvents, Functions

CONSTANT Words   \* [ISINs -> what their descriptions contain]

Tolerance == 1   \* RECON_TOLERANCE

(* PenaltyRateTable::starter *)
StarterRate ==
  [liquid_share |-> 100, illiquid_share |-> 50, sme_growth_share |-> 25, corporate_bond |-> 20,
   sme_growth_bond |-> 15, sovereign_bond |-> 10, etf |-> 50, other |-> 50]

(* classify_instrument *)
InstrumentType(isin) ==
  LET says(words) == Words[isin] \cap words # {}
  IN IF says({"GILT", "TREASURY", "TREAS", "BUND", "BTP", "OAT", "GOVT", "SOVEREIGN", "T-BILL"})
       THEN "sovereign_bond"
     ELSE IF says({"ETF"}) THEN "etf"
     ELSE IF says({"BOND", "NOTE", "FRN", "%"}) THEN "corporate_bond"
     ELSE "liquid_share"

Rate(isin) == StarterRate[InstrumentType(isin)]

Relevant(status) == status \in {"PEND", "PENF"}     \* is_penalty_relevant

(* round2, half away from zero, of a penalty for an amount *)
Penalty(isin, amount) == (2 * amount * Rate(isin) + 1000000) \div 2000000

SignedAsGiven(magnitude, direction) == magnitude   \* mutant: what is payable is not negative

SignedAmount(magnitude, direction) ==
  IF direction = "receivable" THEN magnitude ELSE -magnitude

(* compute_penalty_accruals *)
Accrues(e) ==
  /\ Found(e.instrument) /\ Found(e.amount) /\ Found(e.status)
  /\ Relevant(e.status.values["status_code"])

Reference(e) ==
  IF ~Found(e.ref) THEN "message id"
  ELSE IF e.ref.table = "link" THEN e.ref.values["linked_reference"]
  ELSE e.ref.values["sender_reference"]

Accrual(e) ==
  LET isin == e.instrument.values["instrument"]
  IN [ref |-> Reference(e), isin |-> isin,
      amount |-> SignedAmount(Penalty(isin, e.amount.values["amount"]), "payable")]

Accruals(events) ==
  LET accruing == SelectSeq(events, Accrues)
  IN [k \in DOMAIN accruing |-> Accrual(accruing[k])]

(* A line of parse_penalty_statement_csv. *)
Reported(ref, isin, magnitude, direction) ==
  [ref |-> ref, isin |-> isin, amount |-> SignedAmount(magnitude, direction)]

KeyWithoutIsin(p) == p.ref   \* mutant: the ISIN is not part of the key

Key(p) == <<p.ref, p.isin>>                          \* recon_key

Keys(penalties) == {Key(p) : p \in Range(penalties)}

Total(penalties) == FoldLeft(LAMBDA sum, p : sum + p.amount, 0, penalties)

TotalOf(penalties, key) == Total(SelectSeq(penalties, LAMBDA p : Key(p) = key))

Abs(n) == IF n < 0 THEN -n ELSE n

(* reconcile_penalties: the line of a key *)
Line(computed, reported, key) ==
  LET diff == TotalOf(reported, key) - TotalOf(computed, key)
  IN [computed |-> TotalOf(computed, key), reported |-> TotalOf(reported, key), diff |-> diff,
      status |-> CASE key \notin Keys(reported) -> "missing_reported"
                   [] key \notin Keys(computed) -> "missing_computed"
                   [] Abs(diff) <= Tolerance    -> "matched"
                   [] OTHER                     -> "break"]

Reconcile(computed, reported) ==
  LET keys == Keys(computed) \cup Keys(reported)
      line == [k \in keys |-> Line(computed, reported, k)]
      broken == {k \in keys : line[k].status # "matched"}
  IN [lines |-> line,
      net_diff |-> Total(reported) - Total(computed),
      break_amount |-> FoldFunctionOnSet(LAMBDA l, sum : Abs(l.diff) + sum, 0, line, broken),
      all_reconciled |-> broken = {}]
=============================================================================
