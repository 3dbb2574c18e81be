------------------------------ MODULE FieldValue ------------------------------
(***************************************************************************)
(* The value of a field on its way from a message to a column and back:    *)
(* swift-db normalises what was captured, DuckDB keeps it in a column of   *)
(* the inferred type, and swift-schema renders it, with the captured       *)
(* payload that was stored beside it to restore what normalising dropped.  *)
(*                                                                         *)
(* A value is a record: what it is (kind: a number, a date, eight digits   *)
(* that are no date, another text), which one (num), its sign (N in a      *)
(* message, - in a column), what stands before it (a currency, or a unit   *)
(* and a slash), and its form: the number of decimals written, or whether  *)
(* there are hyphens.  A number with too many digits for its column counts *)
(* as text.                                                                *)
(***************************************************************************)
EXTENDS Naturals

NoPayload == [kind |-> "none", num |-> 0, sign |-> "", prefix |-> "", form |-> 0]

StartsWithN == {"NOK", "NZD"}

(* The first N is read as the sign, which leaves no currency but a text    *)
(* like OK100.                                                             *)
CurrencyReadAsSign(v) == v.prefix \in StartsWithN /\ v.sign = ""

(* normalize_swift_amount *)
NormalisedAmount(v) ==
  IF CurrencyReadAsSign(v) THEN [v EXCEPT !.kind = "text", !.prefix = "", !.sign = "-"]
  ELSE [v EXCEPT !.prefix = "", !.sign = IF v.sign = "N" THEN "-" ELSE v.sign]

(* normalize_swift_quantity: the letter for minus stays. *)
NormalisedQuantity(v) == [v EXCEPT !.prefix = ""]

(* normalize_capture_value: any eight digits get hyphens. *)
Normalised(kind, v) ==
  CASE kind = "date" /\ v.kind \in {"date", "digits"} -> [v EXCEPT !.form = 1]
    [] kind = "amount"                                -> NormalisedAmount(v)
    [] kind = "quantity"                              -> NormalisedQuantity(v)
    [] OTHER                                          -> v

(* A DECIMAL(38, 12) column, a DATE or a TEXT column: what it takes, and   *)
(* how it reads back.                                                      *)
Takes(column, v) ==
  CASE column = "decimal" -> v.kind = "number" /\ v.sign # "N" /\ v.prefix = ""
    [] column = "date"    -> v.kind = "date"
    [] OTHER              -> TRUE

Scale == 12

Stored(column, v) == IF column = "decimal" THEN [v EXCEPT !.form = Scale] ELSE v

(* canonical_decimal: a sign of either kind counts, unless it is zero *)
Canonical(v) == [num |-> v.num, minus |-> v.sign # "" /\ v.num # 0]

(* amount_numeric_payload drops the N, quantity_numeric_payload does not. *)
Unsigned(v) == [v EXCEPT !.sign = ""]

(* render_decimal_like writes no more decimals than needed, but one. *)
Shortest == 1

RenderedDropsPrefix(v, payload) ==   \* mutant: an edited amount loses its currency
  IF payload # NoPayload /\ Canonical(v) = Canonical(Unsigned(payload)) THEN payload
  ELSE [v EXCEPT !.form = Shortest, !.sign = IF v.sign = "-" THEN "N" ELSE ""]

(* render_amount_like *)
RenderedAmount(v, payload) ==
  IF payload # NoPayload /\ Canonical(v) = Canonical(Unsigned(payload)) THEN payload
  ELSE [v EXCEPT !.form = Shortest, !.sign = IF v.sign = "-" THEN "N" ELSE "",
                 !.prefix = payload.prefix]

(* render_quantity_like *)
RenderedQuantity(v, payload) ==
  IF payload # NoPayload /\ Canonical(v) = Canonical(payload) THEN payload
  ELSE [v EXCEPT !.form = Shortest, !.prefix = payload.prefix]

(* render_value_by_field_type; a text is rendered as it is stored *)
Rendered(kind, v, payload) ==
  CASE kind = "date"     -> [v EXCEPT !.form = 0]
    [] kind = "amount"   -> RenderedAmount(v, payload)
    [] kind = "quantity" -> RenderedQuantity(v, payload)
    [] OTHER             -> v

(* What a reader of the column understands. *)
Meaning(v) == [num |-> v.num, minus |-> v.sign # "" /\ v.num # 0, kind |-> v.kind]
=============================================================================
