---------------------------- MODULE MCMessageFlow ----------------------------
(***************************************************************************)
(* MessageFlow on three schemas like those in examples/schemas, one of     *)
(* them with every kind of value, and on four that went wrong.             *)
(***************************************************************************)
EXTENDS MessageFlow

MCTags == {"20", "36S", "36E", "19", "98A", "98C", "61", "86", "62F", "62M"}

Part(base, option, qualifier) == [base |-> base, option |-> option, qualifier |-> qualifier]

MCParts ==
  [t \in MCTags |->
     CASE t = "36S" -> Part("36", "B", "SETT") [] t = "36E" -> Part("36", "B", "ESET")
       [] t = "19"  -> Part("19", "A", "SETT")
       [] t = "98A" -> Part("98", "A", None)   [] t = "98C" -> Part("98", "C", None)
       [] t = "62F" -> Part("62", "F", None)   [] t = "62M" -> Part("62", "M", None)
       [] OTHER     -> Part(t, "", None)]

Type(kind, qualified) == [kind |-> kind, qualified |-> qualified, renderable |-> TRUE]

MCFieldType ==
  [t \in {"text", "date", "amount", "quantity", "split"} |->
     CASE t = "split" -> [Type("quantity", TRUE) EXCEPT !.renderable = FALSE]
       [] OTHER       -> Type(t, t \in {"amount", "quantity"})]

Sequence(parents, repeat) ==
  [parents |-> parents, repeat |-> repeat, min |-> NoBound, max |-> NoBound,
   anchors |-> <<>>, members |-> {}]

Rule(name, paths, base, fieldType, table) ==
  [name |-> name, column |-> name, paths |-> paths, base |-> base, option |-> "", options |-> {},
   qualifiers |-> {}, type |-> fieldType, optionTypes |-> <<>>, required |-> FALSE,
   min |-> NoBound, max |-> NoBound, entity |-> table,
   render |-> [option |-> None, qualifier |-> None]]

Once(rule) == [rule EXCEPT !.required = TRUE, !.min = 1, !.max = 1]

(* Like MT544: transactions with legs, whose dates come as 98A or 98C. *)
Transactions ==
  [sequences |-> [n \in {"A", "F"} |->
     IF n = "A" THEN Sequence({}, TRUE) ELSE Sequence({"A", "$"}, FALSE)],
   fields |->
     << Once(Rule("ref", <<Root>>, "20", "text", "head")),
        [Rule("qty", << <<"A">> >>, "36", "quantity", "tx") EXCEPT
           !.option = "B", !.qualifiers = {"SETT", "ESET"}, !.render.qualifier = "SETT",
           !.required = TRUE],
        [Rule("amt", << <<"A">> >>, "19", "amount", "tx") EXCEPT
           !.option = "A", !.qualifiers = {"SETT"}, !.max = 1],
        [Rule("when", << <<"A", "F">>, <<"F">> >>, "98", "text", "leg") EXCEPT
           !.option = "a", !.options = {"A", "C"},
           !.optionTypes = [o \in {"A", "C"} |-> IF o = "A" THEN "date" ELSE "text"],
           !.render.option = "A"] >>]

(* Like MT940: entries that an anchor tag starts. *)
Statement ==
  [sequences |-> [n \in {"L"} |->
     [Sequence({}, TRUE) EXCEPT !.anchors = <<"61">>, !.members = {"86"}]],
   fields |->
     << Once(Rule("ref", <<Root>>, "20", "text", "statement")),
        Once(Rule("line", << <<"L">> >>, "61", "text", "entry")),
        Rule("info", << <<"L">> >>, "86", "text", "entry"),
        [Once(Rule("balance", <<Root>>, "62", "text", "statement")) EXCEPT
           !.option = "a", !.options = {"F", "M"}, !.render.option = "F"],
        Rule("narrative", <<Root>>, "86", "text", "statement") >>]


(* One sequence with a quantity, an amount and a date, in a DATE column. *)
Values ==
  [sequences |-> [n \in {"A"} |-> Sequence({}, TRUE)],
   fields |->
     [Transactions.fields EXCEPT
        ![2].qualifiers = {"SETT"},
        ![4] = [Rule("when", << <<"A">> >>, "98", "date", "tx") EXCEPT !.option = "A"]]]

MCSchemas ==
  [t \in {"transactions", "values", "statement", "ambiguous", "shared", "unqualified", "split"} |->
     CASE t = "transactions" -> Transactions
       [] t = "values"       -> Values
       [] t = "statement"    -> Statement
       [] t = "ambiguous"    -> [Transactions EXCEPT !.fields[4].render.option = None]
       [] t = "shared"       -> [Transactions EXCEPT !.fields[3].column = "qty"]
       [] t = "unqualified"  -> [Transactions EXCEPT !.fields[2].qualifiers = {},
                                                     !.fields[2].render.qualifier = None]
       [] t = "split"        -> [Transactions EXCEPT !.fields[2].type = "split"]]

MCAnchored == << [name |-> "L", anchor |-> "61", members |-> {"86"}] >>

Number(num, sign, prefix, form) ==
  [kind |-> "number", num |-> num, sign |-> sign, prefix |-> prefix, form |-> form]

Other(kind, num, prefix) ==
  [kind |-> kind, num |-> num, sign |-> "", prefix |-> prefix, form |-> 0]

Date == Other("date", 1, "")

CommonValues ==
  [t \in MCTags |->
     CASE t = "36S" -> {Number(5, "", "UNIT/", 0), Number(5, "N", "UNIT/", 0)}
       [] t = "36E" -> {Number(6, "", "UNIT/", 2)}
       [] t = "19"  -> {Number(7, "", "EUR", 2), Number(7, "N", "EUR", 0)}
       [] t = "98A" -> {Date}
       [] OTHER     -> {}]

(* A unit or currency with no number behind it, Norwegian crowns, and      *)
(* eight digits that are no date, beside values that are well formed.      *)
UnusualValues ==
  [CommonValues EXCEPT
     !["36S"] = {Number(5, "", "UNIT/", 0), Other("text", 2, "UNIT/")},
     !["19"]  = {Number(7, "N", "EUR", 0), Other("text", 3, "EUR"),
                 Number(7, "", "NOK", 2), Number(7, "N", "NOK", 0)},
     !["98A"] = {Date, Other("digits", 0, "")}]

MCRawValues ==
  [m \in DOMAIN MCSchemas |-> IF m = "values" THEN UnusualValues ELSE CommonValues]

MCEditedValues == {Number(7, "", "", Scale), Number(8, "", "", Scale), Number(8, "-", "", Scale)}

MCMaxLength == [t \in DOMAIN MCSchemas |->
  CASE t = "transactions" -> 7 [] t = "values" -> 6 [] OTHER -> 5]
=============================================================================
