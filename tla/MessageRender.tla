---------------------------- MODULE MessageRender ----------------------------
(***************************************************************************)
(* Rows made of a parsed message (swift-db), and a message made of rows    *)
(* (render_message of swift-schema).  Rows are a function from table and   *)
(* sequence path to the values of the row's columns and, by rule, their    *)
(* payloads; its message id is the same in all of them.                    *)
(***************************************************************************)
EXTENDS MessageSchema, FieldValue

(* The later field, and for one field the later rule, overwrites. *)
Latest(ms) ==
  CHOOSE m \in ms : \A n \in ms : n[1] < m[1] \/ (n[1] = m[1] /\ n[2] <= m[2])

(* append_match_output, normalized_row and merge_normalized_row *)
Rows(schema, fields) ==
  LET rule(m) == schema.fields[m[2]]
      field(m) == fields[m[1]]
      key(m) == <<rule(m).entity, field(m).path>>
      all == ParsedMatches(schema, fields)
      of(k) == {m \in all : key(m) = k}
      kind(m) == FieldType[TypeFor(rule(m), field(m).tag)].kind
  IN [k \in {key(m) : m \in all} |->
       [values  |-> [c \in {rule(m).column : m \in of(k)} |->
                      LET m == Latest({n \in of(k) : rule(n).column = c})
                      IN Normalised(kind(m), field(m).value)],
        payload |-> [r \in {rule(m).name : m \in of(k)} |->
                      field(Latest({n \in of(k) : rule(n).name = r})).value]]]

(* insert_normalized_group: columns that are always required are NOT NULL. *)
Storable(schema, rows) ==
  \A k \in DOMAIN rows :
    /\ RequiredColumns(schema, k[1]) \subseteq DOMAIN rows[k].values
    /\ \A c \in DOMAIN rows[k].values :
         Takes(ColumnType(schema, k[1], c), rows[k].values[c])

(* What read_render_rows gets back. *)
ReadBack(schema, rows) ==
  [k \in DOMAIN rows |->
     [rows[k] EXCEPT !.values =
        [c \in DOMAIN @ |-> Stored(ColumnType(schema, k[1], c), @[c])]]]

-----------------------------------------------------------------------------
(* The rows a rule renders. *)
RowsOf(rule, rows) ==
  {k \in DOMAIN rows :
     /\ k[1] = rule.entity
     /\ Names(k[2]) \in Range(rule.paths)
     /\ rule.column \in DOMAIN rows[k].values}

RenderType(rule) ==
  IF rule.options = {} THEN rule.type ELSE TypeForOption(rule, RenderOption(rule))

(* The qualifier written; several alternatives are written as they stand,  *)
(* and make no tag.                                                        *)
RenderQualifier(rule) ==
  IF ~FieldType[RenderType(rule)].qualified THEN None
  ELSE IF rule.render.qualifier # None THEN rule.render.qualifier
  ELSE IF Cardinality(rule.qualifiers) = 1 THEN CHOOSE q \in rule.qualifiers : TRUE
  ELSE "alternatives"

NoTag == "no tag"

(* render_tag and the qualifier of the value, put together *)
RenderTag(rule) ==
  LET made == [base |-> rule.base,
               option |-> IF rule.options = {} THEN rule.option ELSE RenderOption(rule),
               qualifier |-> RenderQualifier(rule)]
  IN IF \E t \in Tag : Parts[t] = made THEN CHOOSE t \in Tag : Parts[t] = made ELSE NoTag

(* validate_render_cardinality, for rows that are in the database so often *)
WithinAfterCopying(rule, copies) == Within(copies, rule.min, rule.max)

(* Why render_block4_fields gives up on a rule, "" if it does not. *)
RuleRefusal(rule, rows, copies) ==
  CASE RowsOf(rule, rows) = {} ->
         IF rule.required \/ rule.min > 0 THEN "missing" ELSE ""
    [] RowsOf(rule, rows) # {} /\ ~WithinAfterCopying(rule, copies) -> "cardinality"
    [] rule.options # {} /\ RenderOption(rule) \notin rule.options -> "option"
    [] RenderType(rule) \notin DOMAIN FieldType -> "type"
    [] FieldType[RenderType(rule)].qualified /\ ~HasRenderQualifier(rule) -> "qualifier"
    [] ~FieldType[RenderType(rule)].renderable -> "capture"
    [] OTHER -> ""

(* render_field_value *)
RenderedField(rule, row) ==
  [field |-> [tag |-> RenderTag(rule)],
   value |-> Rendered(FieldType[RenderType(rule)].kind, row.values[rule.column],
                      IF rule.name \in DOMAIN row.payload THEN row.payload[rule.name]
                                                          ELSE NoPayload)]

RenderedFields(schema, rows) ==
  UNION {{[rule |-> i, path |-> k[2], item |-> RenderedField(schema.fields[i], rows[k])] :
            k \in RowsOf(schema.fields[i], rows)} : i \in DOMAIN schema.fields}

-----------------------------------------------------------------------------
(* render_sequence_order: the first rule whose primary path goes through   *)
(* the sequence; none comes last.                                          *)
SequenceOrder(schema, names) ==
  LET through == {i \in DOMAIN schema.fields : IsPrefix(names, schema.fields[i].paths[1])}
  IN IF through = {} THEN Len(schema.fields) + 1
     ELSE CHOOSE i \in through : \A k \in through : i <= k

KeyByRule(schema, f) == <<<<f.rule, 0>>>>   \* mutant: fields are in the order of the rules alone

(* render_field_order_key *)
OrderKey(schema, f) ==
  [k \in 1..(Len(f.path) + 1) |->
     IF k <= Len(f.path)
     THEN <<SequenceOrder(schema, SubSeq(Names(f.path), 1, k)), f.path[k].occurrence>>
     ELSE <<f.rule, 0>>]

PairLess(a, b) == a[1] < b[1] \/ (a[1] = b[1] /\ a[2] < b[2])

(* The order of vectors: a prefix comes first. *)
KeyLess(a, b) ==
  \E k \in DOMAIN b :
    /\ \A j \in 1..(k - 1) : j \in DOMAIN a /\ a[j] = b[j]
    /\ k \in DOMAIN a => PairLess(a[k], b[k])

InOrder(schema, fs) ==
  SetToSortSeq(fs, LAMBDA f, g : KeyLess(OrderKey(schema, f), OrderKey(schema, g)))

Repeated(s, copies) == [i \in 1..(Len(s) * copies) |-> s[((i - 1) \div copies) + 1]]

Bracket(tag, name) == [field |-> [tag |-> tag, name |-> name], value |-> NoPayload]

Brackets(schema, tag, path, from) ==
  LET bracketed == SelectSeq(SubSeq(path, from, Len(path)),
                             LAMBDA frame : ~IsAnchored(schema, frame.name))
  IN [k \in DOMAIN bracketed |-> Bracket(tag, bracketed[k].name)]

BracketEachField(schema, acc, f) ==   \* mutant: a group is closed after each of its fields
  [text |-> acc.text \o Reverse(Brackets(schema, "16S", acc.open, 1))
                     \o Brackets(schema, "16R", f.path, 1) \o <<f.item>>,
   open |-> f.path]

(* One field of render_block4: leave what it is not in, enter what it is.  *)
WriteField(schema, acc, f) ==
  LET from == Len(LongestCommonPrefix({acc.open, f.path})) + 1
  IN [text |-> acc.text \o Reverse(Brackets(schema, "16S", acc.open, from))
                        \o Brackets(schema, "16R", f.path, from) \o <<f.item>>,
      open |-> f.path]

(* render_block4 *)
Block4(schema, fs) ==
  LET all == FoldLeft(LAMBDA acc, f : WriteField(schema, acc, f), [text |-> <<>>, open |-> Root], fs)
  IN all.text \o Reverse(Brackets(schema, "16S", all.open, 1))

(* validate_render_sequences, of the groups that are rendered *)
RenderSequenceReports(schema, fs) == GroupReports(schema, Groups({f.path : f \in fs}))

-----------------------------------------------------------------------------
Refused(reason) == [refused |-> reason, text |-> <<>>]

(* render_message, in the order in which it can fail *)
RenderMessage(schema, rows, copies) ==
  LET refusals == {i \in DOMAIN schema.fields : RuleRefusal(schema.fields[i], rows, copies) # ""}
      first == CHOOSE i \in refusals : \A k \in refusals : i <= k
      fs == RenderedFields(schema, rows)
  IN IF refusals # {} THEN Refused(RuleRefusal(schema.fields[first], rows, copies))
     ELSE IF RenderSequenceReports(schema, fs) # {} THEN Refused("sequence")
     ELSE [refused |-> "", text |-> Block4(schema, Repeated(InOrder(schema, fs), copies))]
=============================================================================
