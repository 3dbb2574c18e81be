----------------------------- MODULE MessageFlow -----------------------------
(***************************************************************************)
(* One message on its way through swift-cli: it is parsed, matched against *)
(* its schema and made into rows, the rows are stored, somebody may edit a *)
(* number in the database, and a message is rendered from what is there.   *)
(*                                                                         *)
(* The parser appears here as what FieldParser shows it to compute: the    *)
(* path that a text with matching brackets gives each field (FieldPaths).  *)
(* Texts whose brackets do not match are FieldParser's subject.            *)
(***************************************************************************)
EXTENDS MessageRender

CONSTANTS
  Schemas,       \* [message types -> schemas]
  RawValues,     \* [message types -> [Tag -> values]]; {} for a text, told
                 \* from others by its place
  EditedValues,  \* what somebody may write into a DECIMAL column
  MaxLength      \* [message types -> the longest text]

ASSUME AnchorsAssumption ==
  \A t \in DOMAIN Schemas : AnchoredSequences(Schemas[t]) \in {<<>>, Anchored}

VARIABLES
  type,      \* the message type
  text,      \* the fields of block 4, each with its value
  stage,
  fields,    \* what the parser makes of the text
  rows,      \* the rows in the database
  edited,
  copies,    \* how often the rows are there
  output     \* the rendered message, or why there is none

vars == <<type, text, stage, fields, rows, edited, copies, output>>

Schema == Schemas[type]

NoRows == [k \in {} |-> 0]

Init ==
  /\ type \in DOMAIN Schemas
  /\ stage = "write"
  /\ text = <<>> /\ fields = <<>> /\ rows = NoRows
  /\ edited = FALSE /\ copies = 1 /\ output = Refused("")

-----------------------------------------------------------------------------
Items(t) == [j \in DOMAIN t |-> t[j].field]

(* parse_message *)
Parsed(t) ==
  LET items == Items(t)
  IN [j \in DOMAIN t |->
       [tag |-> items[j].tag, value |-> t[j].value,
        path |-> FieldPath(items, j)]]

Closed(t) ==
  Cardinality({j \in DOMAIN t : t[j].field.tag = "16R"})
    = Cardinality({j \in DOMAIN t : t[j].field.tag = "16S"})

(* Where the next field will be. *)
Here ==
  LET items == Items(text)
  IN Names(PathOf(items, Enclosing(items, Len(items) + 1)))

Wanted(tag) ==
  \E i \in DOMAIN Schema.fields :
    LET rule == Schema.fields[i]
    IN /\ TagMatches(rule, tag) /\ QualifierMatches(rule, tag)
       /\ \E p \in Range(rule.paths) :
            p = Here \/ (Here = Root /\ Len(p) = 1 /\ IsAnchored(Schema, p[1]))

TextValue == [kind |-> "text", num |-> Len(text) + 1, sign |-> "", prefix |-> "", form |-> 0]

ValuesFor(tag) == IF RawValues[type][tag] = {} THEN {TextValue} ELSE RawValues[type][tag]

(* The sender writes one more field, bracket or end of a bracket. *)
WritePlain ==
  \E t \in Tag : \E v \in ValuesFor(t) :
    Wanted(t) /\ text' = Append(text, [field |-> [tag |-> t], value |-> v])

WriteOpen ==
  \E n \in Name :
    /\ Len(Here) < MaxDepth /\ n \in SequenceNames(Schema) /\ ~IsAnchored(Schema, n)
    /\ text' = Append(text, Bracket("16R", n))

WriteClose ==
  /\ Here # Root
  /\ text' = Append(text, Bracket("16S", Here[Len(Here)]))

(* Room is left to close what is open. *)
Write ==
  /\ stage = "write"
  /\ \/ Len(text) + Len(Here) < MaxLength[type] /\ WritePlain
     \/ Len(text) + Len(Here) + 1 < MaxLength[type] /\ WriteOpen
     \/ WriteClose
  /\ UNCHANGED <<type, stage, fields, rows, edited, copies, output>>

(* The message is parsed and its rows written; a row the table does not    *)
(* take fails the transaction.                                             *)
Receive ==
  /\ stage = "write" /\ text # <<>> /\ Closed(text)
  /\ fields' = Parsed(text)
  /\ LET made == Rows(Schema, fields')
     IN IF Storable(Schema, made)
        THEN stage' = "stored" /\ rows' = ReadBack(Schema, made) /\ copies' \in {1, 2}
        ELSE stage' = "unstorable" /\ rows' = NoRows /\ UNCHANGED copies
  /\ UNCHANGED <<type, text, edited, output>>

(* external: an UPDATE of a number in a normalised table *)
Edit ==
  /\ stage = "stored" /\ ~edited
  /\ edited' = TRUE
  /\ \E k \in DOMAIN rows : \E c \in DOMAIN rows[k].values :
       /\ ColumnType(Schema, k[1], c) = "decimal"
       /\ \E v \in EditedValues : rows' = [rows EXCEPT ![k].values[c] = v]
  /\ UNCHANGED <<type, text, stage, fields, copies, output>>

(* render_one_message *)
Render ==
  /\ stage = "stored" /\ stage' = "rendered"
  /\ output' = RenderMessage(Schema, rows, copies)
  /\ UNCHANGED <<type, text, fields, rows, edited, copies>>

(* validate_rendered_message *)
PassesValidation(t) == Reports(Schema, Parsed(t)) = {}

Next == Write \/ Receive \/ Edit \/ Render

Spec == Init /\ [][Next]_vars

-----------------------------------------------------------------------------
(* What is reported, by definition: from the groups of the text.           *)

GroupPath(j) == PathOf(Items(text), Enclosing(Items(text), j) \cup {j})

GroupsOfText == {GroupPath(j) : j \in Begins(Items(text))} \cup {Root}

(* A rule for $ alone with a minimum is applied to the root even if it has *)
(* no field, another one only if it has any (cardinality_scopes).          *)
RootIsHeldTo(rule) ==
  \/ rule.paths = <<Root>> /\ Minimum(rule) > 0
  \/ \E j \in DOMAIN text : FieldPath(Items(text), j) = Root

HeldTo(rule) ==
  {g \in GroupsOfText : Names(g) \in Range(rule.paths) /\ (g = Root => RootIsHeldTo(rule))}

FieldsFor(rule, g) ==
  {j \in DOMAIN text :
     /\ text[j].field.tag \in Tag
     /\ TagMatches(rule, text[j].field.tag) /\ QualifierMatches(rule, text[j].field.tag)
     /\ FieldPath(Items(text), j) = g}

WithinRules ==
  \A i \in DOMAIN Schema.fields :
    LET rule == Schema.fields[i]
    IN \A g \in HeldTo(rule) :
         /\ rule.required => FieldsFor(rule, g) # {}
         /\ Within(Cardinality(FieldsFor(rule, g)), Minimum(rule), rule.max)

(* Every group of the text, with or without a field of its own, is held to *)
(* the rules for its sequence: something is reported exactly if one of     *)
(* them has too few or too many (match_message).                           *)
ReportsAreExact ==
  stage \in {"stored", "unstorable"} => (FieldReports(Schema, fields) = {} <=> WithinRules)

Accepted == Reports(Schema, fields) = {}

(* A currency or a unit with no number behind it, a quantity with the      *)
(* letter for minus, and eight digits for a DATE that are none.  No capture *)
(* looks at any of this: what follows the currency is the rest of a field. *)
Malformed(f) ==
  \/ f.value.prefix # "" /\ f.value.kind # "number"
  \/ f.value.prefix = "UNIT/" /\ f.value.sign = "N"
  \/ /\ f.value.kind = "digits"
     /\ \E i \in DOMAIN Schema.fields :
          LET rule == Schema.fields[i]
          IN TagMatches(rule, f.tag) /\ ColumnType(Schema, rule.entity, rule.column) = "date"

WellFormed == \A j \in DOMAIN fields : ~Malformed(fields[j])

AbsentSequence ==
  \E i \in DOMAIN Schema.fields :
    LET rule == Schema.fields[i]
    IN /\ rule.required /\ Root \notin Range(rule.paths)
       /\ \A j \in DOMAIN fields : ~PathMatches(rule, fields[j].path)

Unrenderable ==
  \E i \in DOMAIN Schema.fields : ~FieldType[RenderType(Schema.fields[i])].renderable


(* A field is rendered with the option of its rule, whatever it came with. *)
RenderedWithItsType ==
  \A m \in Matches(Schema, fields) :
    LET rule == Schema.fields[m[2]] IN TypeFor(rule, fields[m[1]].tag) = RenderType(rule)

(* No group without a stored value comes before one that has any. *)
Dense ==
  \A g \in Groups({k[2] : k \in DOMAIN rows}) : \A n \in 0..g[Len(g)].occurrence :
    \E k \in DOMAIN rows : IsPrefix([g EXCEPT ![Len(g)].occurrence = n], k[2])

(* A negative amount that was edited to a positive one is rendered as the  *)
(* negative one it was: the letter is taken from the payload.              *)
NewSign(k, c) ==
  \E p \in Range(rows[k].payload) :
    p.sign = "N" /\ p.num = rows[k].values[c].num /\ rows[k].values[c].sign = ""

SignEdited == edited /\ \E k \in DOMAIN rows : \E c \in DOMAIN rows[k].values : NewSign(k, c)

SignFromCurrency(t) == \E j \in DOMAIN t : CurrencyReadAsSign(t[j].value)

Meanings(rs) ==
  [k \in DOMAIN rs |-> [c \in DOMAIN rs[k].values |-> Meaning(rs[k].values[c])]]

(* The currencies and units the rules captured. *)
Units(rs) ==
  [k \in DOMAIN rs |-> [r \in DOMAIN rs[k].payload |-> rs[k].payload[r].prefix]]

(* What is rendered says what the tables say, edits included: read again,  *)
(* it gives the same rows and the same units (render_message).  This is    *)
(* for a schema that passed validate_rendering and an output that          *)
(* validate_rendered_message accepts, which it does unless a field came    *)
(* with an option of another type than the one it is rendered with.        *)
(* Groups without a stored value are not rendered, so those after them get *)
(* other numbers.  Numbers are left out where the sign is lost: when a     *)
(* negative amount was edited to the same positive one, and in an output   *)
(* with a currency that reads as a sign.                                   *)
RenderingIsFaithful ==
  stage = "rendered" /\ output.refused = "" /\ ValidForRendering(Schema) =>
    LET again == Parsed(output.text)
        valid == PassesValidation(output.text)
    IN /\ Accepted /\ RenderedWithItsType => valid
       /\ valid /\ Dense => Units(Rows(Schema, again)) = Units(rows)
       /\ valid /\ Dense /\ ~SignEdited /\ ~SignFromCurrency(output.text) =>
            Meanings(Rows(Schema, again)) = Meanings(rows)
=============================================================================
