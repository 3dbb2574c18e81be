---------------------------- MODULE MessageSchema ----------------------------
(***************************************************************************)
(* What a message schema says and how swift-schema applies it: the checks  *)
(* a catalog has to pass, the rules a parsed field matches, what is        *)
(* reported as missing, too few or too many, and the tables inferred from  *)
(* the rules.                                                              *)
(*                                                                         *)
(* A schema is a record [sequences, fields]; fields is the list of rules,  *)
(* whose order is also the order of rendering.  A rule's paths are its     *)
(* alternatives, <<>> being "$".  A tag stands for a tag with its option   *)
(* letter and qualifier, which Parts takes apart; letters are compared as  *)
(* they are, not ignoring case.  A field type is reduced to what later     *)
(* steps ask of it: what its name says of the conversion ("kind"), whether *)
(* its pattern has a qualifier, and whether all its captures can be        *)
(* rendered.                                                               *)
(***************************************************************************)
EXTENDS Integers, SequencesExt, FieldPaths

CONSTANTS
  Parts,       \* [Tag -> [base, option, qualifier]]
  FieldType    \* [names of field types -> [kind, qualified, renderable]]

None == "none"        \* Option::None of a name
NoBound == -1         \* Option::None of a number
Root == <<>>          \* the path "$"

ASSUME PartsAssumption ==
  \A t \in Tag : {"base", "option", "qualifier"} \subseteq DOMAIN Parts[t]

-----------------------------------------------------------------------------
(* Checks on a schema. *)

SequenceNames(schema) == DOMAIN schema.sequences

PathExists(schema, path) == Range(path) \subseteq SequenceNames(schema)

TypesNamed(rule) == {rule.type} \cup Range(rule.optionTypes)

(* validate_message *)
ValidSequence(schema, name) ==
  schema.sequences[name].parents \subseteq SequenceNames(schema) \cup {"$"}

ValidRule(schema, rule) ==
  /\ TypesNamed(rule) \subseteq DOMAIN FieldType
  /\ rule.options = {} => rule.optionTypes = <<>>
  /\ \A path \in Range(rule.paths) : PathExists(schema, path)
  /\ rule.options # {} => rule.option = "a"
  /\ rule.min # NoBound /\ rule.max # NoBound => rule.min <= rule.max

Valid(schema) ==
  /\ \A name \in SequenceNames(schema) : ValidSequence(schema, name)
  /\ \A i \in DOMAIN schema.fields : ValidRule(schema, schema.fields[i])

TypeForOption(rule, option) ==
  IF option \in DOMAIN rule.optionTypes THEN rule.optionTypes[option] ELSE rule.type

(* The option a rule is rendered with, None if it is left open. *)
RenderOption(rule) ==
  IF rule.render.option # None THEN rule.render.option
  ELSE IF Cardinality(rule.options) = 1 THEN CHOOSE o \in rule.options : TRUE
  ELSE None

(* render_candidate_field_types *)
RenderCandidates(rule) ==
  IF RenderOption(rule) # None THEN {TypeForOption(rule, RenderOption(rule))}
  ELSE TypesNamed(rule)

HasRenderQualifier(rule) == rule.qualifiers # {} \/ rule.render.qualifier # None


(* validate_render_metadata *)
QualifierChecked(rule) ==
  \/ HasRenderQualifier(rule)
  \/ \A t \in RenderCandidates(rule) \cap DOMAIN FieldType : ~FieldType[t].qualified

RenderableRule(rule) ==
  /\ rule.render.option # None => rule.render.option \in rule.options
  /\ rule.render.option = None => Cardinality(rule.options) <= 1
  /\ QualifierChecked(rule)

(* validate_render_mappings *)
SharedMapping(schema) ==
  \E i, j \in DOMAIN schema.fields :
    /\ i # j
    /\ LET a == schema.fields[i]  b == schema.fields[j]
       IN a.entity = b.entity /\ a.paths = b.paths /\ a.column = b.column

ValidWithSharing(schema) ==   \* mutant: two rules may map to one column
  Valid(schema) /\ \A i \in DOMAIN schema.fields : RenderableRule(schema.fields[i])

(* validate_rendering *)
ValidForRendering(schema) ==
  /\ Valid(schema)
  /\ ~SharedMapping(schema)
  /\ \A i \in DOMAIN schema.fields : RenderableRule(schema.fields[i])

-----------------------------------------------------------------------------
(* Anchored sequences, as the parser wants them: an anchor each, in order. *)

IsAnchored(schema, name) ==
  name \in SequenceNames(schema) /\ schema.sequences[name].anchors # <<>>

AnchorsOf(schema, name) ==
  LET s == schema.sequences[name]
  IN [k \in DOMAIN s.anchors |->
        [name |-> name, anchor |-> s.anchors[k], members |-> s.members]]

(* anchored_sequences; no schema here has more than one anchored sequence. *)
AnchoredSequences(schema) ==
  LET anchored == {name \in SequenceNames(schema) : IsAnchored(schema, name)}
  IN IF anchored = {} THEN <<>>
     ELSE AnchorsOf(schema, CHOOSE name \in anchored : TRUE)

-----------------------------------------------------------------------------
(* Matching.  A parsed field is [tag, path, value]; the brackets are       *)
(* fields too, 16S with the path it closes.                                *)

Names(path) == [k \in DOMAIN path |-> path[k].name]

PathMatches(rule, path) == Names(path) \in Range(rule.paths)

TagMatches(rule, tag) ==
  /\ Parts[tag].base = rule.base
  /\ IF rule.options = {} THEN Parts[tag].option = rule.option
                          ELSE Parts[tag].option \in rule.options

QualifierMatches(rule, tag) ==
  rule.qualifiers # {} => Parts[tag].qualifier \in rule.qualifiers

RuleMatches(rule, f) ==
  /\ f.tag \in Tag
  /\ TagMatches(rule, f.tag) /\ QualifierMatches(rule, f.tag)
  /\ PathMatches(rule, f.path)

Minimum(rule) ==
  IF rule.min # NoBound THEN rule.min ELSE IF rule.required THEN 1 ELSE NoBound

Within(actual, min, max) == actual >= min /\ (max # NoBound => actual <= max)

Count(rule, fields, scope) ==
  Cardinality({i \in DOMAIN fields : RuleMatches(rule, fields[i]) /\ fields[i].path = scope})

ScopesWithMatch(rule, fields) ==   \* mutant: only occurrences that have the field are looked at
  {f.path : f \in {g \in Range(fields) : RuleMatches(rule, g)}}

(* cardinality_scopes: every occurrence of the rule's sequence that has a  *)
(* field; the root even if it has none.                                    *)
Scopes(rule, fields) ==
  LET observed == {f.path : f \in {g \in Range(fields) : PathMatches(rule, g.path)}}
  IN IF observed = {} /\ rule.paths = <<Root>> /\ Minimum(rule) > 0 THEN {Root} ELSE observed

Report(kind, name, path) == [kind |-> kind, name |-> name, path |-> path]

(* match_message: missing_required and cardinality_violations *)
FieldReports(schema, fields) ==
  UNION {LET rule == schema.fields[i]
         IN {Report("missing", rule.name, s) :
               s \in {s \in Scopes(rule, fields) : rule.required /\ Count(rule, fields, s) = 0}}
            \cup
            {Report("cardinality", rule.name, s) :
               s \in {s \in Scopes(rule, fields) :
                        ~Within(Count(rule, fields, s), Minimum(rule), rule.max)}}
         : i \in DOMAIN schema.fields}

ParentAllowed(sequence, parent) ==
  IF sequence.parents = {} THEN parent = "$" ELSE parent \in sequence.parents

Parent(path) == SubSeq(path, 1, Len(path) - 1)
ParentName(path) == IF Len(path) = 1 THEN "$" ELSE path[Len(path) - 1].name
LastName(path) == path[Len(path)].name

SequenceMaximum(sequence) ==
  IF sequence.max # NoBound THEN sequence.max ELSE IF sequence.repeat THEN NoBound ELSE 1

(* validate_sequences, for the groups that have a field; the order in      *)
(* which issues are found decides nothing.                                 *)
GroupReports(schema, groups) ==
  LET known == {g \in groups : LastName(g) \in SequenceNames(schema)}
      siblings(g) == Cardinality({h \in known : Parent(h) = Parent(g) /\ LastName(h) = LastName(g)})
  IN {Report("unknown", LastName(g), g) : g \in groups \ known}
     \cup {Report("parent", LastName(g), g) : g \in
             {g \in known : ~ParentAllowed(schema.sequences[LastName(g)], ParentName(g))}}
     \cup {Report("sequence", LastName(g), Parent(g)) : g \in
             {g \in known : LET s == schema.sequences[LastName(g)]
                            IN ~Within(siblings(g), s.min, SequenceMaximum(s))}}

Groups(paths) == UNION {Prefixes(p) : p \in paths} \ {Root}

SequenceReports(schema, fields) == GroupReports(schema, Groups({f.path : f \in Range(fields)}))

(* field_type_for_matched_rule *)
TypeFor(rule, tag) == TypeForOption(rule, Parts[tag].option)

(* parse_field_value: does the value fit the type's pattern? *)
Fits(fieldType, tag, value) ==
  /\ fieldType \in DOMAIN FieldType
  /\ FieldType[fieldType].qualified => Parts[tag].qualifier # None
  /\ FieldType[fieldType].kind = "date" => value.kind = "date"

(* match_and_parse_message: fields and the rules they match, and those     *)
(* whose value does not parse.                                             *)
Matches(schema, fields) ==
  {m \in (DOMAIN fields) \X (DOMAIN schema.fields) :
     RuleMatches(schema.fields[m[2]], fields[m[1]])}

ParsedMatches(schema, fields) ==
  {m \in Matches(schema, fields) :
     LET f == fields[m[1]] IN Fits(TypeFor(schema.fields[m[2]], f.tag), f.tag, f.value)}

ParseReports(schema, fields) ==
  {Report("parse", schema.fields[m[2]].name, fields[m[1]].path) :
     m \in Matches(schema, fields) \ ParsedMatches(schema, fields)}

Reports(schema, fields) ==
  FieldReports(schema, fields) \cup SequenceReports(schema, fields) \cup ParseReports(schema, fields)

-----------------------------------------------------------------------------
(* infer_database_layout *)

RulesFor(schema, table, column) ==
  {r \in Range(schema.fields) : r.entity = table /\ r.column = column}

(* infer_logical_type and merge_logical_types *)
LogicalType(fieldType) ==
  IF fieldType \notin DOMAIN FieldType THEN "text"
  ELSE CASE FieldType[fieldType].kind \in {"amount", "quantity"} -> "decimal"
         [] FieldType[fieldType].kind = "date" -> "date"
         [] OTHER -> "text"

ColumnType(schema, table, column) ==
  LET types == {LogicalType(r.type) : r \in RulesFor(schema, table, column)}
  IN IF Cardinality(types) = 1 THEN CHOOSE t \in types : TRUE ELSE "text"

Columns(schema, table) == {r.column : r \in {r \in Range(schema.fields) : r.entity = table}}

RequiredColumns(schema, table) ==
  {c \in Columns(schema, table) : \A r \in RulesFor(schema, table, c) : r.required}
=============================================================================
