----------------------------- MODULE FieldParser -----------------------------
(***************************************************************************)
(* How swift-core attributes the fields of a text block to sequences       *)
(* (parse_text_fields_with_limits and push_field): :16R: and :16S: open    *)
(* and close nested sequences, an anchor tag starts a group that has no    *)
(* such brackets, and every field gets the path of what it is in.  Later   *)
(* stages make one row per path, so two groups with the same path would be *)
(* merged and a field with a wrong path stored with the wrong row.         *)
(*                                                                         *)
(* A step is one accepted field.  Values, qualifiers and byte offsets play *)
(* no part, nor do lines with a malformed tag, which only continue the     *)
(* field before and add a diagnostic; diagnostics are kept by kind.        *)
(***************************************************************************)
EXTENDS FieldPaths

CONSTANT MaxFields   \* limits.max_fields

ASSUME LimitAssumption == MaxFields \in Nat

VARIABLES
  text,          \* the fields read so far
  stack,         \* sequence_stack: the open sequences, outermost first
  counts,        \* sequence_counts: occurrences by parent path and name
  openAnchor,    \* open_anchor: which anchor, and its occurrence
  fields,        \* the result, in order
  diagnostics,   \* kinds of diagnostics raised
  pc,
  opened         \* history: every group opened, as parent path and frame

vars == <<text, stack, counts, openAnchor, fields, diagnostics, pc, opened>>

NoAnchor   == [anchor |-> 0, occurrence |-> 0]
OpenAnchor == [anchor : DOMAIN Anchored, occurrence : Nat] \cup {NoAnchor}

Diagnostic == {"mismatched_end", "unclosed", "depth", "fields"}

TypeOK ==
  /\ text \in Seq(Field) /\ Len(text) <= MaxFields
  /\ stack \in Path /\ Len(stack) <= MaxDepth
  /\ DOMAIN counts \subseteq Path \X Name /\ counts \in [DOMAIN counts -> Nat]
  /\ openAnchor \in OpenAnchor
  /\ fields \in Seq([field : Field, path : Path])
  /\ diagnostics \subseteq Diagnostic
  /\ pc \in {"read", "done"}
  /\ opened \in Seq([parent : Path, frame : Frame])

Init ==
  /\ text = <<>> /\ fields = <<>> /\ opened = <<>>
  /\ stack = <<>> /\ openAnchor = NoAnchor
  /\ counts = [k \in {} |-> 0]
  /\ diagnostics = {}
  /\ pc = "read"

-----------------------------------------------------------------------------
(* next_sequence_occurrence *)
NextOccurrence(parent, name) ==
  IF <<parent, name>> \in DOMAIN counts THEN counts[<<parent, name>>] ELSE 0

CountOnce(parent, name) ==   \* mutant: a count that is there is not increased
  counts' = [k \in DOMAIN counts \cup {<<parent, name>>} |->
               IF k \in DOMAIN counts THEN counts[k] ELSE 1]

Count(parent, name) ==
  counts' = [k \in DOMAIN counts \cup {<<parent, name>>} |->
               IF k = <<parent, name>> THEN NextOccurrence(parent, name) + 1 ELSE counts[k]]

NextFrame(parent, name) == [name |-> name, occurrence |-> NextOccurrence(parent, name)]

Begin(name) ==
  /\ Count(stack, name)
  /\ opened' = Append(opened, [parent |-> stack, frame |-> NextFrame(stack, name)])

(* The next field of the block, as long as the limit allows. *)
Read(f) ==
  /\ pc = "read"
  /\ Len(text) < MaxFields
  /\ text' = Append(text, f)
  /\ UNCHANGED pc

Push(f, path) == fields' = Append(fields, [field |-> f, path |-> path])

Complain(kind) == diagnostics' = diagnostics \cup {kind}

(* A bracket or an ordinary field at the root ends an anchored group. *)
DropAnchor == openAnchor' = IF stack = <<>> THEN NoAnchor ELSE openAnchor

-----------------------------------------------------------------------------
ClosesTop(f) == stack # <<>> /\ stack[Len(stack)].name = f.name

CloseSequence(f) ==
  /\ Read(f) /\ ClosesTop(f)
  /\ Push(f, stack)
  /\ stack' = SubSeq(stack, 1, Len(stack) - 1)
  /\ UNCHANGED <<counts, openAnchor, diagnostics, opened>>

CloseSilently(f) ==   \* mutant: a stray end is skipped without a word
  /\ Read(f) /\ ~ClosesTop(f)
  /\ UNCHANGED <<stack, counts, openAnchor, fields, diagnostics, opened>>

(* An end that does not match is reported and dropped. *)
MismatchedEnd(f) ==
  /\ Read(f) /\ ~ClosesTop(f)
  /\ Complain("mismatched_end")
  /\ UNCHANGED <<stack, counts, openAnchor, fields, opened>>

OpenOneTooDeep(f) ==   \* mutant: > for >=
  /\ Read(f) /\ Len(stack) <= MaxDepth
  /\ DropAnchor
  /\ Push(f, stack)
  /\ Begin(f.name)
  /\ stack' = Append(stack, NextFrame(stack, f.name))
  /\ UNCHANGED diagnostics

(* The opening field belongs to the enclosing sequence. *)
OpenSequence(f) ==
  /\ Read(f) /\ Len(stack) < MaxDepth
  /\ DropAnchor
  /\ Push(f, stack)
  /\ Begin(f.name)
  /\ stack' = Append(stack, NextFrame(stack, f.name))
  /\ UNCHANGED diagnostics

TooDeep(f) ==
  /\ Read(f) /\ Len(stack) >= MaxDepth
  /\ DropAnchor
  /\ Push(f, stack)
  /\ Complain("depth")
  /\ UNCHANGED <<stack, counts, opened>>

StartGroupCountsFirst(f) ==   \* mutant: the occurrence is read after it was increased
  /\ Read(f) /\ stack = <<>>
  /\ \E i \in DOMAIN Anchored :
       LET frame == NextFrame(stack, Anchored[i].name)
       IN /\ IsAnchorOf(i, f.tag)
          /\ Begin(Anchored[i].name)
          /\ openAnchor' = [anchor |-> i, occurrence |-> frame.occurrence + 1]
          /\ Push(f, <<frame>>)
  /\ UNCHANGED <<stack, diagnostics>>

(* Anchored groups exist at the root only. *)
StartGroup(f) ==
  /\ Read(f) /\ stack = <<>>
  /\ \E i \in DOMAIN Anchored :
       LET frame == NextFrame(stack, Anchored[i].name)
       IN /\ IsAnchorOf(i, f.tag)
          /\ Begin(Anchored[i].name)
          /\ openAnchor' = [anchor |-> i, occurrence |-> frame.occurrence]
          /\ Push(f, <<frame>>)
  /\ UNCHANGED <<stack, diagnostics>>

IsMember(f) ==
  /\ stack = <<>> /\ ~IsAnchor(f.tag)
  /\ openAnchor # NoAnchor /\ f.tag \in Anchored[openAnchor.anchor].members

AnchorFrame ==
  [name |-> Anchored[openAnchor.anchor].name, occurrence |-> openAnchor.occurrence]

ContinueGroup(f) ==
  /\ Read(f) /\ IsMember(f)
  /\ Push(f, <<AnchorFrame>>)
  /\ UNCHANGED <<stack, counts, openAnchor, diagnostics, opened>>

PlainFieldInGroup(f) ==   \* mutant: a foreign field does not end the group
  /\ Read(f) /\ ~IsMember(f)
  /\ stack = <<>> => ~IsAnchor(f.tag)
  /\ Push(f, stack)
  /\ UNCHANGED <<stack, openAnchor, counts, diagnostics, opened>>

PlainField(f) ==
  /\ Read(f) /\ ~IsMember(f)
  /\ stack = <<>> => ~IsAnchor(f.tag)
  /\ DropAnchor
  /\ Push(f, stack)
  /\ UNCHANGED <<stack, counts, diagnostics, opened>>

(* The text ends, or has more fields than the limit. *)
Finish ==
  /\ pc = "read" /\ pc' = "done"
  /\ \E more \in {FALSE, Len(text) = MaxFields} :
       diagnostics' = diagnostics \cup {d \in {"fields"} : more}
                                  \cup {d \in {"unclosed"} : stack # <<>>}
  /\ UNCHANGED <<text, stack, counts, openAnchor, fields, opened>>

Next ==
  \/ \E f \in Open  : OpenSequence(f) \/ TooDeep(f)
  \/ \E f \in Close : CloseSequence(f) \/ MismatchedEnd(f)
  \/ \E f \in Plain : StartGroup(f) \/ ContinueGroup(f) \/ PlainField(f)
  \/ Finish

Spec == Init /\ [][Next]_vars

-----------------------------------------------------------------------------
(* In a text whose brackets match, every field is kept, in order, with the *)
(* path the text gives it, and so will the next one be (push_field).       *)
PathsAreRight ==
  WellNested(text) /\ WithinDepth(text) =>
    /\ Len(fields) = Len(text)
    /\ \A j \in DOMAIN text : fields[j] = [field |-> text[j], path |-> FieldPath(text, j)]
    /\ stack = PathOf(text, Enclosing(text, Len(text) + 1))

(* Whatever the text, two groups never get the same path: rows of          *)
(* different groups cannot be merged (next_sequence_occurrence).           *)
GroupsAreDistinct ==
  \A i, j \in DOMAIN opened : opened[i] = opened[j] => i = j

IsAmong(groups, parent, frame) ==
  \E i \in DOMAIN groups : groups[i] = [parent |-> parent, frame |-> frame]

NamesGroups(groups, path) ==
  \A k \in DOMAIN path : IsAmong(groups, SubSeq(path, 1, k - 1), path[k])

(* Whatever the text, the path of a field names groups that were opened,   *)
(* each in the one before.                                                 *)
PathsNameOpenedGroups == \A j \in DOMAIN fields : NamesGroups(opened, fields[j].path)

Sound == {"mismatched_end", "depth"} \cap diagnostics = {}

(* Diagnostics are complete and exact: a text is reported as mismatched or *)
(* too deep exactly if it is, and, if it is not, as unclosed exactly if a  *)
(* sequence is left open at the end.                                       *)
DiagnosticsAreExact ==
  pc = "done" =>
    /\ Sound <=> WellNested(text) /\ WithinDepth(text)
    /\ Sound => ("unclosed" \in diagnostics <=> Enclosing(text, Len(text) + 1) # {})

-----------------------------------------------------------------------------
(* The inductive invariant. *)

(* The count of a parent and name is above every occurrence given out. *)
CountsAreAhead ==
  \A i \in DOMAIN opened :
    LET key == <<opened[i].parent, opened[i].frame.name>>
    IN key \in DOMAIN counts /\ opened[i].frame.occurrence < counts[key]

AnchorWasOpened == openAnchor # NoAnchor => IsAmong(opened, <<>>, AnchorFrame)

(* The groups that are open were opened: strengthens PathsNameOpenedGroups *)
(* and GroupsAreDistinct so that each step of push_field preserves them.   *)
IInv ==
  /\ TypeOK
  /\ CountsAreAhead
  /\ GroupsAreDistinct
  /\ NamesGroups(opened, stack)
  /\ AnchorWasOpened
  /\ PathsNameOpenedGroups

-----------------------------------------------------------------------------
(* What ties the parser's data to the text: strengthens PathsAreRight and  *)
(* DiagnosticsAreExact so that each step of push_field preserves them.     *)

(* next_sequence_occurrence counts the groups opened. *)
CountsAreExact ==
  \A key \in DOMAIN counts :
    counts[key] = Cardinality({q \in DOMAIN opened :
                                 opened[q].parent = key[1] /\ opened[q].frame.name = key[2]})

(* The anchored group that is open is the one the last field is in. *)
AnchorFollowsText ==
  LET start == GroupStart(text, Len(text))
  IN IF openAnchor = NoAnchor THEN start = {}
     ELSE \E i \in start :
            /\ start = {i}
            /\ openAnchor = [anchor     |-> AnchorOf(text[i].tag),
                             occurrence |-> Occurrence(text, i)]

(* The groups opened are those that begin in the text, in order. *)
OpenedFollowsText ==
  /\ Len(opened) = Cardinality(Begins(text))
  /\ \A q \in DOMAIN opened :
       LET i == Nth(Begins(text), q)
       IN opened[q] = [parent |-> PathOf(text, Enclosing(text, i)), frame |-> FrameOf(text, i)]

(* Anchored groups are open at the root only. *)
AnchorIsAtRoot == stack # <<>> => openAnchor = NoAnchor

UnclosedIsExact == "unclosed" \in diagnostics <=> pc = "done" /\ stack # <<>>

(* What is reported while reading is what is wrong with the text so far. *)
ReportsAreExact == Sound <=> WellNested(text) /\ WithinDepth(text)

TextInv ==
  /\ CountsAreExact
  /\ AnchorIsAtRoot
  /\ UnclosedIsExact
  /\ ReportsAreExact
  /\ PathsAreRight
  /\ Sound => AnchorFollowsText /\ OpenedFollowsText
=============================================================================
