----------------------------- MODULE FieldPaths -----------------------------
(***************************************************************************)
(* The fields of a text block and the path each of them has, defined from  *)
(* the text alone: which sequences are open around a field, which group    *)
(* with an anchor it is in, and how many groups of that name came before.  *)
(* FieldParser is how swift-core computes these paths; MessageFlow takes   *)
(* them for granted.                                                       *)
(***************************************************************************)
EXTENDS Naturals, Sequences, FiniteSets

CONSTANTS
  Name,        \* names of sequences
  Tag,         \* tags other than 16R and 16S
  Anchored,    \* what the schema declares: a sequence of anchors
  MaxDepth     \* limits.max_sequence_depth

ASSUME TagAssumption == {"16R", "16S"} \cap Tag = {}
ASSUME AnchoredAssumption ==
  Anchored \in Seq([name : Name, anchor : Tag, members : SUBSET Tag])
ASSUME DepthAssumption == MaxDepth \in Nat

Open  == [tag : {"16R"}, name : Name]
Close == [tag : {"16S"}, name : Name]
Plain == [tag : Tag]
Field == Open \cup Close \cup Plain

Frame == [name : Name, occurrence : Nat]
Path  == Seq(Frame)

IsAnchor(tag) == \E i \in DOMAIN Anchored : Anchored[i].anchor = tag

(* The first one the schema declares for the tag counts. *)
IsAnchorOf(i, tag) ==
  Anchored[i].anchor = tag /\ \A k \in 1..(i - 1) : Anchored[k].anchor # tag

AnchorOf(tag) == CHOOSE i \in DOMAIN Anchored : IsAnchorOf(i, tag)

-----------------------------------------------------------------------------
(* Brackets *)

Nesting(text, i, k) ==
  Cardinality({m \in i..k : text[m] \in Open}) - Cardinality({m \in i..k : text[m] \in Close})

(* The openings whose end does not come before position j. *)
Enclosing(text, j) ==
  {i \in 1..(j - 1) : text[i] \in Open /\ \A k \in i..(j - 1) : Nesting(text, i, k) > 0}

Innermost(S) == CHOOSE i \in S : \A k \in S : k <= i

WellNested(text) ==
  \A j \in DOMAIN text : text[j] \in Close =>
    Enclosing(text, j) # {} /\ text[Innermost(Enclosing(text, j))].name = text[j].name

WithinDepth(text) ==
  \A j \in DOMAIN text : text[j] \in Open => Cardinality(Enclosing(text, j)) < MaxDepth

-----------------------------------------------------------------------------
(* Groups *)

StartsGroup(text, i) ==
  text[i] \in Plain /\ IsAnchor(text[i].tag) /\ Enclosing(text, i) = {}

(* The anchor of the group that position j is in: between the two there    *)
(* are only members of the group.                                          *)
GroupStart(text, j) ==
  {i \in 1..j : /\ Enclosing(text, j) = {} /\ StartsGroup(text, i)
                /\ \A k \in (i + 1)..j :
                     /\ text[k] \in Plain /\ ~IsAnchor(text[k].tag)
                     /\ text[k].tag \in Anchored[AnchorOf(text[i].tag)].members}

(* Where a group begins, by a bracket or by an anchor. *)
Begins(text) == {m \in DOMAIN text : text[m] \in Open \/ StartsGroup(text, m)}

GroupName(text, i) ==
  IF text[i] \in Open THEN text[i].name ELSE Anchored[AnchorOf(text[i].tag)].name

(* How many groups of the same name came before in the same parent. *)
Occurrence(text, i) ==
  Cardinality({m \in Begins(text) :
                 /\ m < i
                 /\ Enclosing(text, m) = Enclosing(text, i)
                 /\ GroupName(text, m) = GroupName(text, i)})

FrameOf(text, i) == [name |-> GroupName(text, i), occurrence |-> Occurrence(text, i)]

Nth(S, k) == CHOOSE i \in S : Cardinality({m \in S : m < i}) = k - 1

(* The path of the groups that begin at these positions. *)
PathOf(text, around) == [k \in 1..Cardinality(around) |-> FrameOf(text, Nth(around, k))]

FieldPath(text, j) == PathOf(text, Enclosing(text, j) \cup GroupStart(text, j))
=============================================================================
