-------------------------- MODULE FieldParserProofs --------------------------
(***************************************************************************)
(* What holds of FieldParser for every schema, every limit and every text. *)
(* Two groups never share a path, and a path names groups that were        *)
(* opened: both follow from CountsAreAhead, the occurrence that the next   *)
(* group under a parent will get has not been given out.  In a text whose  *)
(* brackets match every field has the path that FieldPaths defines: that   *)
(* follows from TextInv, which says of every piece of the parser's state   *)
(* what it stands for in the text.                                         *)
(***************************************************************************)
EXTENDS FieldParser, FieldPathProofs

-----------------------------------------------------------------------------
(* Sequences *)

(* A path and its prefixes when a frame is added to it. *)
LEMMA LongerPath ==
  ASSUME NEW p \in Path, NEW fr \in Frame
  PROVE  /\ Append(p, fr) \in Path
         /\ Len(Append(p, fr)) = Len(p) + 1
         /\ \A k \in 1..Len(p) : Append(p, fr)[k] = p[k]
         /\ Append(p, fr)[Len(p) + 1] = fr
         /\ \A k \in 1..(Len(p) + 1) : SubSeq(Append(p, fr), 1, k - 1) = SubSeq(p, 1, k - 1)
         /\ SubSeq(p, 1, Len(p)) = p
<1>1. /\ Append(p, fr) \in Path /\ Len(Append(p, fr)) = Len(p) + 1
      /\ \A k \in 1..Len(p) : Append(p, fr)[k] = p[k]
      /\ Append(p, fr)[Len(p) + 1] = fr
  BY AppendProperties DEF Path
<1>2. Len(p) \in Nat /\ SubSeq(p, 1, Len(p)) = p
  BY LenProperties, SubSeqFull DEF Path
<1>3. ASSUME NEW k \in 1..(Len(p) + 1)
      PROVE  SubSeq(Append(p, fr), 1, k - 1) = SubSeq(p, 1, k - 1)
  <2>1. k - 1 \in Int /\ \A i \in 1..(k - 1) : Append(p, fr)[i] \in Frame /\ p[i] \in Frame
    <3>1. \A i \in 1..(k - 1) : i \in 1..Len(p)
      BY <1>2
    <3>2. \A i \in 1..Len(p) : p[i] \in Frame
      BY ElementOfSeq DEF Path
    <3> QED
      BY <1>1, <3>1, <3>2
  <2>2. /\ SubSeq(p, 1, k - 1) \in Seq(Frame)
        /\ Len(SubSeq(p, 1, k - 1)) = IF 1 <= k - 1 THEN (k - 1) - 1 + 1 ELSE 0
        /\ \A i \in 1..((k - 1) - 1 + 1) : SubSeq(p, 1, k - 1)[i] = p[1 + i - 1]
    BY <2>1, SubSeqProperties
  <2>3. /\ SubSeq(Append(p, fr), 1, k - 1) \in Seq(Frame)
        /\ Len(SubSeq(Append(p, fr), 1, k - 1)) = IF 1 <= k - 1 THEN (k - 1) - 1 + 1 ELSE 0
        /\ \A i \in 1..((k - 1) - 1 + 1) :
             SubSeq(Append(p, fr), 1, k - 1)[i] = Append(p, fr)[1 + i - 1]
    BY <2>1, SubSeqProperties
  <2>4. \A i \in 1..Len(SubSeq(p, 1, k - 1)) :
          SubSeq(Append(p, fr), 1, k - 1)[i] = SubSeq(p, 1, k - 1)[i]
    BY <1>1, <1>2, <2>2, <2>3
  <2> QED
    BY <2>2, <2>3, <2>4, SeqEqual
<1> QED
  BY <1>1, <1>2, <1>3

(* A path and its prefixes when the last frame is taken off. *)
LEMMA ShorterPath ==
  ASSUME NEW p \in Path, p # <<>>
  PROVE  LET q == SubSeq(p, 1, Len(p) - 1)
         IN /\ q \in Path
            /\ Len(q) = Len(p) - 1
            /\ \A k \in 1..Len(q) : q[k] = p[k] /\ SubSeq(q, 1, k - 1) = SubSeq(p, 1, k - 1)
<1> DEFINE q == SubSeq(p, 1, Len(p) - 1)
<1>1. /\ Len(p) \in Nat /\ (Len(p) = 1 \/ Len(p) > 1)
      /\ \A i \in 1..Len(p) : p[i] \in Frame
  <2>1. Len(p) \in Nat \ {0}
    BY EmptySeq DEF Path
  <2>2. Len(p) = 1 \/ Len(p) > 1
    BY <2>1
  <2>3. \A i \in 1..Len(p) : p[i] \in Frame
    BY ElementOfSeq DEF Path
  <2> QED
    BY <2>1, <2>2, <2>3
<1>2. /\ q \in Seq(Frame) /\ Len(q) = Len(p) - 1
      /\ \A i \in 1..(Len(p) - 1) : q[i] = p[i]
  <2>1. \A i \in 1..(Len(p) - 1) : p[i] \in Frame
    BY <1>1
  <2>2. /\ q \in Seq(Frame)
        /\ Len(q) = IF 1 <= Len(p) - 1 THEN (Len(p) - 1) - 1 + 1 ELSE 0
        /\ \A i \in 1..((Len(p) - 1) - 1 + 1) : q[i] = p[1 + i - 1]
    BY <1>1, <2>1, SubSeqProperties
  <2> HIDE DEF q
  <2>3. Len(q) = Len(p) - 1
    <3>1. CASE Len(p) = 1
      BY <2>2, <3>1
    <3>2. CASE Len(p) > 1
      BY <1>1, <2>2, <3>2
    <3> QED
      BY <1>1, <3>1, <3>2
  <2>4. ASSUME NEW i \in 1..(Len(p) - 1) PROVE q[i] = p[i]
    <3>1. i \in 1..((Len(p) - 1) - 1 + 1) /\ 1 + i - 1 = i
      BY <1>1
    <3> QED
      BY <2>2, <3>1
  <2> QED
    BY <2>2, <2>3, <2>4
<1>3. ASSUME NEW k \in 1..Len(q) PROVE SubSeq(q, 1, k - 1) = SubSeq(p, 1, k - 1)
  <2> HIDE DEF q
  <2>1. k - 1 \in Int /\ \A i \in 1..(k - 1) : q[i] \in Frame /\ p[i] \in Frame
    BY <1>1, <1>2
  <2>2. /\ SubSeq(p, 1, k - 1) \in Seq(Frame)
        /\ Len(SubSeq(p, 1, k - 1)) = IF 1 <= k - 1 THEN (k - 1) - 1 + 1 ELSE 0
        /\ \A i \in 1..((k - 1) - 1 + 1) : SubSeq(p, 1, k - 1)[i] = p[1 + i - 1]
    BY <2>1, SubSeqProperties
  <2>3. /\ SubSeq(q, 1, k - 1) \in Seq(Frame)
        /\ Len(SubSeq(q, 1, k - 1)) = IF 1 <= k - 1 THEN (k - 1) - 1 + 1 ELSE 0
        /\ \A i \in 1..((k - 1) - 1 + 1) : SubSeq(q, 1, k - 1)[i] = q[1 + i - 1]
    BY <2>1, SubSeqProperties
  <2>4. \A i \in 1..Len(SubSeq(p, 1, k - 1)) :
          SubSeq(q, 1, k - 1)[i] = SubSeq(p, 1, k - 1)[i]
    BY <1>1, <1>2, <2>2, <2>3
  <2> QED
    BY <2>2, <2>3, <2>4, SeqEqual
<1> QED
  BY <1>2, <1>3 DEF Path

(* What a sequence that only grows keeps. *)
LEMMA Appended ==
  ASSUME NEW S, NEW s \in Seq(S), NEW e \in S
  PROVE  /\ Append(s, e) \in Seq(S)
         /\ DOMAIN s = 1..Len(s) /\ Len(s) \in Nat
         /\ DOMAIN Append(s, e) = 1..(Len(s) + 1)
         /\ \A i \in DOMAIN s : Append(s, e)[i] = s[i]
         /\ Append(s, e)[Len(s) + 1] = e
BY AppendProperties, LenProperties

-----------------------------------------------------------------------------
(* Opening a group *)

LEMMA InitIInv == Init => IInv
<1> SUFFICES ASSUME Init PROVE IInv
  OBVIOUS
<1>1. TypeOK
  BY LimitAssumption, DepthAssumption, EmptySeq
  DEF Init, TypeOK, Path, OpenAnchor, NoAnchor
<1>2. DOMAIN opened = {} /\ DOMAIN stack = {} /\ DOMAIN fields = {}
  BY DEF Init
<1> QED
  BY <1>1, <1>2 DEF Init, IInv, CountsAreAhead, GroupsAreDistinct, NamesGroups,
     AnchorWasOpened, PathsNameOpenedGroups

(* The frame a group gets is new, and its group is remembered. *)
LEMMA BeginIsFresh ==
  ASSUME TypeOK, CountsAreAhead, GroupsAreDistinct, NEW name \in Name, Begin(name)
  PROVE  /\ NextFrame(stack, name) \in Frame
         /\ DOMAIN counts' \subseteq Path \X Name /\ counts' \in [DOMAIN counts' -> Nat]
         /\ opened' \in Seq([parent : Path, frame : Frame])
         /\ CountsAreAhead'
         /\ GroupsAreDistinct'
         /\ IsAmong(opened', stack, NextFrame(stack, name))
         /\ \A parent, frame : IsAmong(opened, parent, frame) => IsAmong(opened', parent, frame)
<1> DEFINE key   == <<stack, name>>
           group == [parent |-> stack, frame |-> NextFrame(stack, name)]
<1>1. /\ stack \in Path /\ DOMAIN counts \subseteq Path \X Name
      /\ counts \in [DOMAIN counts -> Nat]
      /\ opened \in Seq([parent : Path, frame : Frame])
  BY DEF TypeOK
<1>2. NextOccurrence(stack, name) \in Nat
  BY <1>1 DEF NextOccurrence
<1>3. NextFrame(stack, name) \in Frame /\ group \in [parent : Path, frame : Frame]
  BY <1>1, <1>2 DEF NextFrame, Frame
<1>4. /\ opened' \in Seq([parent : Path, frame : Frame])
      /\ DOMAIN opened = 1..Len(opened) /\ Len(opened) \in Nat
      /\ DOMAIN opened' = 1..(Len(opened) + 1)
      /\ \A i \in DOMAIN opened : opened'[i] = opened[i]
      /\ opened'[Len(opened) + 1] = group
  <2>1. opened' = Append(opened, group)
    BY DEF Begin
  <2> QED
    BY <1>1, <1>3, <2>1, Appended
<1>5. /\ DOMAIN counts' = DOMAIN counts \cup {key}
      /\ counts'[key] = NextOccurrence(stack, name) + 1
      /\ \A k \in DOMAIN counts : k # key => counts'[k] = counts[k]
  BY DEF Begin, Count
<1>6. DOMAIN counts' \subseteq Path \X Name /\ counts' \in [DOMAIN counts' -> Nat]
  <2>1. counts' = [k \in DOMAIN counts \cup {key} |->
                     IF k = key THEN NextOccurrence(stack, name) + 1 ELSE counts[k]]
    BY DEF Begin, Count
  <2>2. \A k \in DOMAIN counts \cup {key} :
          (IF k = key THEN NextOccurrence(stack, name) + 1 ELSE counts[k]) \in Nat
    BY <1>1, <1>2
  <2>3. key \in Path \X Name
    BY <1>1
  <2> QED
    BY <1>1, <1>5, <2>1, <2>2, <2>3
<1>7. \A i \in DOMAIN opened : opened[i] # group
  BY <1>1 DEF CountsAreAhead, NextFrame, NextOccurrence
<1>8. CountsAreAhead'
  <2> SUFFICES ASSUME NEW i \in DOMAIN opened'
               PROVE  LET k == <<opened'[i].parent, opened'[i].frame.name>>
                      IN k \in DOMAIN counts' /\ opened'[i].frame.occurrence < counts'[k]
    BY DEF CountsAreAhead
  <2>1. CASE i \in DOMAIN opened
    <3> DEFINE k == <<opened[i].parent, opened[i].frame.name>>
    <3>1. opened'[i] = opened[i] /\ k \in DOMAIN counts /\ opened[i].frame.occurrence < counts[k]
      BY <1>4, <2>1 DEF CountsAreAhead
    <3>2. opened[i].frame.occurrence \in Nat /\ counts[k] \in Nat
      <4>1. opened[i] \in [parent : Path, frame : Frame]
        BY <1>1, <1>4, <2>1, ElementOfSeq
      <4>2. counts[k] \in Nat
        BY <1>1, <3>1
      <4> QED
        BY <4>1, <4>2 DEF Frame
    <3>3. CASE k = key
      <4>1. NextOccurrence(stack, name) = counts[k]
        BY <3>1, <3>3 DEF NextOccurrence
      <4> QED
        BY <1>5, <3>1, <3>2, <3>3, <4>1
    <3>4. CASE k # key
      BY <1>5, <3>1, <3>4
    <3> QED
      BY <3>3, <3>4
  <2>2. CASE i = Len(opened) + 1
    <3>1. opened'[i].parent = stack /\ opened'[i].frame.name = name
          /\ opened'[i].frame.occurrence = NextOccurrence(stack, name)
      BY <1>4, <2>2 DEF NextFrame
    <3> QED
      BY <1>2, <1>5, <3>1
  <2> QED
    BY <1>4, <2>1, <2>2
<1>9. GroupsAreDistinct'
  BY <1>4, <1>7 DEF GroupsAreDistinct
<1>10. IsAmong(opened', stack, NextFrame(stack, name))
  <2>1. Len(opened) + 1 \in DOMAIN opened' /\ opened'[Len(opened) + 1] = group
    BY <1>4
  <2> QED
    BY <2>1 DEF IsAmong
<1>11. \A parent, frame : IsAmong(opened, parent, frame) => IsAmong(opened', parent, frame)
  BY <1>4 DEF IsAmong
<1> QED
  BY <1>3, <1>4, <1>6, <1>8, <1>9, <1>10, <1>11

-----------------------------------------------------------------------------
(* Paths that name groups *)

LEMMA MoreGroups ==
  ASSUME NEW gs, NEW hs, NEW p, NamesGroups(gs, p),
         \A parent, frame : IsAmong(gs, parent, frame) => IsAmong(hs, parent, frame)
  PROVE  NamesGroups(hs, p)
BY DEF NamesGroups

LEMMA LongerNames ==
  ASSUME NEW gs, NEW p \in Path, NEW fr \in Frame, NamesGroups(gs, p), IsAmong(gs, p, fr)
  PROVE  NamesGroups(gs, Append(p, fr))
<1> DEFINE q == Append(p, fr)
<1>1. /\ DOMAIN p = 1..Len(p) /\ Len(p) \in Nat /\ DOMAIN q = 1..(Len(p) + 1)
      /\ \A k \in 1..Len(p) : q[k] = p[k]
      /\ q[Len(p) + 1] = fr
  BY Appended DEF Path
<1>2. /\ \A k \in 1..(Len(p) + 1) : SubSeq(q, 1, k - 1) = SubSeq(p, 1, k - 1)
      /\ SubSeq(p, 1, Len(p)) = p
  BY LongerPath
<1> HIDE DEF q
<1>3. ASSUME NEW k \in 1..Len(p) PROVE IsAmong(gs, SubSeq(q, 1, k - 1), q[k])
  <2>1. SubSeq(q, 1, k - 1) = SubSeq(p, 1, k - 1) /\ q[k] = p[k]
    BY <1>1, <1>2
  <2> QED
    BY <1>1, <2>1 DEF NamesGroups
<1>4. IsAmong(gs, SubSeq(q, 1, (Len(p) + 1) - 1), q[Len(p) + 1])
  <2>1. (Len(p) + 1) - 1 = Len(p) /\ Len(p) + 1 \in 1..(Len(p) + 1)
    BY <1>1
  <2>2. SubSeq(q, 1, (Len(p) + 1) - 1) = p
    BY <1>2, <2>1
  <2> QED
    BY <1>1, <2>2
<1>5. ASSUME NEW k \in DOMAIN q PROVE IsAmong(gs, SubSeq(q, 1, k - 1), q[k])
  <2>1. k \in 1..Len(p) \/ k = Len(p) + 1
    BY <1>1
  <2> QED
    BY <1>3, <1>4, <2>1
<1> QED
  BY <1>5 DEF NamesGroups, q

LEMMA ShorterNames ==
  ASSUME NEW gs, NEW p \in Path, p # <<>>, NamesGroups(gs, p)
  PROVE  NamesGroups(gs, SubSeq(p, 1, Len(p) - 1))
<1> DEFINE q == SubSeq(p, 1, Len(p) - 1)
<1>1. /\ q \in Path /\ Len(q) = Len(p) - 1
      /\ \A k \in 1..Len(q) : q[k] = p[k] /\ SubSeq(q, 1, k - 1) = SubSeq(p, 1, k - 1)
  BY ShorterPath
<1> HIDE DEF q
<1>2. DOMAIN q = 1..Len(q) /\ DOMAIN p = 1..Len(p) /\ Len(p) \in Nat /\ Len(q) \in Nat
  BY <1>1, LenProperties DEF Path
<1>3. ASSUME NEW k \in DOMAIN q PROVE IsAmong(gs, SubSeq(q, 1, k - 1), q[k])
  <2>1. k \in DOMAIN p
    BY <1>1, <1>2
  <2>2. SubSeq(q, 1, k - 1) = SubSeq(p, 1, k - 1) /\ q[k] = p[k]
    BY <1>1, <1>2
  <2> QED
    BY <2>1, <2>2 DEF NamesGroups
<1> QED
  BY <1>3 DEF NamesGroups, q

LEMMA SingleName ==
  ASSUME NEW gs, NEW fr \in Frame, IsAmong(gs, <<>>, fr)
  PROVE  <<fr>> \in Path /\ NamesGroups(gs, <<fr>>)
<1>1. <<fr>> \in Path
  BY DEF Path
<1>2. DOMAIN <<fr>> = {1} /\ <<fr>>[1] = fr
  OBVIOUS
<1>3. SubSeq(<<fr>>, 1, 1 - 1) = <<>>
  BY SubSeqEmpty
<1> QED
  BY <1>1, <1>2, <1>3 DEF NamesGroups

(* A field that is pushed with a path that names groups. *)
LEMMA PushKeepsNames ==
  ASSUME TypeOK, PathsNameOpenedGroups, NEW f \in Field, NEW path \in Path,
         NamesGroups(opened', path), Push(f, path),
         \A parent, frame : IsAmong(opened, parent, frame) => IsAmong(opened', parent, frame)
  PROVE  fields' \in Seq([field : Field, path : Path]) /\ PathsNameOpenedGroups'
<1> DEFINE e == [field |-> f, path |-> path]
<1>1. fields \in Seq([field : Field, path : Path]) /\ e \in [field : Field, path : Path]
  BY DEF TypeOK
<1>2. fields' = Append(fields, e)
  BY DEF Push
<1>3. /\ fields' \in Seq([field : Field, path : Path])
      /\ DOMAIN fields = 1..Len(fields) /\ Len(fields) \in Nat
      /\ DOMAIN fields' = 1..(Len(fields) + 1)
      /\ \A j \in DOMAIN fields : fields'[j] = fields[j]
      /\ fields'[Len(fields) + 1] = e
  BY <1>1, <1>2, Appended
<1>4. ASSUME NEW j \in DOMAIN fields' PROVE NamesGroups(opened', fields'[j].path)
  <2>1. CASE j \in DOMAIN fields
    <3>1. NamesGroups(opened, fields[j].path)
      BY <2>1 DEF PathsNameOpenedGroups
    <3>2. NamesGroups(opened', fields[j].path)
      BY <3>1, MoreGroups
    <3> QED
      BY <1>3, <2>1, <3>2
  <2>2. CASE j = Len(fields) + 1
    BY <1>3, <2>2
  <2> QED
    BY <1>3, <2>1, <2>2
<1> QED
  BY <1>3, <1>4 DEF PathsNameOpenedGroups

-----------------------------------------------------------------------------
(* The steps *)

Grows ==
  \A parent, frame : IsAmong(opened, parent, frame) => IsAmong(opened', parent, frame)

LEMMA ReadTypes ==
  ASSUME TypeOK, NEW f \in Field, Read(f)
  PROVE  text' \in Seq(Field) /\ Len(text') <= MaxFields /\ pc' \in {"read", "done"}
<1>1. text \in Seq(Field) /\ f \in Field /\ Len(text) < MaxFields /\ text' = Append(text, f)
  BY DEF TypeOK, Read
<1>2. text' \in Seq(Field) /\ Len(text') = Len(text) + 1 /\ Len(text) \in Nat
  BY <1>1, AppendProperties, LenProperties
<1>3. pc' \in {"read", "done"}
  BY DEF TypeOK, Read
<1> QED
  BY <1>1, <1>2, <1>3, LimitAssumption

(* A step that opens no group. *)
LEMMA NoGroup ==
  ASSUME TypeOK, CountsAreAhead, GroupsAreDistinct, UNCHANGED <<counts, opened>>
  PROVE  /\ DOMAIN counts' \subseteq Path \X Name /\ counts' \in [DOMAIN counts' -> Nat]
         /\ opened' \in Seq([parent : Path, frame : Frame])
         /\ CountsAreAhead' /\ GroupsAreDistinct' /\ Grows
BY DEF TypeOK, CountsAreAhead, GroupsAreDistinct, Grows

(* A step that keeps the anchored group or ends it. *)
LEMMA AnchorKept ==
  ASSUME TypeOK, AnchorWasOpened, Grows, openAnchor' = NoAnchor \/ openAnchor' = openAnchor
  PROVE  openAnchor' \in OpenAnchor /\ AnchorWasOpened'
<1>1. CASE openAnchor' = NoAnchor
  BY <1>1 DEF OpenAnchor, AnchorWasOpened
<1>2. CASE openAnchor' = openAnchor
  BY <1>2 DEF TypeOK, AnchorWasOpened, AnchorFrame, Grows
<1> QED
  BY <1>1, <1>2

LEMMA Declared ==
  ASSUME NEW i \in DOMAIN Anchored
  PROVE  Anchored[i] \in [name : Name, anchor : Tag, members : SUBSET Tag]
<1>1. DOMAIN Anchored = 1..Len(Anchored)
  BY AnchoredAssumption, LenProperties
<1> QED
  BY <1>1, AnchoredAssumption, ElementOfSeq

LEMMA OpenSequenceStep == ASSUME IInv, NEW f \in Open, OpenSequence(f) PROVE IInv'
<1> DEFINE frame == NextFrame(stack, f.name)
<1>0. /\ TypeOK /\ CountsAreAhead /\ GroupsAreDistinct /\ NamesGroups(opened, stack)
      /\ AnchorWasOpened /\ PathsNameOpenedGroups
      /\ stack \in Path /\ f \in Field /\ f.name \in Name
  BY DEF IInv, TypeOK, Open, Field
<1>1. /\ Read(f) /\ Len(stack) < MaxDepth /\ DropAnchor /\ Push(f, stack) /\ Begin(f.name)
      /\ stack' = Append(stack, frame) /\ diagnostics' = diagnostics
  BY DEF OpenSequence
<1>2. /\ frame \in Frame
      /\ DOMAIN counts' \subseteq Path \X Name /\ counts' \in [DOMAIN counts' -> Nat]
      /\ opened' \in Seq([parent : Path, frame : Frame])
      /\ CountsAreAhead' /\ GroupsAreDistinct'
      /\ IsAmong(opened', stack, frame)
      /\ Grows
  BY <1>0, <1>1, BeginIsFresh DEF Grows
<1> HIDE DEF frame
<1>3. NamesGroups(opened', stack)
  BY <1>0, <1>2, MoreGroups DEF Grows
<1>4. stack' \in Path /\ Len(stack') = Len(stack) + 1 /\ NamesGroups(opened', stack')
  BY <1>0, <1>1, <1>2, <1>3, LongerPath, LongerNames
<1>5. Len(stack') <= MaxDepth
  <2>1. Len(stack) \in Nat
    BY <1>0, LenProperties DEF Path
  <2> QED
    BY <1>1, <1>4, <2>1, DepthAssumption
<1>6. fields' \in Seq([field : Field, path : Path]) /\ PathsNameOpenedGroups'
  BY <1>0, <1>1, <1>2, <1>3, PushKeepsNames DEF Grows
<1>7. openAnchor' \in OpenAnchor /\ AnchorWasOpened'
  BY <1>0, <1>1, <1>2, AnchorKept DEF DropAnchor
<1>8. text' \in Seq(Field) /\ Len(text') <= MaxFields /\ pc' \in {"read", "done"}
  BY <1>0, <1>1, ReadTypes
<1>9. diagnostics' \subseteq Diagnostic
  BY <1>0, <1>1 DEF TypeOK
<1>10. TypeOK'
  BY <1>2, <1>4, <1>5, <1>6, <1>7, <1>8, <1>9 DEF TypeOK
<1> QED
  BY <1>2, <1>4, <1>6, <1>7, <1>10 DEF IInv

(* A step that only pushes a field, and may end the anchored group. *)
LEMMA PushStep ==
  ASSUME IInv, NEW f \in Field, Read(f),
         NEW path \in Path, NamesGroups(opened, path), Push(f, path),
         UNCHANGED <<counts, opened>>,
         stack' \in Path, Len(stack') <= MaxDepth, NamesGroups(opened, stack'),
         openAnchor' = NoAnchor \/ openAnchor' = openAnchor,
         diagnostics' \subseteq Diagnostic
  PROVE  IInv'
<1>0. /\ TypeOK /\ CountsAreAhead /\ GroupsAreDistinct
      /\ AnchorWasOpened /\ PathsNameOpenedGroups
  BY DEF IInv
<1>1. /\ DOMAIN counts' \subseteq Path \X Name /\ counts' \in [DOMAIN counts' -> Nat]
      /\ opened' \in Seq([parent : Path, frame : Frame])
      /\ CountsAreAhead' /\ GroupsAreDistinct' /\ Grows
  BY <1>0, NoGroup
<1>2. NamesGroups(opened', path) /\ NamesGroups(opened', stack')
  OBVIOUS
<1>3. fields' \in Seq([field : Field, path : Path]) /\ PathsNameOpenedGroups'
  BY <1>0, <1>1, <1>2, PushKeepsNames DEF Grows
<1>4. openAnchor' \in OpenAnchor /\ AnchorWasOpened'
  BY <1>0, <1>1, AnchorKept
<1>5. text' \in Seq(Field) /\ Len(text') <= MaxFields /\ pc' \in {"read", "done"}
  BY <1>0, ReadTypes
<1>6. TypeOK'
  BY <1>1, <1>3, <1>4, <1>5 DEF TypeOK
<1> QED
  BY <1>1, <1>2, <1>3, <1>4, <1>6 DEF IInv

LEMMA TooDeepStep == ASSUME IInv, NEW f \in Open, TooDeep(f) PROVE IInv'
<1>1. /\ stack \in Path /\ Len(stack) <= MaxDepth /\ NamesGroups(opened, stack)
      /\ f \in Field /\ diagnostics \subseteq Diagnostic
  BY DEF IInv, TypeOK, Open, Field
<1>2. /\ Read(f) /\ DropAnchor /\ Push(f, stack)
      /\ diagnostics' = diagnostics \cup {"depth"}
      /\ stack' = stack /\ UNCHANGED <<counts, opened>>
  BY DEF TooDeep, Complain
<1>3. diagnostics' \subseteq Diagnostic
  BY <1>1, <1>2 DEF Diagnostic
<1> QED
  BY <1>1, <1>2, <1>3, PushStep DEF DropAnchor

LEMMA CloseSequenceStep == ASSUME IInv, NEW f \in Close, CloseSequence(f) PROVE IInv'
<1> DEFINE rest == SubSeq(stack, 1, Len(stack) - 1)
<1>1. /\ stack \in Path /\ Len(stack) <= MaxDepth /\ NamesGroups(opened, stack)
      /\ f \in Field /\ diagnostics \subseteq Diagnostic
  BY DEF IInv, TypeOK, Close, Field
<1>2. /\ Read(f) /\ stack # <<>> /\ Push(f, stack) /\ stack' = rest
      /\ UNCHANGED <<counts, openAnchor, diagnostics, opened>>
  BY DEF CloseSequence, ClosesTop
<1>3. rest \in Path /\ Len(rest) = Len(stack) - 1 /\ NamesGroups(opened, rest)
  BY <1>1, <1>2, ShorterPath, ShorterNames
<1> HIDE DEF rest
<1>4. stack' \in Path /\ NamesGroups(opened, stack')
  BY <1>2, <1>3
<1>5. Len(stack') <= MaxDepth
  <2>1. Len(stack) \in Nat
    BY <1>1, LenProperties DEF Path
  <2> QED
    BY <1>1, <1>2, <1>3, <2>1, DepthAssumption
<1>6. diagnostics' \subseteq Diagnostic
  BY <1>1, <1>2
<1> QED
  BY <1>1, <1>2, <1>4, <1>5, <1>6, PushStep

LEMMA MismatchedEndStep == ASSUME IInv, NEW f \in Close, MismatchedEnd(f) PROVE IInv'
<1>0. /\ TypeOK /\ CountsAreAhead /\ GroupsAreDistinct /\ NamesGroups(opened, stack)
      /\ AnchorWasOpened /\ PathsNameOpenedGroups /\ f \in Field
  BY DEF IInv, Close, Field
<1>1. /\ Read(f) /\ diagnostics' = diagnostics \cup {"mismatched_end"}
      /\ UNCHANGED <<stack, counts, openAnchor, fields, opened>>
  BY DEF MismatchedEnd, Complain
<1>2. text' \in Seq(Field) /\ Len(text') <= MaxFields /\ pc' \in {"read", "done"}
  BY <1>0, <1>1, ReadTypes
<1>3. TypeOK'
  BY <1>0, <1>1, <1>2 DEF TypeOK, Diagnostic
<1> QED
  BY <1>0, <1>1, <1>3 DEF IInv, CountsAreAhead, GroupsAreDistinct, AnchorWasOpened,
     AnchorFrame, PathsNameOpenedGroups

LEMMA StartGroupStep == ASSUME IInv, NEW f \in Plain, StartGroup(f) PROVE IInv'
<1>0. /\ TypeOK /\ CountsAreAhead /\ GroupsAreDistinct /\ PathsNameOpenedGroups
      /\ f \in Field /\ stack \in Path /\ NamesGroups(opened, stack)
  BY DEF IInv, TypeOK, Plain, Field
<1>1. PICK i \in DOMAIN Anchored :
        /\ Begin(Anchored[i].name)
        /\ openAnchor' = [anchor |-> i, occurrence |-> NextFrame(stack, Anchored[i].name).occurrence]
        /\ Push(f, <<NextFrame(stack, Anchored[i].name)>>)
  BY DEF StartGroup
<1>2. Read(f) /\ stack = <<>> /\ stack' = stack /\ diagnostics' = diagnostics
  BY DEF StartGroup
<1> DEFINE frame == NextFrame(stack, Anchored[i].name)
<1>3. Anchored[i].name \in Name
  BY Declared
<1>4. /\ frame \in Frame
      /\ DOMAIN counts' \subseteq Path \X Name /\ counts' \in [DOMAIN counts' -> Nat]
      /\ opened' \in Seq([parent : Path, frame : Frame])
      /\ CountsAreAhead' /\ GroupsAreDistinct'
      /\ IsAmong(opened', stack, frame)
      /\ Grows
  BY <1>0, <1>1, <1>3, BeginIsFresh DEF Grows
<1>5. frame.name = Anchored[i].name /\ frame.occurrence \in Nat
  BY <1>4 DEF NextFrame, Frame
<1>6. /\ openAnchor' \in OpenAnchor
      /\ AnchorFrame' = frame
  <2>1. openAnchor'.anchor = i /\ openAnchor'.occurrence = frame.occurrence
    BY <1>1
  <2>2. openAnchor' \in OpenAnchor
    BY <1>1, <1>5 DEF OpenAnchor
  <2>3. AnchorFrame' = [name |-> Anchored[i].name, occurrence |-> frame.occurrence]
    BY <2>1 DEF AnchorFrame
  <2>4. frame = [name |-> Anchored[i].name, occurrence |-> frame.occurrence]
    BY DEF NextFrame
  <2> QED
    BY <2>2, <2>3, <2>4
<1> HIDE DEF frame
<1>7. AnchorWasOpened'
  BY <1>2, <1>4, <1>6 DEF AnchorWasOpened
<1>8. <<frame>> \in Path /\ NamesGroups(opened', <<frame>>)
  BY <1>2, <1>4, SingleName
<1>9. Push(f, <<frame>>)
  BY <1>1 DEF frame
<1>10. fields' \in Seq([field : Field, path : Path]) /\ PathsNameOpenedGroups'
  BY <1>0, <1>4, <1>8, <1>9, PushKeepsNames DEF Grows
<1>11. NamesGroups(opened', stack')
  BY <1>0, <1>2, <1>4, MoreGroups DEF Grows
<1>12. text' \in Seq(Field) /\ Len(text') <= MaxFields /\ pc' \in {"read", "done"}
  BY <1>0, <1>2, ReadTypes
<1>13. stack' \in Path /\ Len(stack') <= MaxDepth /\ diagnostics' \subseteq Diagnostic
  BY <1>0, <1>2 DEF TypeOK
<1>14. TypeOK'
  BY <1>4, <1>6, <1>10, <1>12, <1>13 DEF TypeOK
<1> QED
  BY <1>4, <1>7, <1>10, <1>11, <1>14 DEF IInv

LEMMA ContinueGroupStep == ASSUME IInv, NEW f \in Plain, ContinueGroup(f) PROVE IInv'
<1>1. /\ stack \in Path /\ Len(stack) <= MaxDepth /\ NamesGroups(opened, stack)
      /\ f \in Field /\ diagnostics \subseteq Diagnostic
      /\ openAnchor \in OpenAnchor /\ AnchorWasOpened
  BY DEF IInv, TypeOK, Plain, Field
<1>2. /\ Read(f) /\ openAnchor # NoAnchor /\ Push(f, <<AnchorFrame>>)
      /\ UNCHANGED <<stack, counts, openAnchor, diagnostics, opened>>
  BY DEF ContinueGroup, IsMember
<1>3. openAnchor \in [anchor : DOMAIN Anchored, occurrence : Nat]
  BY <1>1, <1>2 DEF OpenAnchor
<1>4. AnchorFrame \in Frame
  <2>1. Anchored[openAnchor.anchor] \in [name : Name, anchor : Tag, members : SUBSET Tag]
    BY <1>3, Declared
  <2> QED
    BY <1>3, <2>1 DEF AnchorFrame, Frame
<1>5. IsAmong(opened, <<>>, AnchorFrame)
  BY <1>1, <1>2 DEF AnchorWasOpened
<1>6. <<AnchorFrame>> \in Path /\ NamesGroups(opened, <<AnchorFrame>>)
  BY <1>4, <1>5, SingleName
<1>7. /\ stack' \in Path /\ Len(stack') <= MaxDepth /\ NamesGroups(opened, stack')
      /\ diagnostics' \subseteq Diagnostic
  BY <1>1, <1>2
<1> QED
  BY <1>1, <1>2, <1>6, <1>7, PushStep

LEMMA PlainFieldStep == ASSUME IInv, NEW f \in Plain, PlainField(f) PROVE IInv'
<1>1. /\ stack \in Path /\ Len(stack) <= MaxDepth /\ NamesGroups(opened, stack)
      /\ f \in Field /\ diagnostics \subseteq Diagnostic
  BY DEF IInv, TypeOK, Plain, Field
<1>2. /\ Read(f) /\ DropAnchor /\ Push(f, stack)
      /\ UNCHANGED <<stack, counts, diagnostics, opened>>
  BY DEF PlainField
<1>3. /\ stack' \in Path /\ Len(stack') <= MaxDepth /\ NamesGroups(opened, stack')
      /\ diagnostics' \subseteq Diagnostic
  BY <1>1, <1>2
<1> QED
  BY <1>1, <1>2, <1>3, PushStep DEF DropAnchor

LEMMA FinishStep == ASSUME IInv, Finish PROVE IInv'
<1>1. pc' = "done" /\ UNCHANGED <<text, stack, counts, openAnchor, fields, opened>>
  BY DEF Finish
<1>2. diagnostics' \subseteq Diagnostic
  <2>1. diagnostics \subseteq Diagnostic
    BY DEF IInv, TypeOK
  <2> QED
    BY <2>1 DEF Finish, Diagnostic
<1>3. TypeOK'
  BY <1>1, <1>2 DEF IInv, TypeOK
<1> QED
  BY <1>1, <1>3 DEF IInv, CountsAreAhead, GroupsAreDistinct, AnchorWasOpened,
     AnchorFrame, PathsNameOpenedGroups

LEMMA StepIInv == IInv /\ [Next]_vars => IInv'
<1> SUFFICES ASSUME IInv, [Next]_vars PROVE IInv'
  OBVIOUS
<1>1. ASSUME NEW f \in Open, OpenSequence(f) \/ TooDeep(f) PROVE IInv'
  BY <1>1, OpenSequenceStep, TooDeepStep
<1>2. ASSUME NEW f \in Close, CloseSequence(f) \/ MismatchedEnd(f) PROVE IInv'
  BY <1>2, CloseSequenceStep, MismatchedEndStep
<1>3. ASSUME NEW f \in Plain, StartGroup(f) \/ ContinueGroup(f) \/ PlainField(f) PROVE IInv'
  BY <1>3, StartGroupStep, ContinueGroupStep, PlainFieldStep
<1>4. CASE Finish
  BY <1>4, FinishStep
<1>5. CASE UNCHANGED vars
  BY <1>5 DEF IInv, TypeOK, CountsAreAhead, GroupsAreDistinct, AnchorWasOpened,
     AnchorFrame, PathsNameOpenedGroups, vars
<1> QED
  BY <1>1, <1>2, <1>3, <1>4, <1>5 DEF Next

-----------------------------------------------------------------------------
(* For every schema, limit and text the invariant of FieldParser holds:    *)
(* push_field and next_sequence_occurrence keep their data consistent      *)
(* whatever order the brackets and anchors come in.                        *)
THEOREM Invariance == Spec => []IInv
BY InitIInv, StepIInv, PTL DEF Spec

(* The types hold; the stack never grows beyond max_sequence_depth, nor    *)
(* the fields accepted beyond max_fields.                                  *)
THEOREM TypeCorrect == Spec => []TypeOK
<1>1. IInv => TypeOK
  BY DEF IInv
<1> QED
  BY <1>1, Invariance, PTL

(* No two groups of a block ever get the same path, however its brackets   *)
(* are nested and mismatched (next_sequence_occurrence).                   *)
THEOREM GroupsNeverShareAPath == Spec => []GroupsAreDistinct
<1>1. IInv => GroupsAreDistinct
  BY DEF IInv
<1> QED
  BY <1>1, Invariance, PTL

(* The path of every field names groups that were opened, each inside the  *)
(* one before (push_field).                                                *)
THEOREM FieldsNameOpenedGroups == Spec => []PathsNameOpenedGroups
<1>1. IInv => PathsNameOpenedGroups
  BY DEF IInv
<1> QED
  BY <1>1, Invariance, PTL

-----------------------------------------------------------------------------
(* The parser's data and the text *)

(* One field is read. *)
LEMMA ReadGrows ==
  ASSUME TypeOK, NEW f \in Field, Read(f)
  PROVE  /\ Grown(text, text', Len(text)) /\ Len(text) \in Nat
         /\ DOMAIN text = 1..Len(text) /\ DOMAIN text' = 1..Len(text')
         /\ Len(text') = Len(text) + 1 /\ text'[Len(text) + 1] = f
         /\ Len(text') \in DOMAIN text' /\ pc = "read" /\ pc' = "read"
<1>1. text \in Seq(Field) /\ f \in Field /\ text' = Append(text, f) /\ pc = "read" /\ pc' = "read"
  BY DEF TypeOK, Read
<1>2. /\ Len(text) \in Nat /\ DOMAIN text = 1..Len(text) /\ DOMAIN text' = 1..(Len(text) + 1)
      /\ \A i \in 1..Len(text) : text'[i] = text[i]
      /\ text'[Len(text) + 1] = f
  BY <1>1, Appended
<1>3. Len(text') = Len(text) + 1
  BY <1>1, AppendProperties
<1>4. Len(text) + 1 \in 1..(Len(text) + 1)
  BY <1>2
<1> QED
  BY <1>1, <1>2, <1>3, <1>4 DEF Grown

(* The openings around the next field. *)
Around == Enclosing(text, Len(text) + 1)

Fits == WellNested(text) /\ WithinDepth(text)

(* What the stack says of the text. *)
LEMMA StackTells ==
  ASSUME TypeOK, stack = PathOf(text, Around)
  PROVE  /\ Around \in SUBSET Nat /\ IsFiniteSet(Around) /\ Around \in SUBSET (1..Len(text))
         /\ Len(stack) = Cardinality(Around) /\ Len(stack) \in Nat
         /\ stack = <<>> <=> Around = {}
         /\ Around # {} => /\ Innermost(Around) \in Around
                           /\ stack[Len(stack)].name = text[Innermost(Around)].name
<1> DEFINE E == Around
           F == {FrameOf(text, i) : i \in E}
<1>1. Len(text) \in Nat
  BY LenProperties DEF TypeOK
<1>2. /\ E \in SUBSET Nat /\ IsFiniteSet(E) /\ E \in SUBSET (1..Len(text))
      /\ \A i \in E : text[i] \in Open
  <2>1. Len(text) + 1 \in Nat /\ (Len(text) + 1) - 1 = Len(text)
    BY <1>1
  <2>2. /\ Enclosing(text, Len(text) + 1) \in SUBSET Nat
        /\ IsFiniteSet(Enclosing(text, Len(text) + 1))
        /\ Enclosing(text, Len(text) + 1) \in SUBSET (1..Len(text))
    BY <2>1, EnclosingType
  <2>3. \A i \in E : text[i] \in Open
    BY DEF Enclosing, Around
  <2> QED
    BY <2>2, <2>3 DEF Around
<1>3. \A i \in E : FrameOf(text, i) \in F
  OBVIOUS
<1> HIDE DEF E, F
<1>4. /\ stack \in Seq(F) /\ Len(stack) = Cardinality(E) /\ Cardinality(E) \in Nat
      /\ \A k \in 1..Cardinality(E) : stack[k] = FrameOf(text, Nth(E, k))
  <2>1. /\ PathOf(text, E) \in Seq(F) /\ Len(PathOf(text, E)) = Cardinality(E)
        /\ Cardinality(E) \in Nat
        /\ \A k \in 1..Cardinality(E) : PathOf(text, E)[k] = FrameOf(text, Nth(E, k))
    BY <1>2, <1>3, PathShape
  <2>2. stack = PathOf(text, E)
    BY DEF E
  <2> QED
    BY <2>1, <2>2
<1>5. stack = <<>> <=> E = {}
  <2>1. stack = <<>> <=> Len(stack) = 0
    BY <1>4, EmptySeq
  <2>2. E = {} <=> Cardinality(E) = 0
    BY <1>2, FS_EmptySet
  <2> QED
    BY <1>4, <2>1, <2>2
<1>6. ASSUME E # {}
      PROVE  Innermost(E) \in E /\ stack[Len(stack)].name = text[Innermost(E)].name
  <2>1. /\ Cardinality(E) \in Nat \ {0} /\ Innermost(E) = Nth(E, Cardinality(E))
        /\ Innermost(E) \in E
    BY <1>2, <1>6, InnermostIsLast
  <2>2. stack[Len(stack)] = FrameOf(text, Innermost(E))
    BY <1>4, <2>1
  <2>3. FrameOf(text, Innermost(E)).name = text[Innermost(E)].name
    BY <1>2, <2>1 DEF FrameOf, GroupName
  <2> QED
    BY <2>1, <2>2, <2>3
<1> QED
  BY <1>2, <1>4, <1>5, <1>6 DEF E

(* The groups that were opened under the stack with this name. *)
Alike(name) ==
  {q \in DOMAIN opened : opened[q].parent = stack /\ opened[q].frame.name = name}

LEMMA AlikeType ==
  ASSUME TypeOK, NEW name
  PROVE  /\ Alike(name) \in SUBSET (1..Len(opened)) /\ DOMAIN opened = 1..Len(opened)
         /\ Len(opened) \in Nat
         /\ IsFiniteSet(Alike(name)) /\ Cardinality(Alike(name)) \in Nat
<1>1. DOMAIN opened = 1..Len(opened) /\ Len(opened) \in Nat
  BY LenProperties DEF TypeOK
<1>2. Alike(name) \in SUBSET (1..Len(opened)) /\ Len(opened) \in Int /\ 1 \in Int
  BY <1>1 DEF Alike
<1> QED
  BY <1>1, <1>2, Between

(* The occurrence that next_sequence_occurrence gives counts them. *)
LEMMA NextCounts ==
  ASSUME TypeOK, CountsAreAhead, CountsAreExact, NEW name
  PROVE  NextOccurrence(stack, name) = Cardinality(Alike(name))
<1> DEFINE key == <<stack, name>>
<1>1. CASE key \in DOMAIN counts
  <2>1. counts[key] = Cardinality({q \in DOMAIN opened :
                          opened[q].parent = key[1] /\ opened[q].frame.name = key[2]})
    BY <1>1 DEF CountsAreExact
  <2> QED
    BY <1>1, <2>1 DEF NextOccurrence, Alike
<1>2. CASE key \notin DOMAIN counts
  <2>1. Alike(name) = {}
    BY <1>2 DEF CountsAreAhead, Alike
  <2> QED
    BY <1>2, <2>1, FS_EmptySet DEF NextOccurrence
<1> QED
  BY <1>1, <1>2

(* The groups opened under the stack are those the text has there. *)
LEMMA AlikeAreSiblings ==
  ASSUME TypeOK, stack = PathOf(text, Around), OpenedFollowsText, NEW name
  PROVE  Cardinality(Alike(name)) =
           Cardinality(Siblings(text, Around, name, Len(text) + 1))
<1> DEFINE n == Len(text)
           S == Begins(text)
           T == Siblings(text, Around, name, n + 1)
<1>1. DOMAIN text = 1..n /\ n \in Nat
  BY LenProperties DEF TypeOK
<1>2. S \in SUBSET (1..n) /\ S \in SUBSET Nat /\ IsFiniteSet(S)
  BY <1>1, BeginsType
<1>3. /\ Alike(name) \in SUBSET (1..Cardinality(S)) /\ DOMAIN opened = 1..Cardinality(S)
  BY AlikeType DEF OpenedFollowsText
<1>4. ASSUME NEW q \in 1..Cardinality(S)
      PROVE  /\ Nth(S, q) \in S
             /\ q \in Alike(name) <=> Nth(S, q) \in T
  <2> DEFINE i == Nth(S, q)
  <2>1. i \in S /\ i \in 1..n
    BY <1>2, NthProperties
  <2>2. /\ opened[q].parent = PathOf(text, Enclosing(text, i))
        /\ opened[q].frame.name = GroupName(text, i)
    BY <1>3 DEF OpenedFollowsText, FrameOf
  <2> HIDE DEF i
  <2>3. PathOf(text, Enclosing(text, i)) = stack <=> Enclosing(text, i) = Around
    <3>1. ASSUME PathOf(text, Enclosing(text, i)) = stack PROVE Enclosing(text, i) = Around
      <4>1. i \in 1..(n + 1) /\ n + 1 \in 1..(n + 1)
        BY <1>1, <2>1
      <4>2. PathOf(text, Enclosing(text, i)) = PathOf(text, Enclosing(text, n + 1))
        BY <3>1 DEF Around
      <4> HIDE DEF n
      <4>3. Enclosing(text, i) = Enclosing(text, n + 1)
        BY <1>1, <4>1, <4>2, PathTells
      <4> QED
        BY <4>3 DEF Around, n
    <3> QED
      BY <3>1
  <2>4. i < n + 1
    BY <1>1, <2>1
  <2>5. i \in T <=> Enclosing(text, i) = Around /\ GroupName(text, i) = name
    BY <2>1, <2>4 DEF Siblings
  <2>6. q \in Alike(name) <=>
          PathOf(text, Enclosing(text, i)) = stack /\ GroupName(text, i) = name
    BY <1>3, <2>2 DEF Alike
  <2> QED
    BY <2>1, <2>3, <2>5, <2>6 DEF i
<1>5. T \in SUBSET S
  BY DEF Siblings
<1> HIDE DEF S, T
<1>6. T = {Nth(S, q) : q \in Alike(name)}
  <2>1. ASSUME NEW i \in T PROVE \E q \in Alike(name) : i = Nth(S, q)
    <3>1. Rank(S, i) + 1 \in 1..Cardinality(S) /\ Nth(S, Rank(S, i) + 1) = i
      BY <1>2, <1>5, NthOfRank
    <3>2. PICK q \in 1..Cardinality(S) : Nth(S, q) = i
      BY <3>1
    <3> QED
      BY <1>4, <3>2
  <2>2. \A q \in Alike(name) : Nth(S, q) \in T
    BY <1>3, <1>4
  <2> QED
    BY <2>1, <2>2
<1> QED
  BY <1>2, <1>3, <1>6, NthBijects DEF T, n

LEMMA BeginCounts ==
  ASSUME TypeOK, CountsAreAhead, CountsAreExact, NEW name \in Name, Begin(name)
  PROVE  CountsAreExact'
<1> DEFINE key == <<stack, name>>
           n == Len(opened)
           Of(groups, k) == {q \in DOMAIN groups :
                               groups[q].parent = k[1] /\ groups[q].frame.name = k[2]}
<1>1. opened \in Seq([parent : Path, frame : Frame]) /\ counts \in [DOMAIN counts -> Nat]
  BY DEF TypeOK
<1>2. /\ DOMAIN opened = 1..n /\ n \in Nat /\ DOMAIN opened' = 1..(n + 1)
      /\ \A q \in 1..n : opened'[q] = opened[q]
      /\ opened'[n + 1].parent = stack /\ opened'[n + 1].frame.name = name
  <2> DEFINE group == [parent |-> stack, frame |-> NextFrame(stack, name)]
  <2>1. opened' = Append(opened, group)
    BY DEF Begin
  <2>2. NextFrame(stack, name) \in Frame /\ stack \in Path
    BY <1>1 DEF NextFrame, NextOccurrence, Frame, TypeOK
  <2>3. group \in [parent : Path, frame : Frame]
    BY <2>2
  <2>4. group.parent = stack /\ group.frame.name = name
    BY DEF NextFrame
  <2> HIDE DEF group
  <2> QED
    BY <1>1, <2>1, <2>3, <2>4, Appended
<1>3. /\ DOMAIN counts' = DOMAIN counts \cup {key}
      /\ counts'[key] = NextOccurrence(stack, name) + 1
      /\ \A k \in DOMAIN counts : k # key => counts'[k] = counts[k]
  BY DEF Begin, Count
<1>4. \A k \in DOMAIN counts : counts[k] = Cardinality(Of(opened, k))
  BY DEF CountsAreExact
<1>5. /\ Of(opened', key) = Of(opened, key) \cup {n + 1}
      /\ n + 1 \notin Of(opened, key)
      /\ \A k : k # key /\ k \in DOMAIN counts => Of(opened', k) = Of(opened, k)
  <2>1. 1..(n + 1) = 1..n \cup {n + 1} /\ n + 1 \notin 1..n
    BY <1>2
  <2>2. Of(opened', key) = Of(opened, key) \cup {n + 1} /\ n + 1 \notin Of(opened, key)
    BY <1>2, <2>1
  <2>3. ASSUME NEW k \in DOMAIN counts, k # key PROVE Of(opened', k) = Of(opened, k)
    <3>1. k \in Path \X Name
      BY DEF TypeOK
    <3>2. k[1] # stack \/ k[2] # name
      BY <2>3, <3>1
    <3> QED
      BY <1>2, <2>1, <3>2
  <2> QED
    BY <2>2, <2>3
<1>6. /\ NextOccurrence(stack, name) = Cardinality(Of(opened, key))
      /\ IsFiniteSet(Of(opened, key)) /\ Cardinality(Of(opened, key)) \in Nat
  <2>1. Of(opened, key) = Alike(name)
    BY DEF Alike
  <2> QED
    BY <2>1, NextCounts, AlikeType
<1> HIDE DEF Of, key, n
<1>7. counts'[key] = Cardinality(Of(opened', key))
  BY <1>3, <1>5, <1>6, FS_AddElement
<1>8. \A k \in DOMAIN counts' : counts'[k] = Cardinality(Of(opened', k))
  BY <1>3, <1>4, <1>5, <1>7
<1> QED
  BY <1>8 DEF CountsAreExact, Of

(* A group that begins where the text says gets the frame that the text    *)
(* gives it.                                                               *)
LEMMA BeginFollows ==
  ASSUME IInv, CountsAreExact, stack = PathOf(text, Around), OpenedFollowsText,
         NEW f \in Field, Read(f), NEW name \in Name, Begin(name),
         f \in Open \/ StartsGroup(text', Len(text')), GroupName(text', Len(text')) = name
  PROVE  NextFrame(stack, name) = FrameOf(text', Len(text')) /\ OpenedFollowsText'
<1> DEFINE n == Len(text)
           c == Cardinality(Begins(text))
<1>0. TypeOK /\ CountsAreAhead
  BY DEF IInv
<1>1. /\ Grown(text, text', n) /\ n \in Nat /\ DOMAIN text = 1..n
      /\ Len(text') = n + 1 /\ text'[n + 1] = f
  BY <1>0, ReadGrows
<1>2. Enclosing(text', n + 1) = Around
  <2>1. n + 1 \in 0..(n + 1)
    BY <1>1
  <2> HIDE DEF n
  <2>2. Enclosing(text', n + 1) = Enclosing(text, n + 1)
    BY <1>1, <2>1, KeptEnclosing
  <2> QED
    BY <2>2 DEF Around, n
<1>3. NextOccurrence(stack, name) = Cardinality(Siblings(text, Around, name, n + 1))
  BY <1>0, NextCounts, AlikeAreSiblings
<1>4. Occurrence(text', n + 1) = NextOccurrence(stack, name)
  <2>1. Occurrence(text', n + 1) = Cardinality(Siblings(text', Around, name, n + 1))
    BY <1>1, <1>2, OccurrenceOf
  <2>2. Siblings(text', Around, name, n + 1) = Siblings(text, Around, name, n + 1)
    <3>1. n + 1 \in 1..(n + 1)
      BY <1>1
    <3> HIDE DEF n
    <3> QED
      BY <1>1, <3>1, KeptSiblings
  <2> QED
    BY <1>3, <2>1, <2>2
<1>5. NextFrame(stack, name) = FrameOf(text', Len(text'))
  BY <1>1, <1>4 DEF NextFrame, FrameOf
<1>6. Begins(text') = Begins(text) \cup {n + 1}
  <2> HIDE DEF n
  <2> QED
    BY <1>1, BeginsGrow
<1>7. Begins(text) \in SUBSET (1..n) /\ Begins(text) \in SUBSET Nat /\ IsFiniteSet(Begins(text))
  <2> HIDE DEF n
  <2> QED
    BY <1>1, BeginsType
<1>8. /\ c \in Nat /\ Cardinality(Begins(text')) = c + 1
      /\ \A q \in 1..c : Nth(Begins(text'), q) = Nth(Begins(text), q)
      /\ Nth(Begins(text'), c + 1) = n + 1
  <2>1. n + 1 \in Nat /\ \A m \in Begins(text) : m < n + 1
    BY <1>1, <1>7
  <2> DEFINE S == Begins(text)
             x == n + 1
  <2>2. S \in SUBSET Nat /\ IsFiniteSet(S) /\ x \in Nat /\ \A m \in S : m < x
    BY <1>7, <2>1
  <2> HIDE DEF S, x
  <2>3. /\ Cardinality(S) \in Nat /\ Cardinality(S \cup {x}) = Cardinality(S) + 1
        /\ \A q \in 1..Cardinality(S) : Nth(S \cup {x}, q) = Nth(S, q)
        /\ Nth(S \cup {x}, Cardinality(S) + 1) = x
    BY <2>2, NthOfMore
  <2> QED
    BY <1>6, <2>3 DEF S, x
<1>9. /\ Len(opened') = c + 1 /\ DOMAIN opened' = 1..(c + 1)
      /\ \A q \in 1..c : opened'[q] = opened[q]
      /\ opened'[c + 1] = [parent |-> stack, frame |-> NextFrame(stack, name)]
  <2> DEFINE group == [parent |-> stack, frame |-> NextFrame(stack, name)]
  <2>1. opened \in Seq([parent : Path, frame : Frame]) /\ opened' = Append(opened, group)
    BY <1>0 DEF TypeOK, Begin
  <2>2. NextFrame(stack, name) \in Frame /\ stack \in Path
    BY <1>0 DEF NextFrame, NextOccurrence, Frame, TypeOK
  <2>3. group \in [parent : Path, frame : Frame]
    BY <2>2
  <2>4. Len(opened) = c
    BY DEF OpenedFollowsText
  <2> HIDE DEF group, c
  <2>5. Len(opened') = c + 1
    BY <2>1, <2>3, <2>4, AppendProperties
  <2>6. /\ DOMAIN opened' = 1..(c + 1) /\ DOMAIN opened = 1..c
        /\ \A q \in DOMAIN opened : opened'[q] = opened[q]
        /\ opened'[c + 1] = group
    BY <2>1, <2>3, <2>4, Appended
  <2> QED
    BY <2>5, <2>6 DEF group
<1>10. ASSUME NEW q \in 1..(c + 1)
       PROVE  opened'[q] = [parent |-> PathOf(text', Enclosing(text', Nth(Begins(text'), q))),
                            frame  |-> FrameOf(text', Nth(Begins(text'), q))]
  <2>1. CASE q = c + 1
    <3>1. PathOf(text', Enclosing(text', n + 1)) = stack
      <4>1. n + 1 \in 0..(n + 1)
        BY <1>1
      <4> HIDE DEF n
      <4>2. PathOf(text', Enclosing(text', n + 1)) = PathOf(text, Enclosing(text, n + 1))
        BY <1>1, <4>1, KeptEnclosingPath
      <4> QED
        BY <4>2 DEF Around, n
    <3> QED
      BY <1>1, <1>5, <1>8, <1>9, <2>1, <3>1
  <2>2. CASE q # c + 1
    <3> DEFINE i == Nth(Begins(text), q)
    <3>1. q \in 1..c
      BY <1>8, <2>2
    <3>2. i \in 1..n
      BY <1>7, <3>1, NthProperties
    <3>3. opened[q] = [parent |-> PathOf(text, Enclosing(text, i)), frame |-> FrameOf(text, i)]
      <4>1. q \in DOMAIN opened
        BY <1>0, <3>1, AlikeType DEF OpenedFollowsText
      <4> QED
        BY <4>1 DEF OpenedFollowsText
    <3>4. Nth(Begins(text'), q) = i /\ opened'[q] = opened[q]
      BY <1>8, <1>9, <3>1
    <3> HIDE DEF i
    <3>5. /\ PathOf(text', Enclosing(text', i)) = PathOf(text, Enclosing(text, i))
          /\ FrameOf(text', i) = FrameOf(text, i)
      <4>1. i \in 0..(n + 1)
        BY <1>1, <3>2
      <4> HIDE DEF n
      <4> QED
        BY <1>1, <3>2, <4>1, KeptEnclosingPath, KeptFrame
    <3> QED
      BY <3>3, <3>4, <3>5
  <2> QED
    BY <2>1, <2>2
<1>11. OpenedFollowsText'
  BY <1>8, <1>9, <1>10 DEF OpenedFollowsText
<1> QED
  BY <1>5, <1>11

(* Where no group begins the groups are the same. *)
LEMMA NoneBegins ==
  ASSUME TypeOK, OpenedFollowsText, NEW f \in Field, Read(f), opened' = opened,
         ~(f \in Open \/ StartsGroup(text', Len(text')))
  PROVE  OpenedFollowsText'
<1> DEFINE n == Len(text)
           c == Cardinality(Begins(text))
<1>1. /\ Grown(text, text', n) /\ n \in Nat /\ DOMAIN text = 1..n
      /\ Len(text') = n + 1 /\ text'[n + 1] = f
  BY ReadGrows
<1> HIDE DEF n
<1>2. Begins(text') = Begins(text)
  BY <1>1, BeginsGrow
<1>3. Begins(text) \in SUBSET (1..n) /\ Begins(text) \in SUBSET Nat /\ IsFiniteSet(Begins(text))
  BY <1>1, BeginsType
<1>4. DOMAIN opened = 1..c /\ Len(opened) = c
  BY AlikeType DEF OpenedFollowsText
<1>5. ASSUME NEW q \in 1..c
      PROVE  opened[q] = [parent |-> PathOf(text', Enclosing(text', Nth(Begins(text), q))),
                          frame  |-> FrameOf(text', Nth(Begins(text), q))]
  <2> DEFINE i == Nth(Begins(text), q)
  <2>1. i \in 1..n
    BY <1>3, NthProperties
  <2>2. opened[q] = [parent |-> PathOf(text, Enclosing(text, i)), frame |-> FrameOf(text, i)]
    BY <1>4 DEF OpenedFollowsText
  <2> HIDE DEF i
  <2>3. i \in 0..(n + 1)
    BY <1>1, <2>1
  <2>4. /\ PathOf(text', Enclosing(text', i)) = PathOf(text, Enclosing(text, i))
        /\ FrameOf(text', i) = FrameOf(text, i)
    BY <1>1, <2>1, <2>3, KeptEnclosingPath, KeptFrame
  <2> QED
    BY <2>2, <2>4 DEF i
<1> QED
  BY <1>2, <1>4, <1>5 DEF OpenedFollowsText

(* In a text without fault the fields, the stack, the anchored group and   *)
(* the groups are those of the text.                                       *)
Follows ==
  /\ Len(fields) = Len(text)
  /\ \A j \in DOMAIN text : fields[j] = [field |-> text[j], path |-> FieldPath(text, j)]
  /\ stack = PathOf(text, Around)
  /\ AnchorFollowsText
  /\ OpenedFollowsText

LEMMA PushFollows ==
  ASSUME TypeOK, Follows, NEW f \in Field, Read(f), NEW path \in Path, Push(f, path),
         path = FieldPath(text', Len(text'))
  PROVE  /\ Len(fields') = Len(text')
         /\ \A j \in DOMAIN text' :
              fields'[j] = [field |-> text'[j], path |-> FieldPath(text', j)]
<1> DEFINE n == Len(text)
           e == [field |-> f, path |-> path]
<1>1. /\ Grown(text, text', n) /\ n \in Nat /\ DOMAIN text = 1..n /\ DOMAIN text' = 1..Len(text')
      /\ Len(text') = n + 1 /\ text'[n + 1] = f
  BY ReadGrows
<1>2. /\ fields \in Seq([field : Field, path : Path]) /\ e \in [field : Field, path : Path]
      /\ fields' = Append(fields, e) /\ Len(fields) = n
  BY DEF TypeOK, Push, Follows
<1> HIDE DEF e
<1>3. Len(fields') = n + 1
  BY <1>2, AppendProperties
<1>4. /\ DOMAIN fields = 1..n /\ \A j \in 1..n : fields'[j] = fields[j]
      /\ fields'[n + 1] = e
  BY <1>2, Appended
<1>5. \A j \in 1..n : fields[j] = [field |-> text[j], path |-> FieldPath(text, j)]
  BY <1>1 DEF Follows
<1>6. \A j \in 1..n : text'[j] = text[j] /\ FieldPath(text', j) = FieldPath(text, j)
  <2> HIDE DEF n
  <2> QED
    BY <1>1, KeptFieldPath DEF Grown
<1>7. \A j \in 1..n : fields'[j] = [field |-> text'[j], path |-> FieldPath(text', j)]
  BY <1>4, <1>5, <1>6
<1>8. fields'[n + 1] = [field |-> text'[n + 1], path |-> FieldPath(text', n + 1)]
  BY <1>1, <1>4 DEF e
<1>9. \A j \in DOMAIN text' : j \in 1..n \/ j = n + 1
  BY <1>1
<1> QED
  BY <1>1, <1>3, <1>7, <1>8, <1>9

(* The openings around the field that is read, and after it. *)
LEMMA NextAround ==
  ASSUME TypeOK, stack = PathOf(text, Around), NEW f \in Field, Read(f)
  PROVE  /\ Enclosing(text', Len(text')) = Around /\ PathOf(text', Around) = stack
         /\ f \in Open => Around' = Around \cup {Len(text')}
                       /\ PathOf(text', Around') = Append(stack, FrameOf(text', Len(text')))
         /\ f \in Close /\ Around # {} =>
              PathOf(text', Around') = SubSeq(stack, 1, Len(stack) - 1)
         /\ f \in Plain => Around' = Around /\ PathOf(text', Around') = stack
<1> DEFINE n == Len(text)
           j == n + 1
           E == Around
<1>1. /\ Grown(text, text', n) /\ n \in Nat /\ Len(text') = j /\ text'[j] = f
  BY ReadGrows
<1>2. /\ E \in SUBSET Nat /\ IsFiniteSet(E) /\ E \in SUBSET (1..n)
      /\ Len(stack) = Cardinality(E)
  BY StackTells
<1>3. Enclosing(text', j) = E
  <2>1. j \in 0..(n + 1)
    BY <1>1
  <2> HIDE DEF n, j
  <2>2. Enclosing(text', j) = Enclosing(text, j)
    BY <1>1, <2>1, KeptEnclosing
  <2> QED
    BY <2>2 DEF Around, j, n
<1>4. PathOf(text', E) = stack
  <2> HIDE DEF n, E
  <2>1. PathOf(text', E) = PathOf(text, E)
    BY <1>1, <1>2, KeptPath
  <2> QED
    BY <2>1 DEF E
<1>5. Around' = Enclosing(text', j + 1)
  BY <1>1 DEF Around
<1>6. j \in Nat \ {0} /\ j \in Nat /\ \A m \in E : m < j
  BY <1>1, <1>2
<1> HIDE DEF n, j, E
<1>7. CASE f \in Open
  <2>1. Around' = E \cup {j}
    BY <1>1, <1>3, <1>5, <1>6, <1>7, AroundTheNext
  <2>2. PathOf(text', E \cup {j}) = Append(PathOf(text', E), FrameOf(text', j))
    BY <1>2, <1>6, PathOfMore
  <2>3. f \notin Close /\ f \notin Plain
    BY <1>7, Kinds
  <2>4. PathOf(text', Around') = Append(stack, FrameOf(text', Len(text')))
    BY <1>1, <1>4, <2>1, <2>2
  <2> QED
    BY <1>1, <1>3, <1>4, <2>1, <2>3, <2>4 DEF E
<1>8. CASE f \in Close
  <2>1. f \notin Open /\ f \notin Plain
    BY <1>8, Kinds
  <2>2. ASSUME E # {} PROVE PathOf(text', Around') = SubSeq(stack, 1, Len(stack) - 1)
    <3> DEFINE x == Innermost(E)
               B == Around'
    <3>1. B = {m \in E : m < x} /\ Cardinality(B) = Cardinality(E) - 1
      BY <1>1, <1>3, <1>5, <1>6, <1>8, <2>2, AroundAfterAnEnd
    <3>2. x \in Nat
      BY <1>2, <2>2, InnermostIsLast
    <3> HIDE DEF x, B
    <3>3. PathOf(text', B) = SubSeq(PathOf(text', E), 1, Cardinality(B))
      BY <1>2, <3>1, <3>2, PathOfPart
    <3> QED
      BY <1>2, <1>4, <3>1, <3>3 DEF B
  <2> QED
    BY <1>1, <1>3, <1>4, <2>1, <2>2 DEF E
<1>9. CASE f \in Plain
  <2>1. f \notin Open /\ f \notin Close
    BY <1>9, Kinds
  <2>2. Around' = E
    BY <1>1, <1>3, <1>5, <1>6, <2>1, AroundTheNext
  <2> QED
    BY <1>1, <1>3, <1>4, <2>1, <2>2 DEF E
<1> QED
  BY <1>7, <1>8, <1>9 DEF Field

(* The path of the field that is read. *)
LEMMA NextPath ==
  ASSUME TypeOK, stack = PathOf(text, Around), NEW f \in Field, Read(f)
  PROVE  /\ GroupStart(text', Len(text')) = {} => FieldPath(text', Len(text')) = stack
         /\ \A i \in Nat : stack = <<>> /\ GroupStart(text', Len(text')) = {i} =>
              FieldPath(text', Len(text')) = <<FrameOf(text', i)>>
<1>1. Enclosing(text', Len(text')) = Around /\ PathOf(text', Around) = stack
  BY NextAround
<1>2. FieldPath(text', Len(text')) = PathOf(text', Around \cup GroupStart(text', Len(text')))
  BY <1>1 DEF FieldPath
<1>3. GroupStart(text', Len(text')) = {} => FieldPath(text', Len(text')) = stack
  <2>1. Around \cup {} = Around
    OBVIOUS
  <2> QED
    BY <1>1, <1>2, <2>1
<1>4. ASSUME NEW i \in Nat, stack = <<>>, GroupStart(text', Len(text')) = {i}
      PROVE  FieldPath(text', Len(text')) = <<FrameOf(text', i)>>
  <2>1. Around = {}
    BY <1>4, StackTells
  <2>2. Around \cup GroupStart(text', Len(text')) = {i}
    BY <1>4, <2>1
  <2>3. PathOf(text', {i}) = <<FrameOf(text', i)>>
    BY PathOfOne
  <2> QED
    BY <1>2, <2>2, <2>3
<1> QED
  BY <1>3, <1>4

(* The group that is open goes on exactly with its members. *)
LEMMA GroupGoesOn ==
  ASSUME TypeOK, AnchorIsAtRoot, Follows, NEW f \in Field, Read(f),
         ~StartsGroup(text', Len(text'))
  PROVE  /\ f \notin Plain => GroupStart(text', Len(text')) = {}
         /\ f \in Plain /\ ~IsMember(f) => GroupStart(text', Len(text')) = {}
         /\ f \in Plain /\ IsMember(f) =>
              \E i \in 1..Len(text) :
                /\ GroupStart(text', Len(text')) = {i}
                /\ openAnchor = [anchor     |-> AnchorOf(text'[i].tag),
                                 occurrence |-> Occurrence(text', i)]
                /\ GroupName(text', i) = Anchored[AnchorOf(text'[i].tag)].name
<1> DEFINE n == Len(text)
           G == GroupStart(text, n)
           N == GroupStart(text', Len(text'))
<1>1. /\ Grown(text, text', n) /\ n \in Nat /\ Len(text') = n + 1 /\ text'[n + 1] = f
  BY ReadGrows
<1>2. stack = PathOf(text, Around)
  BY DEF Follows
<1>3. Enclosing(text', Len(text')) = Around /\ (stack = <<>> <=> Around = {})
  BY <1>2, NextAround, StackTells
<1>4. N = {i \in G : /\ Around = {} /\ f \in Plain /\ ~IsAnchor(f.tag)
                     /\ f.tag \in Anchored[AnchorOf(text[i].tag)].members}
  <2> HIDE DEF n
  <2>1. GroupStart(text', n + 1) =
          {i \in GroupStart(text, n) :
             /\ Enclosing(text', n + 1) = {}
             /\ text'[n + 1] \in Plain /\ ~IsAnchor(text'[n + 1].tag)
             /\ text'[n + 1].tag \in Anchored[AnchorOf(text[i].tag)].members}
    BY <1>1, NextGroupStart
  <2> QED
    BY <1>1, <1>3, <2>1
<1>5. /\ openAnchor = NoAnchor => G = {}
      /\ openAnchor # NoAnchor =>
           \E i \in G : G = {i} /\ openAnchor = [anchor     |-> AnchorOf(text[i].tag),
                                                 occurrence |-> Occurrence(text, i)]
  BY DEF Follows, AnchorFollowsText
<1>6. f \notin Plain => N = {}
  BY <1>4
<1>7. ASSUME ~IsMember(f), NEW i \in N PROVE FALSE
  <2>1. /\ i \in G /\ Around = {} /\ ~IsAnchor(f.tag)
        /\ f.tag \in Anchored[AnchorOf(text[i].tag)].members
    BY <1>4, <1>7
  <2>2. openAnchor # NoAnchor /\ openAnchor.anchor = AnchorOf(text[i].tag)
    BY <1>5, <2>1
  <2> QED
    BY <1>3, <1>7, <2>1, <2>2 DEF IsMember
<1>8. ASSUME f \in Plain, IsMember(f)
      PROVE  \E i \in 1..n :
                /\ N = {i}
                /\ openAnchor = [anchor     |-> AnchorOf(text'[i].tag),
                                 occurrence |-> Occurrence(text', i)]
                /\ GroupName(text', i) = Anchored[AnchorOf(text'[i].tag)].name
  <2>1. /\ stack = <<>> /\ ~IsAnchor(f.tag)
        /\ openAnchor # NoAnchor /\ f.tag \in Anchored[openAnchor.anchor].members
    BY <1>8 DEF IsMember
  <2>2. PICK i \in G : G = {i} /\ openAnchor = [anchor     |-> AnchorOf(text[i].tag),
                                                occurrence |-> Occurrence(text, i)]
    BY <1>5, <2>1
  <2>3. i \in 1..n /\ StartsGroup(text, i)
    BY <2>2 DEF GroupStart
  <2>4. N = {i}
    <3>1. f.tag \in Anchored[AnchorOf(text[i].tag)].members
      BY <2>1, <2>2
    <3> QED
      BY <1>3, <1>4, <1>8, <2>1, <2>2, <3>1
  <2>5. text'[i] = text[i] /\ Occurrence(text', i) = Occurrence(text, i)
    <3> HIDE DEF n, N, G
    <3> QED
      BY <1>1, <2>3, KeptFrame, KeptStarts
  <2>6. GroupName(text', i) = Anchored[AnchorOf(text'[i].tag)].name
    <3>1. text'[i] \notin Open
      BY <2>3, <2>5, Kinds DEF StartsGroup
    <3> QED
      BY <3>1 DEF GroupName
  <2> QED
    BY <2>2, <2>3, <2>4, <2>5, <2>6
<1> QED
  BY <1>6, <1>7, <1>8

(* The anchor that is found is the one the text means. *)
LEMMA FirstAnchor ==
  ASSUME NEW i \in DOMAIN Anchored, NEW tag, IsAnchorOf(i, tag)
  PROVE  IsAnchor(tag) /\ AnchorOf(tag) = i
<1>1. Len(Anchored) \in Nat /\ DOMAIN Anchored = 1..Len(Anchored)
  BY AnchoredAssumption, LenProperties
<1>2. ASSUME NEW k \in DOMAIN Anchored, IsAnchorOf(k, tag) PROVE k = i
  <2>1. ~(k < i) /\ ~(i < k)
    BY <1>1, <1>2 DEF IsAnchorOf
  <2> QED
    BY <1>1, <2>1
<1>3. AnchorOf(tag) = i
  BY <1>2 DEF AnchorOf
<1>4. IsAnchor(tag)
  BY DEF IsAnchor, IsAnchorOf
<1> QED
  BY <1>3, <1>4

LEMMA OpenSequenceFollows ==
  ASSUME IInv, CountsAreExact, AnchorIsAtRoot, Follows, NEW f \in Open, OpenSequence(f)
  PROVE  Follows' /\ EndsFit(text', Len(text')) /\ DepthFits(text', Len(text'))
<1>0. /\ TypeOK /\ stack = PathOf(text, Around) /\ OpenedFollowsText
      /\ stack \in Path /\ f \in Field /\ f.name \in Name /\ f \notin Plain /\ f \notin Close
  BY Kinds DEF IInv, TypeOK, Follows, Open, Field
<1>1. /\ Read(f) /\ Len(stack) < MaxDepth /\ DropAnchor /\ Push(f, stack) /\ Begin(f.name)
      /\ stack' = Append(stack, NextFrame(stack, f.name))
  BY DEF OpenSequence
<1>2. text'[Len(text')] = f
  BY <1>0, <1>1, ReadGrows
<1>3. ~StartsGroup(text', Len(text')) /\ GroupName(text', Len(text')) = f.name
  BY <1>0, <1>2 DEF StartsGroup, GroupName
<1>4. GroupStart(text', Len(text')) = {}
  BY <1>0, <1>1, <1>3, GroupGoesOn
<1>5. openAnchor' = NoAnchor
  BY <1>1 DEF DropAnchor, AnchorIsAtRoot
<1>6. AnchorFollowsText'
  BY <1>4, <1>5 DEF AnchorFollowsText
<1>7. FieldPath(text', Len(text')) = stack
  BY <1>0, <1>1, <1>4, NextPath
<1>8. /\ Len(fields') = Len(text')
      /\ \A j \in DOMAIN text' :
           fields'[j] = [field |-> text'[j], path |-> FieldPath(text', j)]
  BY <1>0, <1>1, <1>7, PushFollows
<1>9. NextFrame(stack, f.name) = FrameOf(text', Len(text')) /\ OpenedFollowsText'
  BY <1>0, <1>1, <1>3, BeginFollows
<1>10. stack' = PathOf(text', Around')
  BY <1>0, <1>1, <1>9, NextAround
<1>11. Follows'
  BY <1>6, <1>8, <1>9, <1>10 DEF Follows
<1>12. Enclosing(text', Len(text')) = Around /\ Len(stack) = Cardinality(Around)
  BY <1>0, <1>1, NextAround, StackTells
<1> QED
  BY <1>0, <1>1, <1>2, <1>11, <1>12 DEF EndsFit, DepthFits

LEMMA TooDeepIsExact ==
  ASSUME IInv, Follows, NEW f \in Open, TooDeep(f)
  PROVE  ~DepthFits(text', Len(text'))
<1>0. TypeOK /\ stack = PathOf(text, Around) /\ f \in Field
  BY DEF IInv, Follows, Field
<1>1. Read(f) /\ Len(stack) >= MaxDepth
  BY DEF TooDeep
<1>2. text'[Len(text')] = f
  BY <1>0, <1>1, ReadGrows
<1>3. /\ Enclosing(text', Len(text')) = Around
      /\ Len(stack) = Cardinality(Around) /\ Len(stack) \in Nat
  BY <1>0, <1>1, NextAround, StackTells
<1>4. ~(Cardinality(Around) < MaxDepth)
  BY <1>1, <1>3, DepthAssumption
<1> QED
  BY <1>2, <1>3, <1>4 DEF DepthFits

(* An end fits if it closes the top of the stack. *)
LEMMA EndsFitTheStack ==
  ASSUME TypeOK, stack = PathOf(text, Around), NEW f \in Close, Read(f)
  PROVE  EndsFit(text', Len(text')) <=> ClosesTop(f)
<1>0. f \in Field
  BY DEF Field
<1>1. /\ Grown(text, text', Len(text)) /\ text'[Len(text')] = f
  BY <1>0, ReadGrows
<1>2. Enclosing(text', Len(text')) = Around
  BY <1>0, NextAround
<1>3. /\ Around \in SUBSET (1..Len(text))
      /\ stack = <<>> <=> Around = {}
      /\ Around # {} => /\ Innermost(Around) \in Around
                        /\ stack[Len(stack)].name = text[Innermost(Around)].name
  BY StackTells
<1>4. Around # {} => text'[Innermost(Around)] = text[Innermost(Around)]
  BY <1>1, <1>3 DEF Grown
<1> QED
  BY <1>1, <1>2, <1>3, <1>4 DEF EndsFit, ClosesTop

LEMMA CloseSequenceFollows ==
  ASSUME IInv, AnchorIsAtRoot, Follows, NEW f \in Close, CloseSequence(f)
  PROVE  Follows' /\ EndsFit(text', Len(text')) /\ DepthFits(text', Len(text'))
<1>0. /\ TypeOK /\ stack = PathOf(text, Around) /\ OpenedFollowsText
      /\ stack \in Path /\ f \in Field /\ f \notin Plain /\ f \notin Open
  BY Kinds DEF IInv, TypeOK, Follows, Field
<1>1. /\ Read(f) /\ ClosesTop(f) /\ Push(f, stack) /\ stack # <<>>
      /\ stack' = SubSeq(stack, 1, Len(stack) - 1)
      /\ openAnchor' = openAnchor /\ opened' = opened
  BY DEF CloseSequence, ClosesTop
<1>2. text'[Len(text')] = f
  BY <1>0, <1>1, ReadGrows
<1>3. ~StartsGroup(text', Len(text'))
  BY <1>0, <1>2 DEF StartsGroup
<1>4. GroupStart(text', Len(text')) = {}
  BY <1>0, <1>1, <1>3, GroupGoesOn
<1>5. AnchorFollowsText'
  <2>1. openAnchor' = NoAnchor
    BY <1>1 DEF AnchorIsAtRoot
  <2> QED
    BY <1>4, <2>1 DEF AnchorFollowsText
<1>6. FieldPath(text', Len(text')) = stack
  BY <1>0, <1>1, <1>4, NextPath
<1>7. /\ Len(fields') = Len(text')
      /\ \A j \in DOMAIN text' :
           fields'[j] = [field |-> text'[j], path |-> FieldPath(text', j)]
  BY <1>0, <1>1, <1>6, PushFollows
<1>8. OpenedFollowsText'
  BY <1>0, <1>1, <1>3, NoneBegins
<1>9. stack' = PathOf(text', Around')
  <2>1. Around # {}
    BY <1>0, <1>1, StackTells
  <2> QED
    BY <1>0, <1>1, <2>1, NextAround
<1>10. Follows'
  BY <1>5, <1>7, <1>8, <1>9 DEF Follows
<1>11. EndsFit(text', Len(text'))
  BY <1>0, <1>1, EndsFitTheStack
<1> QED
  BY <1>0, <1>2, <1>10, <1>11 DEF DepthFits

LEMMA MismatchedEndIsExact ==
  ASSUME IInv, Follows, NEW f \in Close, MismatchedEnd(f)
  PROVE  ~EndsFit(text', Len(text'))
<1>1. TypeOK /\ stack = PathOf(text, Around) /\ Read(f) /\ ~ClosesTop(f)
  BY DEF IInv, Follows, MismatchedEnd
<1> QED
  BY <1>1, EndsFitTheStack

LEMMA StartGroupFollows ==
  ASSUME IInv, CountsAreExact, Follows, NEW f \in Plain, StartGroup(f)
  PROVE  Follows' /\ EndsFit(text', Len(text')) /\ DepthFits(text', Len(text'))
<1>0. /\ TypeOK /\ stack = PathOf(text, Around) /\ OpenedFollowsText
      /\ stack \in Path /\ f \in Field /\ f \notin Open /\ f \notin Close
  BY Kinds DEF IInv, TypeOK, Follows, Field
<1>1. Read(f) /\ stack = <<>> /\ stack' = stack
  BY DEF StartGroup
<1>2. PICK i \in DOMAIN Anchored :
        /\ IsAnchorOf(i, f.tag)
        /\ Begin(Anchored[i].name)
        /\ openAnchor' = [anchor |-> i, occurrence |-> NextFrame(stack, Anchored[i].name).occurrence]
        /\ Push(f, <<NextFrame(stack, Anchored[i].name)>>)
  BY DEF StartGroup
<1> DEFINE name == Anchored[i].name
           fr == NextFrame(stack, name)
           m == Len(text')
<1>3. name \in Name /\ IsAnchor(f.tag) /\ AnchorOf(f.tag) = i
  BY <1>2, Declared, FirstAnchor
<1>4. Grown(text, text', Len(text)) /\ text'[m] = f /\ m = Len(text) + 1 /\ m \in Nat
  BY <1>0, <1>1, ReadGrows
<1>5. Enclosing(text', m) = {} /\ Around = {}
  BY <1>0, <1>1, NextAround, StackTells
<1>6. StartsGroup(text', m) /\ GroupName(text', m) = name
  BY <1>0, <1>3, <1>4, <1>5 DEF StartsGroup, GroupName
<1>7. GroupStart(text', m) = {m}
  BY <1>4, <1>6, NextGroupStart
<1>8. fr = FrameOf(text', m) /\ OpenedFollowsText'
  <2> HIDE DEF name
  <2> QED
    BY <1>0, <1>1, <1>2, <1>3, <1>6, BeginFollows DEF name
<1>9. AnchorFollowsText'
  <2>1. openAnchor' = [anchor |-> AnchorOf(text'[m].tag), occurrence |-> Occurrence(text', m)]
    <3>1. fr.occurrence = Occurrence(text', m)
      BY <1>8 DEF FrameOf
    <3> QED
      BY <1>2, <1>3, <1>4, <3>1
  <2>2. openAnchor' # NoAnchor
    <3>1. i # 0 /\ openAnchor'.anchor = i
      <4>1. DOMAIN Anchored = 1..Len(Anchored)
        BY AnchoredAssumption, LenProperties
      <4>2. i # 0
        BY <4>1
      <4> QED
        BY <1>2, <4>2
    <3> QED
      BY <3>1 DEF NoAnchor
  <2> QED
    BY <1>7, <2>1, <2>2 DEF AnchorFollowsText
<1>10. FieldPath(text', m) = <<fr>>
  BY <1>0, <1>1, <1>4, <1>7, <1>8, NextPath
<1>11. <<fr>> \in Path
  <2>1. fr \in Frame
    BY <1>0, <1>3 DEF NextFrame, NextOccurrence, Frame, TypeOK
  <2> QED
    BY <2>1 DEF Path
<1>12. /\ Len(fields') = Len(text')
       /\ \A j \in DOMAIN text' :
            fields'[j] = [field |-> text'[j], path |-> FieldPath(text', j)]
  <2> HIDE DEF fr, name
  <2>1. Push(f, <<fr>>)
    BY <1>2 DEF fr, name
  <2> QED
    BY <1>0, <1>1, <1>10, <1>11, <2>1, PushFollows
<1>13. stack' = PathOf(text', Around')
  BY <1>0, <1>1, NextAround
<1>14. Follows'
  BY <1>8, <1>9, <1>12, <1>13 DEF Follows
<1> QED
  BY <1>0, <1>4, <1>14 DEF EndsFit, DepthFits

LEMMA ContinueGroupFollows ==
  ASSUME IInv, AnchorIsAtRoot, Follows, NEW f \in Plain, ContinueGroup(f)
  PROVE  Follows' /\ EndsFit(text', Len(text')) /\ DepthFits(text', Len(text'))
<1>0. /\ TypeOK /\ stack = PathOf(text, Around) /\ OpenedFollowsText
      /\ f \in Field /\ f \notin Open /\ f \notin Close
  BY Kinds DEF IInv, Follows, Field
<1>1. /\ Read(f) /\ IsMember(f) /\ Push(f, <<AnchorFrame>>)
      /\ stack' = stack /\ openAnchor' = openAnchor /\ opened' = opened
      /\ stack = <<>> /\ ~IsAnchor(f.tag) /\ openAnchor # NoAnchor
  BY DEF ContinueGroup, IsMember
<1> DEFINE m == Len(text')
<1>2. text'[m] = f /\ Len(text) \in Nat
  BY <1>0, <1>1, ReadGrows
<1>3. ~StartsGroup(text', m)
  BY <1>1, <1>2 DEF StartsGroup
<1>4. PICK i \in 1..Len(text) :
        /\ GroupStart(text', m) = {i}
        /\ openAnchor = [anchor     |-> AnchorOf(text'[i].tag),
                         occurrence |-> Occurrence(text', i)]
        /\ GroupName(text', i) = Anchored[AnchorOf(text'[i].tag)].name
  BY <1>0, <1>1, <1>3, GroupGoesOn
<1>5. AnchorFrame = FrameOf(text', i)
  BY <1>4 DEF AnchorFrame, FrameOf
<1>6. FieldPath(text', m) = <<AnchorFrame>>
  BY <1>0, <1>1, <1>4, <1>5, NextPath
<1>7. <<AnchorFrame>> \in Path
  <2>1. openAnchor \in [anchor : DOMAIN Anchored, occurrence : Nat]
    BY <1>0, <1>1 DEF TypeOK, OpenAnchor
  <2>2. Anchored[openAnchor.anchor] \in [name : Name, anchor : Tag, members : SUBSET Tag]
    BY <2>1, Declared
  <2>3. AnchorFrame \in Frame
    BY <2>1, <2>2 DEF AnchorFrame, Frame
  <2> QED
    BY <2>3 DEF Path
<1>8. /\ Len(fields') = Len(text')
      /\ \A j \in DOMAIN text' :
           fields'[j] = [field |-> text'[j], path |-> FieldPath(text', j)]
  BY <1>0, <1>1, <1>6, <1>7, PushFollows
<1>9. AnchorFollowsText'
  BY <1>1, <1>4 DEF AnchorFollowsText
<1>10. OpenedFollowsText'
  BY <1>0, <1>1, <1>3, NoneBegins
<1>11. stack' = PathOf(text', Around')
  BY <1>0, <1>1, NextAround
<1>12. Follows'
  BY <1>8, <1>9, <1>10, <1>11 DEF Follows
<1> QED
  BY <1>0, <1>2, <1>12 DEF EndsFit, DepthFits

LEMMA PlainFieldFollows ==
  ASSUME IInv, AnchorIsAtRoot, Follows, NEW f \in Plain, PlainField(f)
  PROVE  Follows' /\ EndsFit(text', Len(text')) /\ DepthFits(text', Len(text'))
<1>0. /\ TypeOK /\ stack = PathOf(text, Around) /\ OpenedFollowsText /\ stack \in Path
      /\ f \in Field /\ f \notin Open /\ f \notin Close
  BY Kinds DEF IInv, TypeOK, Follows, Field
<1>1. /\ Read(f) /\ ~IsMember(f) /\ DropAnchor /\ Push(f, stack)
      /\ stack = <<>> => ~IsAnchor(f.tag)
      /\ stack' = stack /\ opened' = opened
  BY DEF PlainField
<1> DEFINE m == Len(text')
<1>2. text'[m] = f
  BY <1>0, <1>1, ReadGrows
<1>3. ~StartsGroup(text', m)
  <2>1. Enclosing(text', m) = {} => stack = <<>>
    BY <1>0, <1>1, NextAround, StackTells
  <2> QED
    BY <1>1, <1>2, <2>1 DEF StartsGroup
<1>4. GroupStart(text', m) = {}
  BY <1>0, <1>1, <1>3, GroupGoesOn
<1>5. AnchorFollowsText'
  <2>1. openAnchor' = NoAnchor
    BY <1>1 DEF DropAnchor, AnchorIsAtRoot
  <2> QED
    BY <1>4, <2>1 DEF AnchorFollowsText
<1>6. FieldPath(text', m) = stack
  BY <1>0, <1>1, <1>4, NextPath
<1>7. /\ Len(fields') = Len(text')
      /\ \A j \in DOMAIN text' :
           fields'[j] = [field |-> text'[j], path |-> FieldPath(text', j)]
  BY <1>0, <1>1, <1>6, PushFollows
<1>8. OpenedFollowsText'
  BY <1>0, <1>1, <1>3, NoneBegins
<1>9. stack' = PathOf(text', Around')
  BY <1>0, <1>1, NextAround
<1>10. Follows'
  BY <1>5, <1>7, <1>8, <1>9 DEF Follows
<1> QED
  BY <1>0, <1>2, <1>10 DEF EndsFit, DepthFits

-----------------------------------------------------------------------------
(* TextInv *)

LEMMA InitTextInv == Init => TextInv
<1> SUFFICES ASSUME Init PROVE TextInv
  OBVIOUS
<1>1. /\ text = <<>> /\ fields = <<>> /\ opened = <<>> /\ stack = <<>> /\ openAnchor = NoAnchor
      /\ diagnostics = {} /\ pc = "read" /\ DOMAIN counts = {}
  BY DEF Init
<1>2. DOMAIN text = 1..0 /\ Len(text) = 0 /\ Len(fields) = 0 /\ Len(opened) = 0
      /\ DOMAIN opened = 1..0 /\ 1..0 = {}
  BY <1>1
<1>3. CountsAreExact /\ AnchorIsAtRoot /\ UnclosedIsExact
  BY <1>1 DEF CountsAreExact, AnchorIsAtRoot, UnclosedIsExact
<1>4. ReportsAreExact
  BY <1>1, <1>2 DEF ReportsAreExact, Sound, WellNested, WithinDepth
<1>5. PathsAreRight
  <2>1. Enclosing(text, Len(text) + 1) = {}
    BY <1>2, NoneAroundTheFirst
  <2> QED
    BY <1>1, <1>2, <2>1, PathOfNone DEF PathsAreRight
<1>6. AnchorFollowsText
  <2>1. GroupStart(text, Len(text)) = {}
    BY <1>2 DEF GroupStart
  <2> QED
    BY <1>1, <2>1 DEF AnchorFollowsText
<1>7. OpenedFollowsText
  <2>1. Begins(text) = {}
    BY <1>2 DEF Begins
  <2> QED
    BY <1>2, <2>1, FS_EmptySet DEF OpenedFollowsText
<1> QED
  BY <1>3, <1>4, <1>5, <1>6, <1>7 DEF TextInv

LEMMA TextInvTells == TextInv /\ Sound => Follows /\ Fits
BY DEF TextInv, ReportsAreExact, PathsAreRight, Follows, Fits, Around

(* A step keeps TextInv if it reports a fault of the field exactly if      *)
(* there is one, and follows the text as long as there is none.            *)
LEMMA ReadKeepsTextInv ==
  ASSUME IInv, TextInv, NEW f \in Field, Read(f),
         NEW faults \in SUBSET {"mismatched_end", "depth"},
         diagnostics' = diagnostics \cup faults,
         CountsAreExact', AnchorIsAtRoot',
         Sound /\ faults = {} =>
           Follows' /\ EndsFit(text', Len(text')) /\ DepthFits(text', Len(text')),
         Sound /\ faults # {} => ~(EndsFit(text', Len(text')) /\ DepthFits(text', Len(text')))
  PROVE  TextInv'
<1>1. /\ Grown(text, text', Len(text)) /\ Len(text') = Len(text) + 1
      /\ pc = "read" /\ pc' = "read"
  BY ReadGrows DEF IInv
<1>2. WellNested(text') /\ WithinDepth(text') <=>
        /\ WellNested(text) /\ WithinDepth(text)
        /\ EndsFit(text', Len(text')) /\ DepthFits(text', Len(text'))
  BY <1>1, KeptNesting
<1>3. Sound' <=> Sound /\ faults = {}
  BY DEF Sound
<1>4. ReportsAreExact'
  BY <1>2, <1>3 DEF TextInv, ReportsAreExact
<1>5. UnclosedIsExact'
  BY <1>1 DEF TextInv, UnclosedIsExact
<1>6. Sound' => Follows'
  BY <1>3
<1>7. PathsAreRight'
  BY <1>4, <1>6 DEF ReportsAreExact, PathsAreRight, Follows, Around
<1>8. Sound' => AnchorFollowsText' /\ OpenedFollowsText'
  BY <1>6 DEF Follows
<1> QED
  BY <1>4, <1>5, <1>7, <1>8 DEF TextInv

LEMMA CountsKept ==
  ASSUME CountsAreExact, UNCHANGED <<counts, opened>> PROVE CountsAreExact'
BY DEF CountsAreExact

LEMMA StepTextInv == IInv /\ TextInv /\ [Next]_vars => TextInv'
<1> SUFFICES ASSUME IInv, TextInv, [Next]_vars PROVE TextInv'
  OBVIOUS
<1>0. /\ TypeOK /\ CountsAreAhead /\ CountsAreExact /\ AnchorIsAtRoot
      /\ Sound => Follows
  BY TextInvTells DEF IInv, TextInv
<1>1. ASSUME NEW f \in Open, OpenSequence(f) PROVE TextInv'
  <2>1. /\ f \in Field /\ f.name \in Name /\ Read(f) /\ Begin(f.name) /\ DropAnchor
        /\ diagnostics' = diagnostics \cup {} /\ {} \in SUBSET {"mismatched_end", "depth"}
    BY <1>1 DEF OpenSequence, Open, Field
  <2>2. CountsAreExact'
    BY <1>0, <2>1, BeginCounts
  <2>3. AnchorIsAtRoot'
    BY <1>0, <2>1 DEF DropAnchor, AnchorIsAtRoot
  <2>4. Sound => Follows' /\ EndsFit(text', Len(text')) /\ DepthFits(text', Len(text'))
    BY <1>0, <1>1, OpenSequenceFollows
  <2> QED
    BY <2>1, <2>2, <2>3, <2>4, ReadKeepsTextInv
<1>2. ASSUME NEW f \in Open, TooDeep(f) PROVE TextInv'
  <2>1. /\ f \in Field /\ Read(f) /\ DropAnchor /\ stack' = stack
        /\ UNCHANGED <<counts, opened>>
        /\ diagnostics' = diagnostics \cup {"depth"}
        /\ {"depth"} \in SUBSET {"mismatched_end", "depth"} /\ {"depth"} # {}
    BY <1>2 DEF TooDeep, Complain, Field
  <2>2. CountsAreExact'
    BY <1>0, <2>1, CountsKept
  <2>3. AnchorIsAtRoot'
    BY <1>0, <2>1 DEF DropAnchor, AnchorIsAtRoot
  <2>4. Sound => ~DepthFits(text', Len(text'))
    BY <1>0, <1>2, TooDeepIsExact
  <2> QED
    BY <2>1, <2>2, <2>3, <2>4, ReadKeepsTextInv
<1>3. ASSUME NEW f \in Close, CloseSequence(f) PROVE TextInv'
  <2>1. /\ f \in Field /\ Read(f) /\ openAnchor' = openAnchor /\ stack # <<>>
        /\ UNCHANGED <<counts, opened>>
        /\ diagnostics' = diagnostics \cup {} /\ {} \in SUBSET {"mismatched_end", "depth"}
    BY <1>3 DEF CloseSequence, ClosesTop, Field
  <2>2. CountsAreExact'
    BY <1>0, <2>1, CountsKept
  <2>3. AnchorIsAtRoot'
    BY <1>0, <2>1 DEF AnchorIsAtRoot
  <2>4. Sound => Follows' /\ EndsFit(text', Len(text')) /\ DepthFits(text', Len(text'))
    BY <1>0, <1>3, CloseSequenceFollows
  <2> QED
    BY <2>1, <2>2, <2>3, <2>4, ReadKeepsTextInv
<1>4. ASSUME NEW f \in Close, MismatchedEnd(f) PROVE TextInv'
  <2>1. /\ f \in Field /\ Read(f) /\ openAnchor' = openAnchor /\ stack' = stack
        /\ UNCHANGED <<counts, opened>>
        /\ diagnostics' = diagnostics \cup {"mismatched_end"}
        /\ {"mismatched_end"} \in SUBSET {"mismatched_end", "depth"} /\ {"mismatched_end"} # {}
    BY <1>4 DEF MismatchedEnd, Complain, Field
  <2>2. CountsAreExact'
    BY <1>0, <2>1, CountsKept
  <2>3. AnchorIsAtRoot'
    BY <1>0, <2>1 DEF AnchorIsAtRoot
  <2>4. Sound => ~EndsFit(text', Len(text'))
    BY <1>0, <1>4, MismatchedEndIsExact
  <2> QED
    BY <2>1, <2>2, <2>3, <2>4, ReadKeepsTextInv
<1>5. ASSUME NEW f \in Plain, StartGroup(f) PROVE TextInv'
  <2>1. /\ f \in Field /\ Read(f) /\ stack' = <<>>
        /\ diagnostics' = diagnostics \cup {} /\ {} \in SUBSET {"mismatched_end", "depth"}
    BY <1>5 DEF StartGroup, Field
  <2>2. CountsAreExact'
    <3>1. PICK i \in DOMAIN Anchored : Begin(Anchored[i].name)
      BY <1>5 DEF StartGroup
    <3>2. Anchored[i].name \in Name
      BY Declared
    <3> QED
      BY <1>0, <3>1, <3>2, BeginCounts
  <2>3. AnchorIsAtRoot'
    BY <2>1 DEF AnchorIsAtRoot
  <2>4. Sound => Follows' /\ EndsFit(text', Len(text')) /\ DepthFits(text', Len(text'))
    BY <1>0, <1>5, StartGroupFollows
  <2> QED
    BY <2>1, <2>2, <2>3, <2>4, ReadKeepsTextInv
<1>6. ASSUME NEW f \in Plain, ContinueGroup(f) PROVE TextInv'
  <2>1. /\ f \in Field /\ Read(f) /\ openAnchor' = openAnchor /\ stack' = stack
        /\ UNCHANGED <<counts, opened>>
        /\ diagnostics' = diagnostics \cup {} /\ {} \in SUBSET {"mismatched_end", "depth"}
    BY <1>6 DEF ContinueGroup, Field
  <2>2. CountsAreExact'
    BY <1>0, <2>1, CountsKept
  <2>3. AnchorIsAtRoot'
    BY <1>0, <2>1 DEF AnchorIsAtRoot
  <2>4. Sound => Follows' /\ EndsFit(text', Len(text')) /\ DepthFits(text', Len(text'))
    BY <1>0, <1>6, ContinueGroupFollows
  <2> QED
    BY <2>1, <2>2, <2>3, <2>4, ReadKeepsTextInv
<1>7. ASSUME NEW f \in Plain, PlainField(f) PROVE TextInv'
  <2>1. /\ f \in Field /\ Read(f) /\ DropAnchor /\ stack' = stack
        /\ UNCHANGED <<counts, opened>>
        /\ diagnostics' = diagnostics \cup {} /\ {} \in SUBSET {"mismatched_end", "depth"}
    BY <1>7 DEF PlainField, Field
  <2>2. CountsAreExact'
    BY <1>0, <2>1, CountsKept
  <2>3. AnchorIsAtRoot'
    BY <1>0, <2>1 DEF DropAnchor, AnchorIsAtRoot
  <2>4. Sound => Follows' /\ EndsFit(text', Len(text')) /\ DepthFits(text', Len(text'))
    BY <1>0, <1>7, PlainFieldFollows
  <2> QED
    BY <2>1, <2>2, <2>3, <2>4, ReadKeepsTextInv
<1>8. CASE Finish
  <2>1. /\ pc = "read" /\ pc' = "done"
        /\ UNCHANGED <<text, stack, counts, openAnchor, fields, opened>>
    BY <1>8 DEF Finish
  <2>2. Sound' <=> Sound
    BY <1>8 DEF Finish, Sound
  <2>3. "unclosed" \in diagnostics' <=> stack # <<>>
    <3>1. "unclosed" \notin diagnostics
      BY <2>1 DEF TextInv, UnclosedIsExact
    <3> QED
      BY <1>8, <3>1 DEF Finish
  <2>4. UnclosedIsExact'
    BY <2>1, <2>3 DEF UnclosedIsExact
  <2> QED
    BY <2>1, <2>2, <2>4 DEF TextInv, CountsAreExact, AnchorIsAtRoot, ReportsAreExact,
       PathsAreRight, AnchorFollowsText, OpenedFollowsText
<1>9. CASE UNCHANGED vars
  BY <1>9 DEF vars, TextInv, CountsAreExact, AnchorIsAtRoot, UnclosedIsExact, ReportsAreExact,
     Sound, PathsAreRight, AnchorFollowsText, OpenedFollowsText
<1> QED
  BY <1>1, <1>2, <1>3, <1>4, <1>5, <1>6, <1>7, <1>8, <1>9 DEF Next

(* For every schema, limit and text: as long as the text has no fault, the *)
(* stack, the anchored group, the counts and the fields are what the text  *)
(* says, and a fault is noticed when its field is read (push_field,        *)
(* next_sequence_occurrence).                                              *)
THEOREM TextInvariance == Spec => []TextInv
<1>1. Init => IInv /\ TextInv
  BY InitIInv, InitTextInv
<1>2. IInv /\ TextInv /\ [Next]_vars => IInv' /\ TextInv'
  BY StepIInv, StepTextInv
<1> QED
  BY <1>1, <1>2, PTL DEF Spec

(* In a text whose brackets match, of any length, every field is kept in   *)
(* order with the path that the text gives it.                             *)
THEOREM FieldsGetTheirPaths == Spec => []PathsAreRight
<1>1. TextInv => PathsAreRight
  BY DEF TextInv
<1> QED
  BY <1>1, TextInvariance, PTL

(* A text is reported as mismatched or too deep exactly if it is, and as   *)
(* unclosed exactly if a sequence is left open at the end.                 *)
THEOREM FaultsAreReported == Spec => []DiagnosticsAreExact
<1>1. IInv /\ TextInv => DiagnosticsAreExact
  <2> SUFFICES ASSUME IInv, TextInv, pc = "done"
               PROVE  /\ Sound <=> WellNested(text) /\ WithinDepth(text)
                      /\ Sound => ("unclosed" \in diagnostics <=> Around # {})
    BY DEF DiagnosticsAreExact, Around
  <2>1. Sound <=> WellNested(text) /\ WithinDepth(text)
    BY DEF TextInv, ReportsAreExact
  <2>2. ASSUME Sound PROVE "unclosed" \in diagnostics <=> Around # {}
    <3>1. TypeOK /\ stack = PathOf(text, Around)
      BY <2>2, TextInvTells DEF IInv, Follows
    <3>2. stack = <<>> <=> Around = {}
      BY <3>1, StackTells
    <3> QED
      BY <3>2 DEF TextInv, UnclosedIsExact
  <2> QED
    BY <2>1, <2>2
<1> QED
  BY <1>1, Invariance, TextInvariance, PTL
=============================================================================
