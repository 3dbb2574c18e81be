------------------------- MODULE MessageFlowProofs -------------------------
(***************************************************************************)
(* Proofs about MessageFlow: what match_message reports of a message is    *)
(* what is wrong with the groups of its text.  The argument is that the    *)
(* paths of the parsed fields are the paths of the groups, because the end *)
(* of a sequence is a field of it.                                         *)
(***************************************************************************)
EXTENDS MessageFlow, FieldPathProofs

(* What a field of the text may say. *)
ModelValue == [kind : {"none", "text"}, num : Nat, sign : {""}, prefix : {""}, form : {0}]

Value == (UNION {RawValues[m][t] : m \in DOMAIN Schemas, t \in Tag}) \cup ModelValue

TextOK == type \in DOMAIN Schemas /\ text \in Seq([field : Field, value : Value])

(* As many sequences are open as were opened and not closed. *)
TextIsBalanced ==
  Nesting(Items(text), 1, Len(text)) = Cardinality(Enclosing(Items(text), Len(text) + 1))

FieldsAreParsed == stage # "write" => fields = Parsed(text) /\ Closed(text)

(* The inductive invariant. *)
IInv == TextOK /\ TextIsBalanced /\ FieldsAreParsed

-----------------------------------------------------------------------------
(* The paths of the fields and those of the groups. *)

LEMMA OneAnchorAtMost ==
  ASSUME NEW t, NEW j \in Nat, NEW i \in GroupStart(t, j)
  PROVE  GroupStart(t, j) = {i} /\ i \in 1..j /\ Enclosing(t, j) = {} /\ StartsGroup(t, i)
<1>1. /\ i \in 1..j /\ Enclosing(t, j) = {} /\ StartsGroup(t, i)
      /\ \A k \in (i + 1)..j : ~IsAnchor(t[k].tag)
  BY DEF GroupStart
<1>2. ASSUME NEW m \in GroupStart(t, j), m # i
      PROVE  FALSE
  <2>1. /\ m \in 1..j /\ StartsGroup(t, m)
        /\ \A k \in (m + 1)..j : ~IsAnchor(t[k].tag)
    BY DEF GroupStart
  <2>2. IsAnchor(t[m].tag) /\ IsAnchor(t[i].tag)
    BY <1>1, <2>1 DEF StartsGroup
  <2>3. m \in (i + 1)..j \/ i \in (m + 1)..j
    BY <1>1, <1>2, <2>1
  <2> QED
    BY <1>1, <2>1, <2>2, <2>3
<1> QED
  BY <1>1, <1>2

(* The path of a field is that of a group, or the root. *)
LEMMA FieldIsInAGroup ==
  ASSUME NEW t, NEW n \in Nat, DOMAIN t = 1..n, NEW j \in 1..n
  PROVE  \/ FieldPath(t, j) = Root
         \/ \E i \in Begins(t) : FieldPath(t, j) = PathOf(t, Enclosing(t, i) \cup {i})
<1> DEFINE E == Enclosing(t, j)
<1>1. E \in SUBSET (1..(j - 1)) /\ E \in SUBSET Nat /\ IsFiniteSet(E)
  BY EnclosingType
<1>2. CASE E # {}
  <2> DEFINE i == Innermost(E)
  <2>1. i \in E /\ \A m \in E : m <= i
    BY <1>1, <1>2, InnermostIsLast
  <2> HIDE DEF i
  <2>2. t[i] \in Open /\ i \in Begins(t)
    BY <1>1, <2>1 DEF Enclosing, Begins
  <2>3. Enclosing(t, i) = {m \in E : m < i}
    BY <2>1, AroundAnOpening
  <2>4. \A m \in E : m \in Enclosing(t, i) \cup {i} 
    BY <1>1, <2>1, <2>3
  <2>5. E = Enclosing(t, i) \cup {i}
    BY <2>1, <2>3, <2>4
  <2>6. GroupStart(t, j) = {}
    BY <1>2 DEF GroupStart
  <2> QED
    BY <2>2, <2>5, <2>6 DEF FieldPath
<1>3. CASE E = {} /\ GroupStart(t, j) = {}
  BY <1>3, PathOfNone DEF FieldPath, Root
<1>4. CASE E = {} /\ GroupStart(t, j) # {}
  <2>1. PICK i \in GroupStart(t, j) : TRUE
    BY <1>4
  <2>2. GroupStart(t, j) = {i} /\ i \in 1..j /\ StartsGroup(t, i)
    BY OneAnchorAtMost
  <2>3. i \in Begins(t) /\ Enclosing(t, i) = {}
    BY <2>2 DEF Begins, StartsGroup
  <2> QED
    BY <1>4, <2>2, <2>3 DEF FieldPath
<1> QED
  BY <1>2, <1>3, <1>4

(* Every group has a field: the anchor, or what follows the opening. *)
LEMMA GroupHasAField ==
  ASSUME NEW t, NEW n \in Nat, DOMAIN t = 1..n, Enclosing(t, n + 1) = {}, NEW i \in Begins(t)
  PROVE  \E j \in 1..n : FieldPath(t, j) = PathOf(t, Enclosing(t, i) \cup {i})
<1>1. i \in 1..n
  BY DEF Begins
<1>2. CASE t[i] \in Open
  <2>1. Enclosing(t, i + 1) = Enclosing(t, i) \cup {i}
    BY <1>1, <1>2, AroundTheNext
  <2>2. i # n
    BY <2>1
  <2>3. i + 1 \in 1..n
    BY <1>1, <2>2
  <2>4. GroupStart(t, i + 1) = {}
    BY <2>1 DEF GroupStart
  <2>5. FieldPath(t, i + 1) = PathOf(t, Enclosing(t, i) \cup {i})
    BY <2>1, <2>4 DEF FieldPath
  <2> QED
    BY <2>3, <2>5
<1>3. CASE StartsGroup(t, i)
  <2>1. Enclosing(t, i) = {}
    BY <1>3 DEF StartsGroup
  <2>2. i \in GroupStart(t, i)
    BY <1>1, <1>3, <2>1 DEF GroupStart
  <2>3. GroupStart(t, i) = {i}
    BY <1>1, <2>2, OneAnchorAtMost
  <2> QED
    BY <1>1, <2>3 DEF FieldPath
<1> QED
  BY <1>2, <1>3 DEF Begins

-----------------------------------------------------------------------------
(* The text and its items. *)

LEMMA ItemsType ==
  ASSUME NEW t \in Seq([field : Field, value : Value])
  PROVE  /\ Len(t) \in Nat /\ DOMAIN t = 1..Len(t) /\ DOMAIN Items(t) = 1..Len(t)
         /\ Len(Items(t)) = Len(t) /\ Items(t) \in Seq(Field)
         /\ \A j \in 1..Len(t) : Items(t)[j] = t[j].field /\ t[j].field \in Field
<1>1. Len(t) \in Nat /\ DOMAIN t = 1..Len(t)
  OBVIOUS
<1>2. \A j \in 1..Len(t) : t[j] \in [field : Field, value : Value]
  BY ElementOfSeq
<1>3. \A j \in 1..Len(t) : t[j].field \in Field
  BY <1>2
<1>4. Items(t) = [j \in 1..Len(t) |-> t[j].field]
  BY <1>1 DEF Items
<1>5. Items(t) \in Seq(Field)
  BY <1>1, <1>3, <1>4
<1>6. DOMAIN Items(t) = 1..Len(t) /\ \A j \in 1..Len(t) : Items(t)[j] = t[j].field
  BY <1>4
<1>7. Len(Items(t)) = Len(t)
  BY <1>1, <1>5, <1>6
<1> QED
  BY <1>1, <1>3, <1>5, <1>6, <1>7

LEMMA ItemsGrow ==
  ASSUME NEW t \in Seq([field : Field, value : Value]),
         NEW x \in [field : Field, value : Value]
  PROVE  /\ Append(t, x) \in Seq([field : Field, value : Value])
         /\ Len(Append(t, x)) = Len(t) + 1
         /\ Grown(Items(t), Items(Append(t, x)), Len(t))
         /\ Items(Append(t, x))[Len(t) + 1] = x.field
<1> DEFINE s == Append(t, x)
<1>1. s \in Seq([field : Field, value : Value]) /\ Len(s) = Len(t) + 1
      /\ s[Len(t) + 1] = x /\ \A j \in 1..Len(t) : s[j] = t[j]
  OBVIOUS
<1> HIDE DEF s
<1>2. /\ Len(t) \in Nat /\ DOMAIN Items(t) = 1..Len(t)
      /\ \A j \in 1..Len(t) : Items(t)[j] = t[j].field
  BY ItemsType
<1>3. /\ DOMAIN Items(s) = 1..Len(s)
      /\ \A j \in 1..Len(s) : Items(s)[j] = s[j].field
  BY <1>1, ItemsType
<1>4. /\ \A j \in 1..Len(t) : j \in 1..Len(s)
      /\ Len(t) + 1 \in 1..Len(s)
  BY <1>1, <1>2
<1>5. \A j \in 1..Len(t) : Items(s)[j] = Items(t)[j]
  BY <1>1, <1>2, <1>3, <1>4
<1>6. Items(s)[Len(t) + 1] = x.field
  BY <1>1, <1>3, <1>4
<1> QED
  BY <1>1, <1>2, <1>3, <1>5, <1>6 DEF s, Grown

(* What one more field does to what is open. *)
LEMMA BalanceGrows ==
  ASSUME NEW t, NEW s, NEW n, Grown(t, s, n),
         Nesting(t, 1, n) = Cardinality(Enclosing(t, n + 1)),
         s[n + 1] \in Close => Enclosing(t, n + 1) # {}
  PROVE  Nesting(s, 1, n + 1) = Cardinality(Enclosing(s, n + 2))
<1> DEFINE E == Enclosing(s, n + 1)
<1>1. n \in Nat /\ \A m \in 1..n : s[m] = t[m]
  BY DEF Grown
<1>2. Enclosing(t, n + 1) = E
  BY <1>1, KeptEnclosing
<1>3. Nesting(s, 1, n) = Nesting(t, 1, n)
  BY <1>1, SameNesting
<1>4. Nesting(s, 1, n + 1) = Nesting(s, 1, n) + Weight(s[n + 1])
  BY <1>1, NestingStep
<1>5. E \in SUBSET (1..n) /\ E \in SUBSET Nat /\ IsFiniteSet(E) /\ Cardinality(E) \in Nat
  BY <1>1, EnclosingType
<1>6. (n + 1) + 1 = n + 2 /\ n + 1 \in Nat \ {0}
  BY <1>1
<1>7. Nesting(s, 1, n + 1) = Cardinality(E) + Weight(s[n + 1])
  BY <1>2, <1>3, <1>4
<1> HIDE DEF E
<1>8. CASE s[n + 1] \in Open
  <2>1. Enclosing(s, n + 2) = E \cup {n + 1}
    BY <1>6, <1>8, AroundTheNext DEF E
  <2>2. n + 1 \notin E
    BY <1>1, <1>5
  <2>3. Cardinality(E \cup {n + 1}) = Cardinality(E) + 1
    BY <1>5, <2>2, FS_AddElement
  <2> QED
    BY <1>7, <1>8, <2>1, <2>3 DEF Weight
<1>9. CASE s[n + 1] \in Close
  <2>1. E # {} /\ s[n + 1] \notin Open
    BY <1>2, <1>9, Kinds
  <2>2. Cardinality(Enclosing(s, n + 2)) = Cardinality(E) - 1
    BY <1>6, <1>9, <2>1, AroundAfterAnEnd DEF E
  <2>3. Weight(s[n + 1]) = 0 - 1
    BY <1>9, <2>1 DEF Weight
  <2> QED
    BY <1>5, <1>7, <2>2, <2>3
<1>10. CASE s[n + 1] \notin Open /\ s[n + 1] \notin Close
  <2>1. Enclosing(s, n + 2) = E
    BY <1>6, <1>10, AroundTheNext DEF E
  <2> QED
    BY <1>5, <1>7, <1>10, <2>1 DEF Weight
<1> QED
  BY <1>8, <1>9, <1>10

-----------------------------------------------------------------------------
(* Steps. *)

LEMMA GivenValues ==
  NoPayload \in Value /\ (Len(text) \in Nat => TextValue \in Value)
<1>1. NoPayload \in ModelValue
  BY DEF NoPayload, ModelValue
<1>2. Len(text) \in Nat => TextValue \in ModelValue
  BY DEF TextValue, ModelValue
<1>3. \A v \in ModelValue : v \in Value
  BY DEF Value
<1> QED
  BY <1>1, <1>2, <1>3

LEMMA InitHolds == Init => IInv
<1> SUFFICES ASSUME Init PROVE IInv
  OBVIOUS
<1>1. text = <<>> /\ stage = "write" /\ type \in DOMAIN Schemas
  BY DEF Init
<1>2. TextOK
  BY <1>1 DEF TextOK
<1>3. Len(text) = 0
  BY <1>1
<1>4. Nesting(Items(text), 1, 0) = 0
  BY NestingOfNone
<1>5. Cardinality(Enclosing(Items(text), 1)) = 0
  BY NoneAroundTheFirst, FS_EmptySet
<1> QED
  BY <1>1, <1>2, <1>3, <1>4, <1>5 DEF IInv, TextIsBalanced, FieldsAreParsed

(* A field that the sender appends. *)
LEMMA AppendKeeps ==
  ASSUME IInv, stage = "write", stage' = "write",
         NEW x \in [field : Field, value : Value], text' = Append(text, x), type' = type,
         x.field \in Close => Enclosing(Items(text), Len(text) + 1) # {}
  PROVE  IInv'
<1> DEFINE t == text
           n == Len(text)
<1>1. t \in Seq([field : Field, value : Value]) /\ n \in Nat
  BY DEF IInv, TextOK
<1>2. /\ Append(t, x) \in Seq([field : Field, value : Value])
      /\ Len(Append(t, x)) = n + 1
      /\ Grown(Items(t), Items(Append(t, x)), n)
      /\ Items(Append(t, x))[n + 1] = x.field
  BY <1>1, ItemsGrow
<1>3. Nesting(Items(t), 1, n) = Cardinality(Enclosing(Items(t), n + 1))
  BY DEF IInv, TextIsBalanced
<1>4. Nesting(Items(Append(t, x)), 1, n + 1) = Cardinality(Enclosing(Items(Append(t, x)), n + 2))
  BY <1>2, <1>3, BalanceGrows
<1>5. (n + 1) + 1 = n + 2
  BY <1>1
<1> QED
  BY <1>2, <1>4, <1>5 DEF IInv, TextOK, TextIsBalanced, FieldsAreParsed

LEMMA WriteKeeps == ASSUME IInv, Write PROVE IInv'
<1>1. stage = "write" /\ stage' = "write" /\ type' = type
  BY DEF Write
<1>2. text \in Seq([field : Field, value : Value]) /\ Len(text) \in Nat
  BY DEF IInv, TextOK
<1> DEFINE E == Enclosing(Items(text), Len(text) + 1)
<1>3. CASE WritePlain
  <2>0. PICK tag \in Tag : \E v \in ValuesFor(tag) :
          text' = Append(text, [field |-> [tag |-> tag], value |-> v])
    BY <1>3 DEF WritePlain
  <2>1. PICK v \in ValuesFor(tag) :
          text' = Append(text, [field |-> [tag |-> tag], value |-> v])
    BY <2>0
  <2>2. [tag |-> tag] \in Plain
    BY DEF Plain
  <2>3. v \in Value
    <3>1. TextValue \in Value
      BY <1>2, GivenValues
    <3>2. type \in DOMAIN Schemas
      BY DEF IInv, TextOK
    <3> QED
      BY <3>1, <3>2 DEF ValuesFor, Value
  <2>4. [field |-> [tag |-> tag], value |-> v] \in [field : Field, value : Value]
    BY <2>2, <2>3 DEF Field
  <2>5. [tag |-> tag] \notin Close
    BY <2>2, Kinds
  <2> QED
    BY <1>1, <2>1, <2>4, <2>5, AppendKeeps
<1>4. CASE WriteOpen
  <2>1. PICK name \in Name : text' = Append(text, Bracket("16R", name))
    BY <1>4 DEF WriteOpen
  <2>2. /\ Bracket("16R", name).field \in Open
        /\ Bracket("16R", name) \in [field : Field, value : Value]
    <3>1. Bracket("16R", name) = [field |-> [tag |-> "16R", name |-> name], value |-> NoPayload]
      BY DEF Bracket
    <3>2. [tag |-> "16R", name |-> name] \in Open
      BY DEF Open
    <3> QED
      BY <3>1, <3>2, GivenValues DEF Field
  <2>3. Bracket("16R", name).field \notin Close
    BY <2>2, Kinds
  <2> QED
    BY <1>1, <2>1, <2>2, <2>3, AppendKeeps
<1>5. CASE WriteClose
  <2> DEFINE name == Here[Len(Here)]
  <2>1. text' = Append(text, Bracket("16S", name)) /\ Here # Root
    BY <1>5 DEF WriteClose
  <2>2. /\ Len(Items(text)) = Len(text) /\ Items(text) \in Seq(Field)
        /\ DOMAIN Items(text) = 1..Len(text)
    BY <1>2, ItemsType
  <2>3. Here = Names(PathOf(Items(text), E))
    BY <2>2 DEF Here
  <2>4. /\ E \in SUBSET (1..Len(text)) /\ E \in SUBSET Nat
        /\ IsFiniteSet(E) /\ Cardinality(E) \in Nat
    BY <1>2, EnclosingType
  <2>5. E # {}
    <3>1. SUFFICES ASSUME E = {} PROVE FALSE
      OBVIOUS
    <3>2. PathOf(Items(text), E) = <<>>
      BY <3>1, PathOfNone
    <3>3. Names(<<>>) = <<>>
      BY DEF Names
    <3> QED
      BY <2>1, <2>3, <3>2, <3>3 DEF Root
  <2>6. Cardinality(E) # 0
    BY <2>4, <2>5, FS_EmptySet
  <2>7. name \in Name
    <3> DEFINE c == Cardinality(E)
               p == PathOf(Items(text), E)
    <3>1. DOMAIN p = 1..c /\ p[c] = FrameOf(Items(text), Nth(E, c)) /\ Nth(E, c) \in E
      BY <2>4, <2>6, NthProperties DEF PathOf
    <3>2. Here = [k \in 1..c |-> p[k].name]
      BY <2>3, <3>1 DEF Names
    <3>3. Len(Here) = c
      BY <2>4, <3>2
    <3>4. name = p[c].name
      BY <2>4, <2>6, <3>2, <3>3
    <3>5. Items(text)[Nth(E, c)] \in Open
      BY <3>1 DEF Enclosing
    <3>6. p[c].name = Items(text)[Nth(E, c)].name
      BY <3>1, <3>5 DEF FrameOf, GroupName
    <3>7. \A f \in Open : f.name \in Name
      BY DEF Open
    <3> QED
      BY <3>4, <3>5, <3>6, <3>7
  <2> HIDE DEF name
  <2>8. Bracket("16S", name) \in [field : Field, value : Value]
    <3>1. Bracket("16S", name) = [field |-> [tag |-> "16S", name |-> name], value |-> NoPayload]
      BY DEF Bracket
    <3>2. [tag |-> "16S", name |-> name] \in Close
      BY <2>7 DEF Close
    <3> QED
      BY <3>1, <3>2, GivenValues DEF Field
  <2> QED
    BY <1>1, <2>1, <2>5, <2>8, AppendKeeps
<1> QED
  BY <1>3, <1>4, <1>5 DEF Write

LEMMA StepKeeps == ASSUME IInv, [Next]_vars PROVE IInv'
<1>1. CASE Write
  BY <1>1, WriteKeeps
<1>2. CASE Receive
  <2>1. text' = text /\ type' = type /\ fields' = Parsed(text) /\ Closed(text)
    BY <1>2 DEF Receive
  <2> QED
    BY <2>1 DEF IInv, TextOK, TextIsBalanced, FieldsAreParsed
<1>3. CASE Edit \/ Render \/ UNCHANGED vars
  <2>1. text' = text /\ type' = type /\ fields' = fields /\ (stage' = "write" <=> stage = "write")
    BY <1>3 DEF Edit, Render, vars
  <2> QED
    BY <2>1 DEF IInv, TextOK, TextIsBalanced, FieldsAreParsed
<1> QED
  BY <1>1, <1>2, <1>3 DEF Next

LEMMA Invariance == Spec => []IInv
BY InitHolds, StepKeeps, PTL DEF Spec

-----------------------------------------------------------------------------
(* Reports. *)

LEMMA NamesOfRoot ==
  ASSUME NEW F, NEW p \in Seq(F)
  PROVE  Names(p) = Root <=> p = Root
<1>1. DOMAIN Names(p) = 1..Len(p) /\ DOMAIN Root = {} /\ Len(p) \in Nat
  BY DEF Names, Root
<1>2. Names(p) = Root => p = Root
  <2> SUFFICES ASSUME Names(p) = Root PROVE p = Root
    OBVIOUS
  <2>1. 1 \notin 1..Len(p)
    BY <1>1
  <2>2. Len(p) = 0
    BY <1>1, <2>1
  <2> QED
    BY <2>2 DEF Root
<1>3. p = Root => Names(p) = Root
  BY DEF Names, Root
<1> QED
  BY <1>2, <1>3

(* A message that was parsed. *)
LEMMA ParsedText ==
  ASSUME IInv, stage # "write"
  PROVE  /\ Len(text) \in Nat /\ DOMAIN text = 1..Len(text) /\ DOMAIN fields = 1..Len(text)
         /\ DOMAIN Items(text) = 1..Len(text)
         /\ Enclosing(Items(text), Len(text) + 1) = {}
         /\ \A j \in 1..Len(text) : /\ fields[j].path = FieldPath(Items(text), j)
                                    /\ fields[j].tag = text[j].field.tag
<1> DEFINE n == Len(text)
           items == Items(text)
<1>1. text \in Seq([field : Field, value : Value])
  BY DEF IInv, TextOK
<1>2. /\ n \in Nat /\ DOMAIN text = 1..n /\ DOMAIN items = 1..n
      /\ \A j \in 1..n : items[j] = text[j].field /\ text[j].field \in Field
  BY <1>1, ItemsType
<1>3. fields = Parsed(text) /\ Closed(text)
  BY DEF IInv, FieldsAreParsed
<1>4. \A j \in 1..n : items[j].tag = "16R" <=> items[j] \in Open
  <2>1. \A f \in Field : f.tag = "16R" <=> f \in Open
    BY TagAssumption DEF Field, Open, Close, Plain
  <2> QED
    BY <1>2, <2>1
<1>5. \A j \in 1..n : items[j].tag = "16S" <=> items[j] \in Close
  <2>1. \A f \in Field : f.tag = "16S" <=> f \in Close
    BY TagAssumption DEF Field, Open, Close, Plain
  <2> QED
    BY <1>2, <2>1
<1>6. /\ {j \in DOMAIN text : text[j].field.tag = "16R"} = {m \in 1..n : items[m] \in Open}
      /\ {j \in DOMAIN text : text[j].field.tag = "16S"} = {m \in 1..n : items[m] \in Close}
  BY <1>2, <1>4, <1>5
<1>7. Cardinality({m \in 1..n : items[m] \in Open}) \in Nat
  <2>1. {m \in 1..n : items[m] \in Open} \in SUBSET (1..n)
    OBVIOUS
  <2>2. 1 \in Int /\ n \in Int
    BY <1>2
  <2> HIDE DEF n
  <2> QED
    BY <2>1, <2>2, Between
<1>8. Nesting(items, 1, n) = 0
  <2> DEFINE opened == Cardinality({m \in 1..n : items[m] \in Open})
             closed == Cardinality({m \in 1..n : items[m] \in Close})
  <2>1. opened = closed
    BY <1>3, <1>6 DEF Closed
  <2>2. Nesting(items, 1, n) = opened - closed
    BY DEF Nesting
  <2>3. opened \in Nat
    BY <1>7
  <2> HIDE DEF opened, closed
  <2> QED
    BY <2>1, <2>2, <2>3
<1>9. Cardinality(Enclosing(items, n + 1)) = 0 /\ IsFiniteSet(Enclosing(items, n + 1))
  BY <1>2, <1>8, EnclosingType DEF IInv, TextIsBalanced
<1>10. Enclosing(items, n + 1) = {}
  BY <1>9, FS_EmptySet
<1>11. /\ DOMAIN fields = 1..n
       /\ \A j \in 1..n : /\ fields[j].path = FieldPath(items, j)
                          /\ fields[j].tag = items[j].tag
  BY <1>2, <1>3 DEF Parsed
<1> QED
  BY <1>2, <1>10, <1>11

(* The paths of the fields are those of the groups, but for an empty root. *)
LEMMA PathsAreGroups ==
  ASSUME IInv, stage # "write", NEW g
  PROVE  /\ \A j \in DOMAIN fields : fields[j].path \in GroupsOfText
         /\ g \in GroupsOfText => g = Root \/ \E j \in DOMAIN fields : fields[j].path = g
<1> DEFINE n == Len(text)
           items == Items(text)
<1>1. /\ n \in Nat /\ DOMAIN fields = 1..n /\ DOMAIN items = 1..n
      /\ Enclosing(items, n + 1) = {}
      /\ \A j \in 1..n : fields[j].path = FieldPath(items, j)
  BY ParsedText
<1>2. ASSUME NEW j \in 1..n PROVE fields[j].path \in GroupsOfText
  BY <1>1, FieldIsInAGroup DEF GroupsOfText, GroupPath
<1>3. ASSUME g \in GroupsOfText, g # Root
      PROVE  \E j \in 1..n : fields[j].path = g
  <2>1. PICK i \in Begins(items) : g = PathOf(items, Enclosing(items, i) \cup {i})
    BY <1>3 DEF GroupsOfText, GroupPath
  <2> QED
    BY <1>1, <2>1, GroupHasAField
<1> QED
  BY <1>1, <1>2, <1>3

LEMMA GroupIsAPath ==
  ASSUME IInv, stage # "write", NEW g \in GroupsOfText
  PROVE  \E F : g \in Seq(F)
<1> DEFINE items == Items(text)
<1>1. CASE g = Root
  <2>1. <<>> \in Seq({})
    OBVIOUS
  <2> QED
    BY <1>1, <2>1 DEF Root
<1>2. CASE g # Root
  <2>1. PICK i \in Begins(items) : g = PathOf(items, Enclosing(items, i) \cup {i})
    BY <1>2 DEF GroupsOfText, GroupPath
  <2>2. i \in Nat
    BY ParsedText DEF Begins
  <2>3. /\ Enclosing(items, i) \in SUBSET (1..(i - 1)) /\ Enclosing(items, i) \in SUBSET Nat
        /\ IsFiniteSet(Enclosing(items, i))
    BY <2>2, EnclosingType
  <2>4. \A m \in Enclosing(items, i) : m < i
    BY <2>2, <2>3
  <2>5. /\ IsFiniteSet(Enclosing(items, i) \cup {i}) /\ Enclosing(items, i) \cup {i} \in SUBSET Nat
    BY <2>2, <2>3, <2>4, NthOfMore
  <2> DEFINE F == {FrameOf(items, k) : k \in Enclosing(items, i) \cup {i}}
  <2>6. \A k \in Enclosing(items, i) \cup {i} : FrameOf(items, k) \in F
    OBVIOUS
  <2>7. PathOf(items, Enclosing(items, i) \cup {i}) \in Seq(F)
    BY <2>5, <2>6, PathShape
  <2> QED
    BY <2>1, <2>7
<1> QED
  BY <1>1, <1>2

(* The places a rule is applied at are those it is to be held to.          *)
LEMMA ScopesAreHeld ==
  ASSUME IInv, stage # "write", NEW rule
  PROVE  Scopes(rule, fields) = HeldTo(rule)
<1> DEFINE observed == {f.path : f \in {h \in Range(fields) : PathMatches(rule, h.path)}}
<1>1. \A g : g \in observed <=>
               \E j \in DOMAIN fields : fields[j].path = g /\ Names(g) \in Range(rule.paths)
  BY DEF Range, PathMatches
<1>2. \A j \in DOMAIN fields : fields[j].path \in GroupsOfText
  BY PathsAreGroups
<1>3. \A g \in GroupsOfText : g = Root \/ \E j \in DOMAIN fields : fields[j].path = g
  BY PathsAreGroups
<1>4. Root \in GroupsOfText
  BY DEF GroupsOfText
<1>5. RootIsHeldTo(rule) <=>
        \/ rule.paths = <<Root>> /\ Minimum(rule) > 0
        \/ \E j \in DOMAIN fields : fields[j].path = Root
  BY ParsedText DEF RootIsHeldTo
<1> HIDE DEF observed
<1>6. Scopes(rule, fields) =
        IF observed = {} /\ rule.paths = <<Root>> /\ Minimum(rule) > 0 THEN {Root} ELSE observed
  BY DEF Scopes, observed
<1>7. rule.paths = <<Root>> => Range(rule.paths) = {Root}
  BY DEF Range
<1>8. Names(Root) = Root
  BY DEF Names, Root
<1>9. \A g : g \in HeldTo(rule) <=>
               /\ g \in GroupsOfText /\ Names(g) \in Range(rule.paths)
               /\ g = Root => RootIsHeldTo(rule)
  BY DEF HeldTo
<1>10. \A g \in observed : g \in HeldTo(rule)
  BY <1>1, <1>2, <1>5, <1>9
<1>11. CASE rule.paths = <<Root>> /\ Minimum(rule) > 0
  <2>1. \A g \in GroupsOfText : Names(g) = Root => g = Root
    <3>1. SUFFICES ASSUME NEW g \in GroupsOfText, Names(g) = Root PROVE g = Root
      OBVIOUS
    <3> QED
      BY <3>1, GroupIsAPath, NamesOfRoot
  <2>2. \A g \in HeldTo(rule) : g = Root
    BY <1>7, <1>9, <1>11, <2>1
  <2>3. Root \in HeldTo(rule)
    BY <1>4, <1>5, <1>7, <1>8, <1>9, <1>11
  <2>4. HeldTo(rule) = {Root}
    BY <2>2, <2>3
  <2>5. observed = {} \/ observed = {Root}
    BY <1>10, <2>2
  <2> QED
    BY <1>6, <1>11, <2>4, <2>5
<1>12. CASE ~(rule.paths = <<Root>> /\ Minimum(rule) > 0)
  <2>1. \A g \in HeldTo(rule) : g \in observed
    BY <1>1, <1>3, <1>5, <1>9, <1>12
  <2>2. observed = HeldTo(rule)
    BY <1>10, <2>1
  <2> QED
    BY <1>6, <1>12, <2>2
<1> QED
  BY <1>11, <1>12

LEMMA CountIsExact ==
  ASSUME IInv, stage # "write", NEW rule, NEW g \in HeldTo(rule)
  PROVE  /\ Count(rule, fields, g) = Cardinality(FieldsFor(rule, g))
         /\ IsFiniteSet(FieldsFor(rule, g))
<1>1. Names(g) \in Range(rule.paths)
  BY DEF HeldTo
<1>2. /\ Len(text) \in Nat /\ DOMAIN text = 1..Len(text) /\ DOMAIN fields = 1..Len(text)
      /\ \A j \in 1..Len(text) : /\ fields[j].path = FieldPath(Items(text), j)
                                 /\ fields[j].tag = text[j].field.tag
  BY ParsedText
<1>3. ASSUME NEW j \in 1..Len(text)
      PROVE  j \in FieldsFor(rule, g) <=> RuleMatches(rule, fields[j]) /\ fields[j].path = g
  BY <1>1, <1>2 DEF FieldsFor, RuleMatches, PathMatches
<1>4. FieldsFor(rule, g) \in SUBSET (1..Len(text))
  BY <1>2 DEF FieldsFor
<1>5. FieldsFor(rule, g) =
        {i \in DOMAIN fields : RuleMatches(rule, fields[i]) /\ fields[i].path = g}
  BY <1>2, <1>3, <1>4
<1> DEFINE n == Len(text)
<1>6. 1 \in Int /\ n \in Int
  BY <1>2
<1>7. IsFiniteSet(FieldsFor(rule, g))
  BY <1>4, <1>6, Between
<1> QED
  BY <1>5, <1>7 DEF Count

(* One rule reports nothing exactly if all its groups are within it.       *)
LEMMA RuleReportsExactly ==
  ASSUME IInv, stage # "write", NEW rule
  PROVE  (\A s \in Scopes(rule, fields) :
            /\ ~(rule.required /\ Count(rule, fields, s) = 0)
            /\ Within(Count(rule, fields, s), Minimum(rule), rule.max))
         <=> \A g \in HeldTo(rule) :
               /\ rule.required => FieldsFor(rule, g) # {}
               /\ Within(Cardinality(FieldsFor(rule, g)), Minimum(rule), rule.max)
<1>1. Scopes(rule, fields) = HeldTo(rule)
  BY ScopesAreHeld
<1>2. ASSUME NEW g \in HeldTo(rule)
      PROVE  /\ Count(rule, fields, g) = Cardinality(FieldsFor(rule, g))
             /\ Count(rule, fields, g) = 0 <=> FieldsFor(rule, g) = {}
  BY CountIsExact, FS_EmptySet
<1> QED
  BY <1>1, <1>2

(* ReportsAreExact (match_message): a message is reported exactly if a     *)
(* group of it has too few or too many fields for a rule of its sequence.  *)
THEOREM ReportsAreRight == Spec => []ReportsAreExact
<1>1. ASSUME IInv PROVE ReportsAreExact
  <2> SUFFICES ASSUME stage # "write"
               PROVE  FieldReports(Schema, fields) = {} <=> WithinRules
    BY DEF ReportsAreExact
  <2> DEFINE rule(i) == Schema.fields[i]
             missing(i) ==
               {Report("missing", rule(i).name, s) :
                  s \in {s \in Scopes(rule(i), fields) :
                           rule(i).required /\ Count(rule(i), fields, s) = 0}}
             outside(i) ==
               {Report("cardinality", rule(i).name, s) :
                  s \in {s \in Scopes(rule(i), fields) :
                           ~Within(Count(rule(i), fields, s), Minimum(rule(i)), rule(i).max)}}
             of(i) == missing(i) \cup outside(i)
  <2>1. FieldReports(Schema, fields) = UNION {of(i) : i \in DOMAIN Schema.fields}
    BY DEF FieldReports
  <2>2. ASSUME NEW i
        PROVE  of(i) = {} <=>
                 \A s \in Scopes(rule(i), fields) :
                   /\ ~(rule(i).required /\ Count(rule(i), fields, s) = 0)
                   /\ Within(Count(rule(i), fields, s), Minimum(rule(i)), rule(i).max)
    OBVIOUS
  <2>3. ASSUME NEW i
        PROVE  of(i) = {} <=>
                 \A g \in HeldTo(rule(i)) :
                   /\ rule(i).required => FieldsFor(rule(i), g) # {}
                   /\ Within(Cardinality(FieldsFor(rule(i), g)), Minimum(rule(i)), rule(i).max)
    BY <1>1, <2>2, RuleReportsExactly
  <2> HIDE DEF of
  <2>4. FieldReports(Schema, fields) = {} <=> \A i \in DOMAIN Schema.fields : of(i) = {}
    BY <2>1
  <2> QED
    BY <2>3, <2>4 DEF WithinRules
<1> QED
  BY <1>1, Invariance, PTL
=============================================================================
