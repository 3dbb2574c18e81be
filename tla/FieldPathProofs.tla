--------------------------- MODULE FieldPathProofs ---------------------------
(***************************************************************************)
(* Facts about the paths that FieldPaths defines, for every text: how the  *)
(* openings around a position change from one field to the next, and that  *)
(* a path tells which groups it goes through.                              *)
(***************************************************************************)
EXTENDS FieldPaths, FiniteSetTheorems, SequenceTheorems, WellFoundedInduction, TLAPS

-----------------------------------------------------------------------------
(* Finite sets of numbers *)

LEMMA Least ==
  ASSUME NEW S \in SUBSET Nat, S # {}
  PROVE  \E m \in S : \A k \in S : m <= k
<1> DEFINE less == OpToRel(<, Nat)
<1>1. IsWellFoundedOn(less, Nat)
  BY NatLessThanWellFounded
<1>2. \A x, y \in Nat : y < x => <<y, x>> \in less
  BY DEF OpToRel
<1> HIDE DEF less
<1>3. PICK x \in S : \A y \in S : ~(<<y, x>> \in less)
  BY <1>1, WFMin
<1>4. ASSUME NEW y \in S PROVE x <= y
  <2>1. x \in Nat /\ y \in Nat /\ ~(<<y, x>> \in less)
    BY <1>3
  <2>2. ~(y < x)
    BY <1>2, <2>1
  <2> QED
    BY <2>1, <2>2
<1> QED
  BY <1>4

LEMMA Part ==
  ASSUME NEW S, IsFiniteSet(S), NEW T \in SUBSET S
  PROVE  /\ IsFiniteSet(T) /\ Cardinality(T) \in Nat /\ Cardinality(S) \in Nat
         /\ Cardinality(T) <= Cardinality(S)
         /\ Cardinality(T) = Cardinality(S) => T = S
BY FS_Subset, FS_CardinalityType

LEMMA Between ==
  ASSUME NEW a \in Int, NEW b \in Int, NEW S \in SUBSET (a..b)
  PROVE  IsFiniteSet(S) /\ Cardinality(S) \in Nat
BY FS_Interval, Part

(* How many of S come before i. *)
Rank(S, i) == Cardinality({m \in S : m < i})

LEMMA RankGrows ==
  ASSUME NEW S \in SUBSET Nat, IsFiniteSet(S), NEW i \in S, NEW j \in Nat, i < j
  PROVE  Rank(S, i) \in Nat /\ Rank(S, j) \in Nat /\ Rank(S, i) < Rank(S, j)
<1> DEFINE A == {m \in S : m < i}
           B == {m \in S : m < j}
<1>1. IsFiniteSet(B) /\ A \in SUBSET B
  <2>1. B \in SUBSET S
    OBVIOUS
  <2>2. IsFiniteSet(B)
    BY <2>1, Part
  <2>3. \A m \in S : m < i => m < j
    OBVIOUS
  <2> QED
    BY <2>2, <2>3
<1>2. A # B
  <2>1. i \in B /\ i \notin A
    OBVIOUS
  <2> QED
    BY <2>1
<1> HIDE DEF A, B
<1>3. /\ Cardinality(A) \in Nat /\ Cardinality(B) \in Nat
      /\ Cardinality(A) <= Cardinality(B) /\ Cardinality(A) # Cardinality(B)
  BY <1>1, <1>2, Part
<1>4. Cardinality(A) < Cardinality(B)
  BY <1>3
<1> QED
  BY <1>3, <1>4 DEF A, B, Rank

LEMMA RankType ==
  ASSUME NEW S \in SUBSET Nat, IsFiniteSet(S), NEW i \in S
  PROVE  Rank(S, i) \in 0..(Cardinality(S) - 1)
<1> DEFINE A == {m \in S : m < i}
<1>1. A \in SUBSET S /\ i \notin A
  OBVIOUS
<1> HIDE DEF A
<1>2. /\ Cardinality(A) \in Nat /\ Cardinality(S) \in Nat
      /\ Cardinality(A) <= Cardinality(S) /\ Cardinality(A) # Cardinality(S)
  BY <1>1, Part
<1>3. Cardinality(A) \in 0..(Cardinality(S) - 1)
  BY <1>2
<1> QED
  BY <1>3 DEF A, Rank

LEMMA SameRank ==
  ASSUME NEW S \in SUBSET Nat, IsFiniteSet(S), NEW i \in S, NEW j \in S,
         Rank(S, i) = Rank(S, j)
  PROVE  i = j
<1>1. i \in Nat /\ j \in Nat
  OBVIOUS
<1>2. ~(i < j)
  <2> SUFFICES ASSUME i < j PROVE FALSE
    OBVIOUS
  <2>1. Rank(S, i) \in Nat /\ Rank(S, i) < Rank(S, j)
    BY RankGrows
  <2> QED
    BY <2>1
<1>3. ~(j < i)
  <2> SUFFICES ASSUME j < i PROVE FALSE
    OBVIOUS
  <2>1. Rank(S, j) \in Nat /\ Rank(S, j) < Rank(S, i)
    BY RankGrows
  <2> QED
    BY <2>1
<1> QED
  BY <1>1, <1>2, <1>3

(* The elements of a finite set of numbers can be counted in their order. *)
LEMMA NthProperties ==
  ASSUME NEW S \in SUBSET Nat, IsFiniteSet(S), NEW k \in 1..Cardinality(S)
  PROVE  Nth(S, k) \in S /\ Rank(S, Nth(S, k)) = k - 1
<1> DEFINE c == Cardinality(S)
           ranks == 0..(c - 1)
           rank == [i \in S |-> Rank(S, i)]
<1>1. c \in Nat /\ k \in 1..c
  BY FS_CardinalityType
<1> HIDE DEF c
<1>2. IsFiniteSet(ranks) /\ Cardinality(ranks) = c
  <2>1. 0 \in Int /\ c - 1 \in Int
    BY <1>1
  <2>2. IsFiniteSet(ranks) /\ Cardinality(ranks) = IF 0 > c - 1 THEN 0 ELSE (c - 1) - 0 + 1
    BY <2>1, FS_Interval
  <2> QED
    BY <1>1, <2>2
<1>3. rank \in Injection(S, ranks)
  <2>1. rank \in [S -> ranks]
    BY RankType DEF c
  <2>2. \A i, j \in S : rank[i] = rank[j] => i = j
    BY SameRank
  <2> QED
    BY <2>1, <2>2 DEF Injection, IsInjective
<1>4. rank \in Surjection(S, ranks)
  BY <1>2, <1>3, FS_Injection DEF c
<1>5. PICK i \in S : rank[i] = k - 1
  <2>1. k - 1 \in ranks
    BY <1>1
  <2> QED
    BY <1>4, <2>1 DEF Surjection
<1>6. i \in S /\ Cardinality({m \in S : m < i}) = k - 1
  BY <1>5 DEF Rank
<1> QED
  BY <1>6 DEF Nth, Rank

LEMMA NthOfRank ==
  ASSUME NEW S \in SUBSET Nat, IsFiniteSet(S), NEW i \in S
  PROVE  Rank(S, i) + 1 \in 1..Cardinality(S) /\ Nth(S, Rank(S, i) + 1) = i
<1> DEFINE k == Rank(S, i) + 1
<1>1. Rank(S, i) \in 0..(Cardinality(S) - 1) /\ Cardinality(S) \in Nat
  BY RankType, FS_CardinalityType
<1>2. k \in 1..Cardinality(S) /\ k - 1 = Rank(S, i)
  BY <1>1
<1> HIDE DEF k
<1> DEFINE j == Nth(S, k)
<1>3. j \in S /\ Rank(S, j) = Rank(S, i)
  BY <1>2, NthProperties
<1> HIDE DEF j
<1>4. j = i
  BY <1>3, SameRank
<1> QED
  BY <1>2, <1>4 DEF j, k

LEMMA NthIncreases ==
  ASSUME NEW S \in SUBSET Nat, IsFiniteSet(S),
         NEW k \in 1..Cardinality(S), NEW l \in 1..Cardinality(S), k < l
  PROVE  Nth(S, k) < Nth(S, l)
<1> DEFINE i == Nth(S, k)
           j == Nth(S, l)
<1>1. /\ i \in S /\ j \in S /\ i \in Nat /\ j \in Nat
      /\ Rank(S, i) = k - 1 /\ Rank(S, j) = l - 1
  BY NthProperties
<1> HIDE DEF i, j
<1>2. i # j
  BY <1>1
<1>3. ~(j < i)
  <2> SUFFICES ASSUME j < i PROVE FALSE
    OBVIOUS
  <2>1. Rank(S, j) < Rank(S, i)
    BY <1>1, RankGrows
  <2> QED
    BY <1>1, <2>1
<1>4. i < j
  BY <1>1, <1>2, <1>3
<1> QED
  BY <1>4 DEF i, j

(* Those before x come first. *)
LEMMA NthOfPart ==
  ASSUME NEW S \in SUBSET Nat, IsFiniteSet(S), NEW x \in Nat,
         NEW T, T = {m \in S : m < x}, NEW k \in 1..Cardinality(T)
  PROVE  k \in 1..Cardinality(S) /\ Nth(S, k) = Nth(T, k)
<1>1. T \in SUBSET S /\ T \in SUBSET Nat
  OBVIOUS
<1>2. IsFiniteSet(T) /\ Cardinality(T) <= Cardinality(S) /\ Cardinality(S) \in Nat
      /\ Cardinality(T) \in Nat
  BY <1>1, Part
<1> DEFINE i == Nth(T, k)
<1>3. i \in T /\ Rank(T, i) = k - 1
  BY <1>1, <1>2, NthProperties
<1> HIDE DEF i
<1>4. {m \in T : m < i} = {m \in S : m < i}
  <2>1. i \in Nat /\ i < x
    BY <1>1, <1>3
  <2>2. \A m \in S : m < i => m < x
    BY <2>1
  <2> QED
    BY <2>2
<1>5. i \in S /\ Rank(S, i) = k - 1
  BY <1>1, <1>3, <1>4 DEF Rank
<1>6. Nth(S, (k - 1) + 1) = i
  BY <1>5, NthOfRank
<1>7. (k - 1) + 1 = k /\ k \in 1..Cardinality(S)
  BY <1>2
<1> QED
  BY <1>6, <1>7 DEF i

(* A new greatest element comes last. *)
LEMMA NthOfMore ==
  ASSUME NEW S \in SUBSET Nat, IsFiniteSet(S), NEW x \in Nat, \A m \in S : m < x
  PROVE  /\ IsFiniteSet(S \cup {x}) /\ S \cup {x} \in SUBSET Nat
         /\ Cardinality(S) \in Nat /\ Cardinality(S \cup {x}) = Cardinality(S) + 1
         /\ \A k \in 1..Cardinality(S) : Nth(S \cup {x}, k) = Nth(S, k)
         /\ Nth(S \cup {x}, Cardinality(S) + 1) = x
<1> DEFINE U == S \cup {x}
<1>1. x \notin S
  OBVIOUS
<1>2. /\ IsFiniteSet(U) /\ U \in SUBSET Nat
      /\ Cardinality(S) \in Nat /\ Cardinality(U) = Cardinality(S) + 1
  BY <1>1, FS_AddElement, FS_CardinalityType
<1>3. S = {m \in U : m < x} /\ x \in U
  <2>1. ~(x < x) /\ x \in U
    OBVIOUS
  <2>2. \A m \in U : m < x <=> m \in S
    BY <2>1
  <2> QED
    BY <2>1, <2>2
<1> HIDE DEF U
<1>4. \A k \in 1..Cardinality(S) : Nth(U, k) = Nth(S, k)
  BY <1>2, <1>3, NthOfPart
<1>5. Rank(U, x) = Cardinality(S)
  BY <1>3 DEF Rank
<1>6. Nth(U, Cardinality(S) + 1) = x
  BY <1>2, <1>3, <1>5, NthOfRank
<1> QED
  BY <1>2, <1>4, <1>6 DEF U

(* Counting positions counts elements. *)
LEMMA NthBijects ==
  ASSUME NEW S \in SUBSET Nat, IsFiniteSet(S), NEW Q \in SUBSET (1..Cardinality(S)),
         NEW T, T = {Nth(S, q) : q \in Q}
  PROVE  Cardinality(Q) = Cardinality(T)
<1> DEFINE f == [q \in Q |-> Nth(S, q)]
<1>1. \A q \in Q : q \in 1..Cardinality(S) /\ Nth(S, q) \in S /\ Rank(S, Nth(S, q)) = q - 1
  BY NthProperties
<1>2. IsFiniteSet(Q)
  <2>1. Cardinality(S) \in Int /\ 1 \in Int
    BY FS_CardinalityType
  <2> QED
    BY <2>1, Between
<1>3. f \in [Q -> T] /\ \A y \in T : \E q \in Q : f[q] = y
  OBVIOUS
<1>4. \A p, q \in Q : f[p] = f[q] => p = q
  <2> SUFFICES ASSUME NEW p \in Q, NEW q \in Q, f[p] = f[q] PROVE p = q
    OBVIOUS
  <2>1. Nth(S, p) = Nth(S, q)
    OBVIOUS
  <2>2. p - 1 = q - 1
    BY <1>1, <2>1
  <2>3. p \in Int /\ q \in Int
    BY <1>1
  <2> QED
    BY <2>2, <2>3
<1> HIDE DEF f
<1>5. f \in Bijection(Q, T)
  BY <1>3, <1>4 DEF Bijection, Injection, Surjection, IsInjective
<1>6. ExistsBijection(Q, T)
  BY <1>5 DEF ExistsBijection
<1> QED
  BY <1>2, <1>6, FS_Bijection

LEMMA InnermostIsLast ==
  ASSUME NEW S \in SUBSET Nat, IsFiniteSet(S), S # {}
  PROVE  /\ Cardinality(S) \in Nat \ {0}
         /\ Innermost(S) = Nth(S, Cardinality(S))
         /\ Innermost(S) \in S /\ \A m \in S : m <= Innermost(S)
<1> DEFINE c == Cardinality(S)
<1>1. c \in Nat \ {0}
  BY FS_EmptySet, FS_CardinalityType
<1>2. Nth(S, c) \in S
  BY <1>1, NthProperties
<1>3. ASSUME NEW m \in S PROVE m <= Nth(S, c)
  <2> DEFINE k == Rank(S, m) + 1
  <2>1. k \in 1..c /\ Nth(S, k) = m
    BY NthOfRank
  <2> HIDE DEF k, c
  <2>2. CASE k = c
    BY <1>2, <2>1, <2>2
  <2>3. CASE k < c
    <3>1. Nth(S, k) < Nth(S, c)
      BY <1>1, <2>1, <2>3, NthIncreases DEF c
    <3>2. m \in Nat /\ Nth(S, c) \in Nat
      BY <1>2
    <3> QED
      BY <2>1, <3>1, <3>2
  <2> QED
    BY <1>1, <2>1, <2>2, <2>3
<1> HIDE DEF c
<1>4. Innermost(S) \in S /\ \A m \in S : m <= Innermost(S)
  BY <1>2, <1>3 DEF Innermost
<1>5. Innermost(S) = Nth(S, c)
  <2>1. Innermost(S) \in Nat /\ Nth(S, c) \in Nat
    BY <1>2, <1>4
  <2>2. Innermost(S) <= Nth(S, c) /\ Nth(S, c) <= Innermost(S)
    BY <1>2, <1>3, <1>4
  <2> QED
    BY <2>1, <2>2
<1> QED
  BY <1>1, <1>4, <1>5 DEF c

-----------------------------------------------------------------------------
(* Brackets *)

LEMMA Kinds ==
  Open \cap Close = {} /\ Open \cap Plain = {} /\ Close \cap Plain = {}
<1>1. \A x \in Open : x.tag = "16R"
  BY DEF Open
<1>2. \A x \in Close : x.tag = "16S"
  BY DEF Close
<1>3. \A x \in Plain : x.tag # "16R" /\ x.tag # "16S"
  BY TagAssumption DEF Plain
<1> QED
  BY <1>1, <1>2, <1>3

LEMMA NestingType ==
  ASSUME NEW t, NEW i \in Int, NEW k \in Int
  PROVE  Nesting(t, i, k) \in Int
<1>1. /\ Cardinality({m \in i..k : t[m] \in Open}) \in Nat
      /\ Cardinality({m \in i..k : t[m] \in Close}) \in Nat
  BY Between
<1> QED
  BY <1>1 DEF Nesting

LEMMA NestingOfNone ==
  ASSUME NEW t, NEW i \in Int
  PROVE  Nesting(t, i, i - 1) = 0
<1>1. {m \in i..(i - 1) : t[m] \in Open} = {} /\ {m \in i..(i - 1) : t[m] \in Close} = {}
  OBVIOUS
<1>2. Nesting(t, i, i - 1) = Cardinality({}) - Cardinality({})
  BY <1>1 DEF Nesting
<1> QED
  BY <1>2, FS_EmptySet

LEMMA SameNesting ==
  ASSUME NEW s, NEW t, NEW i \in Int, NEW k \in Int, \A m \in i..k : s[m] = t[m]
  PROVE  Nesting(s, i, k) = Nesting(t, i, k)
<1>1. /\ {m \in i..k : s[m] \in Open} = {m \in i..k : t[m] \in Open}
      /\ {m \in i..k : s[m] \in Close} = {m \in i..k : t[m] \in Close}
  OBVIOUS
<1> QED
  BY <1>1 DEF Nesting

(* What one field adds to the nesting. *)
Weight(f) == IF f \in Open THEN 1 ELSE IF f \in Close THEN 0 - 1 ELSE 0

LEMMA NestingStep ==
  ASSUME NEW t, NEW i \in Int, NEW k \in Int, i <= k
  PROVE  Nesting(t, i, k) = Nesting(t, i, k - 1) + Weight(t[k])
<1> DEFINE O == {m \in i..(k - 1) : t[m] \in Open}
           C == {m \in i..(k - 1) : t[m] \in Close}
           OO == {m \in i..k : t[m] \in Open}
           CC == {m \in i..k : t[m] \in Close}
<1>1. i..k = i..(k - 1) \cup {k} /\ k \notin i..(k - 1)
  OBVIOUS
<1>2. /\ IsFiniteSet(O) /\ IsFiniteSet(C) /\ Cardinality(O) \in Nat /\ Cardinality(C) \in Nat
      /\ k \notin O /\ k \notin C
  <2>1. k - 1 \in Int /\ O \in SUBSET (i..(k - 1)) /\ C \in SUBSET (i..(k - 1))
    OBVIOUS
  <2>2. k \notin O /\ k \notin C
    BY <1>1, <2>1
  <2> HIDE DEF O, C
  <2> QED
    BY <2>1, <2>2, Between
<1>3. /\ t[k] \in Open => OO = O \cup {k}
      /\ t[k] \notin Open => OO = O
      /\ t[k] \in Close => CC = C \cup {k}
      /\ t[k] \notin Close => CC = C
  BY <1>1
<1>4. Nesting(t, i, k) = Cardinality(OO) - Cardinality(CC)
      /\ Nesting(t, i, k - 1) = Cardinality(O) - Cardinality(C)
  BY DEF Nesting
<1> HIDE DEF O, C, OO, CC
<1>5. /\ t[k] \in Open => Cardinality(OO) = Cardinality(O) + 1
      /\ t[k] \notin Open => Cardinality(OO) = Cardinality(O)
      /\ t[k] \in Close => Cardinality(CC) = Cardinality(C) + 1
      /\ t[k] \notin Close => Cardinality(CC) = Cardinality(C)
  BY <1>2, <1>3, FS_AddElement
<1>6. ~(t[k] \in Open /\ t[k] \in Close)
  BY Kinds
<1> QED
  BY <1>2, <1>4, <1>5, <1>6 DEF Weight

LEMMA NestingSplits ==
  ASSUME NEW t, NEW i \in Int, NEW h \in Int, NEW k \in Int, i <= h, h <= k + 1
  PROVE  Nesting(t, i, k) = Nesting(t, i, h - 1) + Nesting(t, h, k)
<1> DEFINE O(a, b) == {m \in a..b : t[m] \in Open}
           C(a, b) == {m \in a..b : t[m] \in Close}
<1>1. /\ \A m \in i..k : m \in i..(h - 1) \/ m \in h..k
      /\ \A m \in i..(h - 1) : m \in i..k /\ m \notin h..k
      /\ \A m \in h..k : m \in i..k
  OBVIOUS
<1>2. /\ O(i, k) = O(i, h - 1) \cup O(h, k) /\ O(i, h - 1) \cap O(h, k) = {}
      /\ C(i, k) = C(i, h - 1) \cup C(h, k) /\ C(i, h - 1) \cap C(h, k) = {}
  BY <1>1
<1>3. /\ IsFiniteSet(O(i, h - 1)) /\ IsFiniteSet(O(h, k))
      /\ IsFiniteSet(C(i, h - 1)) /\ IsFiniteSet(C(h, k))
      /\ Cardinality(O(i, h - 1)) \in Nat /\ Cardinality(O(h, k)) \in Nat
      /\ Cardinality(C(i, h - 1)) \in Nat /\ Cardinality(C(h, k)) \in Nat
  <2>1. h - 1 \in Int
    OBVIOUS
  <2> QED
    BY <2>1, Between
<1>4. /\ Nesting(t, i, k) = Cardinality(O(i, k)) - Cardinality(C(i, k))
      /\ Nesting(t, i, h - 1) = Cardinality(O(i, h - 1)) - Cardinality(C(i, h - 1))
      /\ Nesting(t, h, k) = Cardinality(O(h, k)) - Cardinality(C(h, k))
  BY DEF Nesting
<1> HIDE DEF O, C
<1>5. /\ Cardinality(O(i, k)) = Cardinality(O(i, h - 1)) + Cardinality(O(h, k)) - Cardinality({})
      /\ Cardinality(C(i, k)) = Cardinality(C(i, h - 1)) + Cardinality(C(h, k)) - Cardinality({})
  BY <1>2, <1>3, FS_Union
<1> QED
  BY <1>3, <1>4, <1>5, FS_EmptySet

-----------------------------------------------------------------------------
(* The openings around a position *)

LEMMA EnclosingType ==
  ASSUME NEW t, NEW j \in Nat
  PROVE  /\ Enclosing(t, j) \in SUBSET (1..(j - 1)) /\ Enclosing(t, j) \in SUBSET Nat
         /\ IsFiniteSet(Enclosing(t, j)) /\ Cardinality(Enclosing(t, j)) \in Nat
<1>1. Enclosing(t, j) \in SUBSET (1..(j - 1)) /\ j - 1 \in Int /\ 1 \in Int
  BY DEF Enclosing
<1>2. IsFiniteSet(Enclosing(t, j)) /\ Cardinality(Enclosing(t, j)) \in Nat
  BY <1>1, Between
<1> QED
  BY <1>1, <1>2

LEMMA NoneAroundTheFirst == ASSUME NEW t PROVE Enclosing(t, 1) = {}
BY DEF Enclosing

LEMMA SameEnclosing ==
  ASSUME NEW s, NEW t, NEW j \in Nat, \A m \in 1..(j - 1) : s[m] = t[m]
  PROVE  Enclosing(s, j) = Enclosing(t, j)
<1>1. ASSUME NEW i \in 1..(j - 1), NEW k \in i..(j - 1)
      PROVE  Nesting(s, i, k) = Nesting(t, i, k)
  <2>1. i \in Int /\ k \in Int /\ \A m \in i..k : s[m] = t[m]
    OBVIOUS
  <2> QED
    BY <2>1, SameNesting
<1> QED
  BY <1>1 DEF Enclosing

LEMMA AroundTheNext ==
  ASSUME NEW t, NEW j \in Nat \ {0}
  PROVE  /\ t[j] \in Open => Enclosing(t, j + 1) = Enclosing(t, j) \cup {j}
         /\ t[j] \in Close =>
              Enclosing(t, j + 1) = {i \in Enclosing(t, j) : Nesting(t, i, j - 1) > 1}
         /\ t[j] \notin Open /\ t[j] \notin Close => Enclosing(t, j + 1) = Enclosing(t, j)
<1>1. (j + 1) - 1 = j /\ 1..j = 1..(j - 1) \cup {j} /\ j \notin 1..(j - 1)
  OBVIOUS
<1>2. ASSUME NEW i \in 1..(j - 1)
      PROVE  /\ i..j = i..(j - 1) \cup {j} /\ j - 1 \in i..(j - 1)
             /\ Nesting(t, i, j) = Nesting(t, i, j - 1) + Weight(t[j])
             /\ Nesting(t, i, j - 1) \in Int
  BY NestingStep, NestingType
<1>3. ASSUME NEW i \in 1..(j - 1)
      PROVE  i \in Enclosing(t, j + 1) <=>
               i \in Enclosing(t, j) /\ Nesting(t, i, j - 1) + Weight(t[j]) > 0
  BY <1>1, <1>2, <1>3 DEF Enclosing
<1>4. j \in Enclosing(t, j + 1) <=> t[j] \in Open
  <2>1. j..j = {j} /\ j - 1 \in Int
    OBVIOUS
  <2>2. Nesting(t, j, j) = 0 + Weight(t[j])
    BY NestingStep, NestingOfNone
  <2>3. t[j] \in Open => Nesting(t, j, j) > 0
    BY <2>2 DEF Weight
  <2> QED
    BY <1>1, <2>1, <2>3 DEF Enclosing
<1>5. \A i \in Enclosing(t, j) : i \in 1..(j - 1) /\ Nesting(t, i, j - 1) > 0
  BY <1>2 DEF Enclosing
<1>6. \A i \in Enclosing(t, j + 1) : i \in 1..(j - 1) \/ i = j
  BY <1>1 DEF Enclosing
<1>7. CASE t[j] \in Open
  <2>1. Weight(t[j]) = 1 /\ t[j] \notin Close
    BY <1>7, Kinds DEF Weight
  <2>2. \A i \in Enclosing(t, j) : i \in Enclosing(t, j + 1)
    BY <1>2, <1>3, <1>5, <2>1
  <2> QED
    BY <1>3, <1>4, <1>6, <1>7, <2>1, <2>2
<1>8. CASE t[j] \in Close
  <2>1. Weight(t[j]) = 0 - 1 /\ t[j] \notin Open
    BY <1>8, Kinds DEF Weight
  <2>2. \A i \in 1..(j - 1) :
          Nesting(t, i, j - 1) + Weight(t[j]) > 0 <=> Nesting(t, i, j - 1) > 1
    BY <1>2, <2>1
  <2> QED
    BY <1>3, <1>4, <1>5, <1>6, <1>8, <2>1, <2>2
<1>9. CASE t[j] \notin Open /\ t[j] \notin Close
  <2>1. Weight(t[j]) = 0
    BY <1>9 DEF Weight
  <2>2. \A i \in Enclosing(t, j) : i \in Enclosing(t, j + 1)
    BY <1>2, <1>3, <1>5, <2>1
  <2> QED
    BY <1>3, <1>4, <1>6, <1>9, <2>2
<1> QED
  BY <1>7, <1>8, <1>9

(* Around an opening are those that were around it already when it came. *)
LEMMA AroundAnOpening ==
  ASSUME NEW t, NEW j \in Nat, NEW i \in Enclosing(t, j)
  PROVE  Enclosing(t, i) = {m \in Enclosing(t, j) : m < i}
<1>1. i \in 1..(j - 1) /\ \A k \in i..(j - 1) : Nesting(t, i, k) > 0
  BY DEF Enclosing
<1>2. ASSUME NEW m \in Enclosing(t, i) PROVE m \in Enclosing(t, j) /\ m < i
  <2>1. /\ m \in 1..(i - 1) /\ t[m] \in Open
        /\ \A k \in m..(i - 1) : Nesting(t, m, k) > 0
    BY <1>2 DEF Enclosing
  <2>2. m < i /\ m \in 1..(j - 1)
    BY <1>1, <2>1
  <2>3. ASSUME NEW k \in m..(j - 1) PROVE Nesting(t, m, k) > 0
    <3>1. CASE k < i
      BY <1>1, <2>1, <3>1
    <3>2. CASE i <= k
      <4>1. i \in Int /\ m \in Int /\ k \in Int /\ m <= i /\ i <= k + 1 /\ k \in i..(j - 1)
        BY <1>1, <2>1, <3>2
      <4>2. Nesting(t, m, k) = Nesting(t, m, i - 1) + Nesting(t, i, k)
        BY <4>1, NestingSplits
      <4>3. i - 1 \in m..(i - 1) /\ i - 1 \in Int
        BY <1>1, <2>1
      <4>4. Nesting(t, m, i - 1) \in Int /\ Nesting(t, i, k) \in Int
        BY <4>1, <4>3, NestingType
      <4>5. Nesting(t, m, i - 1) > 0 /\ Nesting(t, i, k) > 0
        BY <1>1, <2>1, <4>1, <4>3
      <4> QED
        BY <4>2, <4>4, <4>5
    <3>3. k \in Int /\ i \in Int
      BY <1>1, <2>1
    <3> QED
      BY <3>1, <3>2, <3>3
  <2> QED
    BY <2>1, <2>2, <2>3 DEF Enclosing
<1>3. ASSUME NEW m \in Enclosing(t, j), m < i PROVE m \in Enclosing(t, i)
  <2>1. /\ m \in 1..(j - 1) /\ t[m] \in Open
        /\ \A k \in m..(j - 1) : Nesting(t, m, k) > 0
    BY DEF Enclosing
  <2>2. m \in 1..(i - 1) /\ \A k \in m..(i - 1) : k \in m..(j - 1)
    BY <1>1, <1>3, <2>1
  <2> QED
    BY <2>1, <2>2 DEF Enclosing
<1> QED
  BY <1>2, <1>3

(* How many of S are not before i. *)
From(S, i) == {m \in S : i <= m}

LEMMA FromTheInnermost ==
  ASSUME NEW S \in SUBSET Nat, IsFiniteSet(S), NEW i \in S
  PROVE  /\ IsFiniteSet(From(S, i)) /\ Cardinality(From(S, i)) \in Nat \ {0}
         /\ Cardinality(From(S, i)) = 1 <=> i = Innermost(S)
<1> DEFINE x == Innermost(S)
<1>1. x \in S /\ \A m \in S : m <= x
  BY InnermostIsLast
<1> HIDE DEF x
<1>2. i \in From(S, i) /\ x \in From(S, i) /\ From(S, i) \in SUBSET S
  BY <1>1 DEF From
<1>3. /\ IsFiniteSet(From(S, i)) /\ Cardinality(From(S, i)) \in Nat
      /\ Cardinality(From(S, i)) # 0
  BY <1>2, Part, FS_EmptySet
<1>4. CASE i = x
  <2>1. From(S, i) = {i}
    <3>1. \A m \in S : i <= m <=> m = i
      BY <1>1, <1>4
    <3> QED
      BY <3>1 DEF From
  <2> QED
    BY <1>3, <1>4, <2>1, FS_Singleton DEF x
<1>5. CASE i # x
  <2>1. Cardinality({i}) = 1 /\ {i} \in SUBSET From(S, i) /\ {i} # From(S, i)
    BY <1>2, <1>5, FS_Singleton
  <2>2. Cardinality(From(S, i)) # 1
    BY <1>3, <2>1, Part
  <2> QED
    BY <1>3, <1>5, <2>2 DEF x
<1> QED
  BY <1>4, <1>5

(* So many ends are missing for an opening as there are openings from it   *)
(* on.                                                                     *)
NestingIsDepth(t, j) ==
  \A i \in Enclosing(t, j) : Nesting(t, i, j - 1) = Cardinality(From(Enclosing(t, j), i))

LEMMA EndClosesTheInnermost ==
  ASSUME NEW t, NEW j \in Nat \ {0}, t[j] \in Close, Enclosing(t, j) # {}, NestingIsDepth(t, j)
  PROVE  Enclosing(t, j + 1) = Enclosing(t, j) \ {Innermost(Enclosing(t, j))}
<1> DEFINE E == Enclosing(t, j)
<1>1. E \in SUBSET Nat /\ IsFiniteSet(E)
  BY EnclosingType
<1>2. Enclosing(t, j + 1) = {i \in E : Nesting(t, i, j - 1) > 1}
  BY AroundTheNext
<1>3. \A i \in E : Nesting(t, i, j - 1) = Cardinality(From(E, i))
  BY DEF NestingIsDepth
<1> HIDE DEF E
<1>4. ASSUME NEW i \in E PROVE Nesting(t, i, j - 1) > 1 <=> i # Innermost(E)
  <2>1. /\ Cardinality(From(E, i)) \in Nat \ {0}
        /\ Cardinality(From(E, i)) = 1 <=> i = Innermost(E)
    BY <1>1, FromTheInnermost
  <2>2. Cardinality(From(E, i)) > 1 <=> Cardinality(From(E, i)) # 1
    BY <2>1
  <2> QED
    BY <1>3, <2>1, <2>2
<1>5. Enclosing(t, j + 1) = E \ {Innermost(E)}
  BY <1>2, <1>4
<1> QED
  BY <1>5 DEF E

LEMMA DepthStep ==
  ASSUME NEW t, NEW j \in Nat \ {0}, NestingIsDepth(t, j)
  PROVE  NestingIsDepth(t, j + 1)
<1> DEFINE E == Enclosing(t, j)
           F == Enclosing(t, j + 1)
<1>1. E \in SUBSET Nat /\ IsFiniteSet(E) /\ \A m \in E : m < j
  BY EnclosingType
<1>2. \A i \in E : Nesting(t, i, j - 1) = Cardinality(From(E, i))
  BY DEF NestingIsDepth
<1>3. \A i \in E : Nesting(t, i, j) = Nesting(t, i, j - 1) + Weight(t[j])
  <2>1. \A i \in E : i \in Int /\ i <= j
    BY <1>1
  <2> QED
    BY <2>1, NestingStep
<1>4. \A i \in E : IsFiniteSet(From(E, i)) /\ Cardinality(From(E, i)) \in Nat \ {0}
  BY <1>1, FromTheInnermost
<1> SUFFICES ASSUME NEW i \in F PROVE Nesting(t, i, j) = Cardinality(From(F, i))
  <2>1. (j + 1) - 1 = j
    OBVIOUS
  <2> QED
    BY <2>1 DEF NestingIsDepth
<1>5. CASE t[j] \in Open
  <2>1. F = E \cup {j} /\ Weight(t[j]) = 1
    BY <1>5, AroundTheNext DEF Weight
  <2> HIDE DEF E, F
  <2>2. CASE i = j
    <3>1. From(F, i) = {i}
      <4>1. \A m \in F : i <= m <=> m = i
        BY <1>1, <2>1, <2>2
      <4> QED
        BY <4>1 DEF From
    <3>2. Nesting(t, j, j) = 1
      <4>1. Nesting(t, j, j) = 0 + 1
        BY <2>1, NestingStep, NestingOfNone
      <4> QED
        BY <4>1
    <3> QED
      BY <2>2, <3>1, <3>2, FS_Singleton
  <2>3. CASE i # j
    <3>1. i \in E /\ i < j
      BY <1>1, <2>1, <2>3
    <3>2. From(F, i) = From(E, i) \cup {j} /\ j \notin From(E, i)
      <4>1. j \notin E /\ i <= j
        BY <1>1, <3>1
      <4> QED
        BY <2>1, <4>1 DEF From
    <3>3. Cardinality(From(F, i)) = Cardinality(From(E, i)) + 1
      BY <1>4, <3>1, <3>2, FS_AddElement
    <3> QED
      BY <1>2, <1>3, <2>1, <3>1, <3>3
  <2> QED
    BY <2>2, <2>3
<1>6. CASE t[j] \in Close
  <2>1. F \in SUBSET E
    BY <1>6, AroundTheNext
  <2>2. F = E \ {Innermost(E)}
    BY <1>6, <2>1, EndClosesTheInnermost
  <2>3. Weight(t[j]) = 0 - 1
    BY <1>6, Kinds DEF Weight
  <2> HIDE DEF E, F
  <2>4. Innermost(E) \in E /\ \A m \in E : m <= Innermost(E)
    BY <1>1, <2>1, InnermostIsLast
  <2>5. From(F, i) = From(E, i) \ {Innermost(E)} /\ Innermost(E) \in From(E, i)
    BY <2>1, <2>2, <2>4 DEF From
  <2>6. Cardinality(From(F, i)) = Cardinality(From(E, i)) - 1
    <3>1. IsFiniteSet(From(E, i))
      BY <1>4, <2>1
    <3> QED
      BY <2>5, <3>1, FS_RemoveElement
  <2>7. Nesting(t, i, j) = Cardinality(From(E, i)) + (0 - 1)
    BY <1>2, <1>3, <2>1, <2>3
  <2> QED
    BY <1>4, <2>1, <2>6, <2>7
<1>7. CASE t[j] \notin Open /\ t[j] \notin Close
  <2>1. F = E /\ Weight(t[j]) = 0
    BY <1>7, AroundTheNext DEF Weight
  <2> HIDE DEF E, F
  <2> QED
    BY <1>2, <1>3, <1>4, <2>1
<1> QED
  BY <1>5, <1>6, <1>7

LEMMA Depth == ASSUME NEW t, NEW j \in Nat \ {0} PROVE NestingIsDepth(t, j)
<1> DEFINE Bad == {k \in Nat \ {0} : ~NestingIsDepth(t, k)}
<1> SUFFICES ASSUME Bad # {} PROVE FALSE
  OBVIOUS
<1>1. Bad \in SUBSET Nat
  OBVIOUS
<1> HIDE DEF Bad
<1>2. PICK k \in Bad : \A m \in Bad : k <= m
  BY <1>1, Least
<1>3. k \in Nat \ {0} /\ ~NestingIsDepth(t, k)
  BY DEF Bad
<1>4. k # 1
  BY <1>3, NoneAroundTheFirst DEF NestingIsDepth
<1>5. k - 1 \in Nat \ {0} /\ (k - 1) + 1 = k /\ ~(k <= k - 1)
  BY <1>3, <1>4
<1>6. NestingIsDepth(t, k - 1)
  BY <1>2, <1>5 DEF Bad
<1> QED
  BY <1>3, <1>5, <1>6, DepthStep

LEMMA AroundAfterAnEnd ==
  ASSUME NEW t, NEW j \in Nat \ {0}, t[j] \in Close, Enclosing(t, j) # {}
  PROVE  /\ Enclosing(t, j + 1) = {m \in Enclosing(t, j) : m < Innermost(Enclosing(t, j))}
         /\ Cardinality(Enclosing(t, j + 1)) = Cardinality(Enclosing(t, j)) - 1
<1> DEFINE E == Enclosing(t, j)
           x == Innermost(E)
<1>1. E \in SUBSET Nat /\ IsFiniteSet(E)
  BY EnclosingType
<1>2. Enclosing(t, j + 1) = E \ {x}
  BY Depth, EndClosesTheInnermost
<1>3. x \in E /\ \A m \in E : m <= x
  BY <1>1, InnermostIsLast
<1> HIDE DEF x
<1>4. Enclosing(t, j + 1) = {m \in E : m < x}
  <2>1. \A m \in E : m < x <=> m # x
    BY <1>1, <1>3
  <2> QED
    BY <1>2, <2>1
<1>5. Cardinality(Enclosing(t, j + 1)) = Cardinality(E) - 1
  BY <1>1, <1>2, <1>3, FS_RemoveElement
<1> QED
  BY <1>4, <1>5 DEF x

-----------------------------------------------------------------------------
(* Paths *)

LEMMA PathShape ==
  ASSUME NEW t, NEW A \in SUBSET Nat, IsFiniteSet(A),
         NEW F, \A i \in A : FrameOf(t, i) \in F
  PROVE  /\ PathOf(t, A) \in Seq(F) /\ Len(PathOf(t, A)) = Cardinality(A)
         /\ Cardinality(A) \in Nat /\ DOMAIN PathOf(t, A) = 1..Cardinality(A)
         /\ \A k \in 1..Cardinality(A) : /\ PathOf(t, A)[k] = FrameOf(t, Nth(A, k))
                                         /\ Nth(A, k) \in A
<1>1. Cardinality(A) \in Nat
  BY FS_CardinalityType
<1>2. \A k \in 1..Cardinality(A) : Nth(A, k) \in A
  BY NthProperties
<1>3. PathOf(t, A) = [k \in 1..Cardinality(A) |-> FrameOf(t, Nth(A, k))]
  BY DEF PathOf
<1> DEFINE c == Cardinality(A)
<1>4. PathOf(t, A) \in [1..c -> F]
  BY <1>2, <1>3
<1>5. PathOf(t, A) \in Seq(F)
  BY <1>1, <1>4, SeqDef
<1>6. Len(PathOf(t, A)) = c
  BY <1>1, <1>4, <1>5, LenProperties
<1> QED
  BY <1>1, <1>2, <1>3, <1>5, <1>6

LEMMA PathOfNone == ASSUME NEW t PROVE PathOf(t, {}) = <<>>
<1>1. {} \in SUBSET Nat /\ IsFiniteSet({}) /\ Cardinality({}) = 0
  BY FS_EmptySet
<1>2. PathOf(t, {}) \in Seq({}) /\ Len(PathOf(t, {})) = 0
  BY <1>1, PathShape
<1> QED
  BY <1>2, EmptySeq

LEMMA PathOfMore ==
  ASSUME NEW t, NEW A \in SUBSET Nat, IsFiniteSet(A), NEW x \in Nat, \A m \in A : m < x
  PROVE  PathOf(t, A \cup {x}) = Append(PathOf(t, A), FrameOf(t, x))
<1> DEFINE U == A \cup {x}
           F == {FrameOf(t, i) : i \in U}
           c == Cardinality(A)
           p == PathOf(t, A)
           q == PathOf(t, U)
<1>1. /\ IsFiniteSet(U) /\ U \in SUBSET Nat /\ c \in Nat /\ Cardinality(U) = c + 1
      /\ \A k \in 1..c : Nth(U, k) = Nth(A, k)
      /\ Nth(U, c + 1) = x
  BY NthOfMore
<1>2. \A i \in U : FrameOf(t, i) \in F
  OBVIOUS
<1>3. FrameOf(t, x) \in F /\ \A i \in A : FrameOf(t, i) \in F
  OBVIOUS
<1> HIDE DEF U, F
<1>4. /\ p \in Seq(F) /\ Len(p) = c /\ \A k \in 1..c : p[k] = FrameOf(t, Nth(A, k))
  BY <1>3, PathShape
<1>5. /\ q \in Seq(F) /\ Len(q) = c + 1
      /\ \A k \in 1..(c + 1) : q[k] = FrameOf(t, Nth(U, k))
  BY <1>1, <1>2, PathShape
<1> HIDE DEF p, q, c
<1> DEFINE fr == FrameOf(t, x)
           a == Append(p, fr)
<1>6. /\ a \in Seq(F) /\ Len(a) = c + 1
      /\ \A k \in 1..c : a[k] = p[k]
      /\ a[c + 1] = fr
  BY <1>3, <1>4, AppendProperties
<1> HIDE DEF a
<1>7. \A k \in 1..c : k \in 1..(c + 1) /\ q[k] = a[k]
  BY <1>1, <1>4, <1>5, <1>6
<1>8. q[c + 1] = a[c + 1]
  BY <1>1, <1>5, <1>6
<1>9. \A k \in 1..Len(q) : q[k] = a[k]
  BY <1>1, <1>5, <1>7, <1>8
<1>10. q = a
  BY <1>5, <1>6, <1>9, SeqEqual
<1> QED
  BY <1>10 DEF a, p, q, U

LEMMA PathOfOne == ASSUME NEW t, NEW i \in Nat PROVE PathOf(t, {i}) = <<FrameOf(t, i)>>
<1>1. {} \in SUBSET Nat /\ IsFiniteSet({}) /\ {} \cup {i} = {i}
  BY FS_EmptySet
<1>2. PathOf(t, {} \cup {i}) = Append(PathOf(t, {}), FrameOf(t, i))
  BY <1>1, PathOfMore
<1>3. PathOf(t, {}) = <<>>
  BY PathOfNone
<1>4. Append(<<>>, FrameOf(t, i)) = <<FrameOf(t, i)>>
  OBVIOUS
<1> QED
  BY <1>1, <1>2, <1>3, <1>4

LEMMA PathOfPart ==
  ASSUME NEW t, NEW A \in SUBSET Nat, IsFiniteSet(A), NEW x \in Nat,
         NEW B, B = {m \in A : m < x}
  PROVE  /\ Cardinality(B) \in Nat /\ Cardinality(B) <= Cardinality(A)
         /\ PathOf(t, B) = SubSeq(PathOf(t, A), 1, Cardinality(B))
<1> DEFINE F == {FrameOf(t, i) : i \in A}
           c == Cardinality(B)
           p == PathOf(t, A)
           q == PathOf(t, B)
<1>1. /\ B \in SUBSET A /\ B \in SUBSET Nat
      /\ \A i \in A : FrameOf(t, i) \in F
      /\ \A i \in B : FrameOf(t, i) \in F
  OBVIOUS
<1> HIDE DEF F
<1>2. IsFiniteSet(B) /\ c \in Nat /\ c <= Cardinality(A) /\ Cardinality(A) \in Nat
  BY <1>1, Part
<1>3. /\ p \in Seq(F) /\ Len(p) = Cardinality(A)
      /\ \A k \in 1..Cardinality(A) : p[k] = FrameOf(t, Nth(A, k))
  BY <1>1, PathShape
<1>4. /\ q \in Seq(F) /\ Len(q) = c /\ \A k \in 1..c : q[k] = FrameOf(t, Nth(B, k))
  BY <1>1, <1>2, PathShape
<1>5. \A k \in 1..c : Nth(A, k) = Nth(B, k)
  BY NthOfPart
<1> HIDE DEF p, q, c
<1> DEFINE r == SubSeq(p, 1, c)
<1>6. \A k \in 1..c : k \in 1..Cardinality(A) /\ k \in 1..Len(p)
  BY <1>2, <1>3
<1>7. \A k \in 1..c : p[k] \in F
  BY <1>3, <1>6, ElementOfSeq
<1>8. /\ r \in Seq(F) /\ Len(r) = c /\ \A k \in 1..c : r[k] = p[k]
  <2>1. /\ r \in Seq(F)
        /\ Len(r) = IF 1 <= c THEN c - 1 + 1 ELSE 0
        /\ \A k \in 1..(c - 1 + 1) : r[k] = p[1 + k - 1]
    BY <1>2, <1>7, SubSeqProperties
  <2> HIDE DEF r
  <2>2. Len(r) = c /\ c - 1 + 1 = c
    BY <1>2, <2>1
  <2>3. \A k \in 1..c : 1 + k - 1 = k
    OBVIOUS
  <2>4. \A k \in 1..c : r[k] = p[k]
    BY <2>1, <2>2, <2>3
  <2> QED
    BY <2>1, <2>2, <2>4
<1> HIDE DEF r
<1>9. \A k \in 1..c : q[k] = r[k]
  BY <1>3, <1>4, <1>5, <1>6, <1>8
<1>10. q = r
  BY <1>4, <1>8, <1>9, SeqEqual
<1> QED
  BY <1>2, <1>10 DEF p, q, r, c

-----------------------------------------------------------------------------
(* A path tells the groups it goes through. *)

LEMMA BeginsType ==
  ASSUME NEW t, NEW n \in Nat, DOMAIN t = 1..n
  PROVE  Begins(t) \in SUBSET (1..n) /\ Begins(t) \in SUBSET Nat /\ IsFiniteSet(Begins(t))
<1>1. Begins(t) \in SUBSET (1..n) /\ 1 \in Int /\ n \in Int
  BY DEF Begins
<1>2. Begins(t) \in SUBSET Nat
  BY <1>1
<1> QED
  BY <1>1, <1>2, Between

(* Groups before x with this name and these openings around them. *)
Siblings(t, E, name, x) ==
  {m \in Begins(t) : m < x /\ Enclosing(t, m) = E /\ GroupName(t, m) = name}

LEMMA SiblingsType ==
  ASSUME NEW t, NEW n \in Nat, DOMAIN t = 1..n, NEW E, NEW name, NEW x
  PROVE  /\ Siblings(t, E, name, x) \in SUBSET Nat
         /\ IsFiniteSet(Siblings(t, E, name, x))
         /\ Cardinality(Siblings(t, E, name, x)) \in Nat
<1>1. Siblings(t, E, name, x) \in SUBSET Begins(t)
  BY DEF Siblings
<1> QED
  BY <1>1, BeginsType, Part

LEMMA OccurrenceOf ==
  ASSUME NEW t, NEW i
  PROVE  Occurrence(t, i) = Cardinality(Siblings(t, Enclosing(t, i), GroupName(t, i), i))
BY DEF Occurrence, Siblings

LEMMA OccurrenceGrows ==
  ASSUME NEW t, NEW n \in Nat, DOMAIN t = 1..n, NEW i \in Begins(t), NEW j \in Begins(t), i < j,
         Enclosing(t, i) = Enclosing(t, j), GroupName(t, i) = GroupName(t, j)
  PROVE  Occurrence(t, i) # Occurrence(t, j)
<1> DEFINE E == Enclosing(t, j)
           A == Siblings(t, E, GroupName(t, j), i)
           B == Siblings(t, E, GroupName(t, j), j)
<1>1. IsFiniteSet(B)
  BY SiblingsType
<1>2. A \in SUBSET B
  <2>1. i \in Nat /\ j \in Nat /\ \A m \in Begins(t) : m \in Nat
    BY BeginsType
  <2>2. \A m \in Begins(t) : m < i => m < j
    BY <2>1
  <2> QED
    BY <2>2 DEF Siblings
<1>3. i \in B /\ i \notin A
  <2>1. ~(i < i)
    BY BeginsType
  <2> QED
    BY <2>1 DEF Siblings
<1>4. Occurrence(t, i) = Cardinality(A) /\ Occurrence(t, j) = Cardinality(B)
  BY OccurrenceOf
<1> HIDE DEF A, B
<1> QED
  BY <1>1, <1>2, <1>3, <1>4, Part

LEMMA FrameTells ==
  ASSUME NEW t, NEW n \in Nat, DOMAIN t = 1..n, NEW i \in Begins(t), NEW j \in Begins(t),
         Enclosing(t, i) = Enclosing(t, j), FrameOf(t, i) = FrameOf(t, j)
  PROVE  i = j
<1>1. GroupName(t, i) = GroupName(t, j) /\ Occurrence(t, i) = Occurrence(t, j)
  BY DEF FrameOf
<1>2. i \in Nat /\ j \in Nat
  BY BeginsType
<1>3. ~(i < j) /\ ~(j < i)
  BY <1>1, OccurrenceGrows
<1> QED
  BY <1>2, <1>3

LEMMA SameBefore ==
  ASSUME NEW A \in SUBSET Nat, IsFiniteSet(A), NEW B \in SUBSET Nat, IsFiniteSet(B),
         Cardinality(A) = Cardinality(B), NEW k \in 1..Cardinality(A),
         \A l \in 1..(k - 1) : Nth(A, l) = Nth(B, l),
         NEW m \in A, m < Nth(A, k)
  PROVE  m \in B /\ m < Nth(B, k)
<1> DEFINE l == Rank(A, m) + 1
           x == Nth(A, k)
           y == Nth(B, k)
<1>1. Cardinality(A) \in Nat /\ k \in 1..Cardinality(B)
  BY FS_CardinalityType
<1>2. x \in A /\ Rank(A, x) = k - 1
  BY NthProperties
<1>3. l \in 1..Cardinality(A) /\ Nth(A, l) = m
  BY NthOfRank
<1>4. Rank(A, m) \in Nat /\ Rank(A, m) < Rank(A, x)
  <2>1. x \in Nat /\ m < x
    BY <1>2
  <2> HIDE DEF x
  <2> QED
    BY <2>1, RankGrows
<1>5. l < k /\ l \in 1..(k - 1) /\ l \in 1..Cardinality(B)
  BY <1>1, <1>2, <1>3, <1>4
<1> HIDE DEF l, x, y
<1>6. Nth(B, l) = m
  BY <1>3, <1>5
<1>7. Nth(B, l) \in B
  BY <1>5, NthProperties
<1>8. Nth(B, l) < y
  BY <1>1, <1>5, NthIncreases DEF y
<1> QED
  BY <1>6, <1>7, <1>8 DEF y

(* Whatever the text, positions with the same path are in the same         *)
(* sequences: what is stored by path is never merged (FieldPath).          *)
THEOREM PathTells ==
  ASSUME NEW t, NEW n \in Nat, DOMAIN t = 1..n, NEW i \in 1..(n + 1), NEW j \in 1..(n + 1),
         PathOf(t, Enclosing(t, i)) = PathOf(t, Enclosing(t, j))
  PROVE  Enclosing(t, i) = Enclosing(t, j)
<1> DEFINE A == Enclosing(t, i)
           B == Enclosing(t, j)
           c == Cardinality(A)
<1>0. i \in Nat /\ j \in Nat
  OBVIOUS
<1>1. /\ A \in SUBSET Nat /\ IsFiniteSet(A) /\ c \in Nat
      /\ B \in SUBSET Nat /\ IsFiniteSet(B)
      /\ A \in SUBSET Begins(t) /\ B \in SUBSET Begins(t)
  <2>1. /\ A \in SUBSET Nat /\ IsFiniteSet(A) /\ c \in Nat
        /\ B \in SUBSET Nat /\ IsFiniteSet(B)
    BY <1>0, EnclosingType
  <2>2. \A m \in A : m \in 1..n /\ t[m] \in Open
    BY DEF Enclosing
  <2>3. \A m \in B : m \in 1..n /\ t[m] \in Open
    BY DEF Enclosing
  <2> QED
    BY <2>1, <2>2, <2>3 DEF Begins
<1>2. /\ Cardinality(B) = c
      /\ \A k \in 1..c : FrameOf(t, Nth(A, k)) = FrameOf(t, Nth(B, k))
  <2> DEFINE F == {FrameOf(t, m) : m \in A \cup B}
  <2>1. (\A m \in A : FrameOf(t, m) \in F) /\ (\A m \in B : FrameOf(t, m) \in F)
    OBVIOUS
  <2> HIDE DEF F, A, B
  <2>2. /\ Len(PathOf(t, A)) = c
        /\ \A k \in 1..c : PathOf(t, A)[k] = FrameOf(t, Nth(A, k))
    BY <1>1, <2>1, PathShape
  <2>3. /\ Len(PathOf(t, B)) = Cardinality(B)
        /\ \A k \in 1..Cardinality(B) : PathOf(t, B)[k] = FrameOf(t, Nth(B, k))
    BY <1>1, <2>1, PathShape
  <2>4. PathOf(t, A) = PathOf(t, B)
    BY DEF A, B
  <2>5. Cardinality(B) = c
    BY <2>2, <2>3, <2>4
  <2> QED
    BY <2>2, <2>3, <2>4, <2>5
<1>3. \A k \in 1..c : Nth(A, k) \in A /\ Nth(B, k) \in B
  BY <1>1, <1>2, NthProperties
<1> DEFINE Bad == {k \in 1..c : Nth(A, k) # Nth(B, k)}
<1>4. CASE Bad # {}
  <2>1. Bad \in SUBSET Nat
    OBVIOUS
  <2> HIDE DEF Bad
  <2>2. PICK k \in Bad : \A l \in Bad : k <= l
    BY <1>4, <2>1, Least
  <2>3. k \in 1..c /\ Nth(A, k) # Nth(B, k)
    BY DEF Bad
  <2>4. \A l \in 1..(k - 1) : Nth(A, l) = Nth(B, l)
    <3>1. \A l \in 1..(k - 1) : l \in 1..c /\ ~(k <= l)
      BY <1>1, <2>3
    <3> QED
      BY <2>2, <3>1 DEF Bad
  <2> DEFINE x == Nth(A, k)
             y == Nth(B, k)
  <2>5. x \in A /\ y \in B
    BY <1>3, <2>3
  <2>6. Enclosing(t, x) = {m \in A : m < x} /\ Enclosing(t, y) = {m \in B : m < y}
    BY <1>0, <2>5, AroundAnOpening
  <2>7. ASSUME NEW m \in A, m < x PROVE m \in B /\ m < y
    <3> HIDE DEF A, B
    <3> QED
      BY <1>1, <1>2, <2>3, <2>4, <2>7, SameBefore
  <2>8. ASSUME NEW m \in B, m < y PROVE m \in A /\ m < x
    <3>1. k \in 1..Cardinality(B) /\ \A l \in 1..(k - 1) : Nth(B, l) = Nth(A, l)
      BY <1>2, <2>3, <2>4
    <3> HIDE DEF A, B
    <3> QED
      BY <1>1, <1>2, <2>8, <3>1, SameBefore
  <2>9. FrameOf(t, x) = FrameOf(t, y) /\ x \in Begins(t) /\ y \in Begins(t)
    BY <1>1, <1>2, <2>3, <2>5
  <2>10. x # y
    BY <2>3
  <2> HIDE DEF x, y, A, B
  <2>11. Enclosing(t, x) = Enclosing(t, y)
    BY <2>6, <2>7, <2>8
  <2> QED
    BY <2>9, <2>10, <2>11, FrameTells
<1>5. CASE Bad = {}
  <2>1. \A k \in 1..c : Nth(A, k) = Nth(B, k)
    BY <1>5
  <2>2. \A m \in A : m \in B
    <3> HIDE DEF A, B
    <3> TAKE m \in A
    <3>1. Rank(A, m) + 1 \in 1..c /\ Nth(A, Rank(A, m) + 1) = m
      BY <1>1, NthOfRank
    <3> QED
      BY <1>3, <2>1, <3>1
  <2>3. \A m \in B : m \in A
    <3> HIDE DEF A, B
    <3> TAKE m \in B
    <3>1. Rank(B, m) + 1 \in 1..c /\ Nth(B, Rank(B, m) + 1) = m
      BY <1>1, <1>2, NthOfRank
    <3> QED
      BY <1>3, <2>1, <3>1
  <2> QED
    BY <2>2, <2>3
<1> QED
  BY <1>4, <1>5

-----------------------------------------------------------------------------
(* A text that grows by one field keeps what was before. *)

(* s is t, of n fields, and one more. *)
Grown(t, s, n) ==
  n \in Nat /\ DOMAIN t = 1..n /\ DOMAIN s = 1..(n + 1) /\ \A m \in 1..n : s[m] = t[m]

LEMMA KeptEnclosing ==
  ASSUME NEW t, NEW s, NEW n, Grown(t, s, n), NEW j \in 0..(n + 1)
  PROVE  Enclosing(s, j) = Enclosing(t, j)
<1>1. j \in Nat /\ \A m \in 1..(j - 1) : m \in 1..n
  BY DEF Grown
<1>2. \A m \in 1..(j - 1) : s[m] = t[m]
  BY <1>1 DEF Grown
<1> QED
  BY <1>1, <1>2, SameEnclosing

LEMMA KeptStarts ==
  ASSUME NEW t, NEW s, NEW n, Grown(t, s, n), NEW i \in 1..n
  PROVE  /\ s[i] = t[i] /\ StartsGroup(s, i) = StartsGroup(t, i)
         /\ GroupName(s, i) = GroupName(t, i)
         /\ Enclosing(s, i) = Enclosing(t, i)
<1>1. s[i] = t[i] /\ i \in 0..(n + 1)
  BY DEF Grown
<1>2. Enclosing(s, i) = Enclosing(t, i)
  BY <1>1, KeptEnclosing
<1> QED
  BY <1>1, <1>2 DEF StartsGroup, GroupName

LEMMA BeginsGrow ==
  ASSUME NEW t, NEW s, NEW n, Grown(t, s, n)
  PROVE  /\ \A m \in 1..n : m \in Begins(s) <=> m \in Begins(t)
         /\ s[n + 1] \in Open \/ StartsGroup(s, n + 1) => Begins(s) = Begins(t) \cup {n + 1}
         /\ ~(s[n + 1] \in Open \/ StartsGroup(s, n + 1)) => Begins(s) = Begins(t)
<1>1. DOMAIN t = 1..n /\ DOMAIN s = 1..(n + 1) /\ n \in Nat
  BY DEF Grown
<1>2. /\ 1..(n + 1) = 1..n \cup {n + 1} /\ n + 1 \notin 1..n
  BY <1>1
<1>3. \A m \in 1..n : m \in Begins(s) <=> m \in Begins(t)
  BY <1>1, <1>2, KeptStarts DEF Begins
<1>4. n + 1 \in Begins(s) <=> s[n + 1] \in Open \/ StartsGroup(s, n + 1)
  BY <1>1, <1>2 DEF Begins
<1>5. Begins(t) \in SUBSET (1..n) /\ Begins(s) \in SUBSET (1..n \cup {n + 1})
  BY <1>1, <1>2 DEF Begins
<1> HIDE DEF Grown
<1> QED
  BY <1>2, <1>3, <1>4, <1>5

(* The groups counted before x are the same, up to the next position. *)
LEMMA KeptSiblings ==
  ASSUME NEW t, NEW s, NEW n, Grown(t, s, n), NEW E, NEW name, NEW x \in 1..(n + 1)
  PROVE  Siblings(s, E, name, x) = Siblings(t, E, name, x)
<1>1. /\ n \in Nat /\ DOMAIN t = 1..n /\ DOMAIN s = 1..(n + 1)
      /\ \A m \in 1..n : m \in Begins(s) <=> m \in Begins(t)
  BY BeginsGrow DEF Grown
<1>2. \A m \in 1..n : Enclosing(s, m) = Enclosing(t, m) /\ GroupName(s, m) = GroupName(t, m)
  BY KeptStarts
<1>3. \A m \in Begins(s) : m < x => m \in 1..n
  BY <1>1 DEF Begins
<1>4. \A m \in Begins(t) : m \in 1..n
  BY <1>1 DEF Begins
<1> QED
  BY <1>1, <1>2, <1>3, <1>4 DEF Siblings

LEMMA KeptFrame ==
  ASSUME NEW t, NEW s, NEW n, Grown(t, s, n), NEW i \in 1..n
  PROVE  Occurrence(s, i) = Occurrence(t, i) /\ FrameOf(s, i) = FrameOf(t, i)
<1>1. n \in Nat
  BY DEF Grown
<1>2. i \in 1..(n + 1)
  BY <1>1
<1>3. GroupName(s, i) = GroupName(t, i) /\ Enclosing(s, i) = Enclosing(t, i)
  BY KeptStarts
<1>4. Occurrence(s, i) = Occurrence(t, i)
  BY <1>2, <1>3, KeptSiblings, OccurrenceOf
<1> QED
  BY <1>3, <1>4 DEF FrameOf

LEMMA KeptPath ==
  ASSUME NEW t, NEW s, NEW n, Grown(t, s, n), NEW A \in SUBSET (1..n)
  PROVE  PathOf(s, A) = PathOf(t, A)
<1>1. A \in SUBSET Nat /\ IsFiniteSet(A)
  <2>1. n \in Int /\ 1 \in Int /\ A \in SUBSET Nat
    BY DEF Grown
  <2> QED
    BY <2>1, Between
<1>2. \A k \in 1..Cardinality(A) : Nth(A, k) \in 1..n
  BY <1>1, NthProperties
<1>3. \A k \in 1..Cardinality(A) : FrameOf(s, Nth(A, k)) = FrameOf(t, Nth(A, k))
  BY <1>2, KeptFrame
<1> QED
  BY <1>3 DEF PathOf

LEMMA KeptEnclosingPath ==
  ASSUME NEW t, NEW s, NEW n, Grown(t, s, n), NEW j \in 0..(n + 1)
  PROVE  PathOf(s, Enclosing(s, j)) = PathOf(t, Enclosing(t, j))
<1>1. Enclosing(s, j) = Enclosing(t, j)
  BY KeptEnclosing
<1>2. j \in Nat /\ n \in Nat
  BY DEF Grown
<1>3. Enclosing(t, j) \in SUBSET (1..n)
  BY <1>2, EnclosingType
<1> QED
  BY <1>1, <1>3, KeptPath

LEMMA KeptGroupStart ==
  ASSUME NEW t, NEW s, NEW n, Grown(t, s, n), NEW j \in 0..n
  PROVE  GroupStart(s, j) = GroupStart(t, j)
<1>1. n \in Nat /\ \A m \in 1..n : s[m] = t[m]
  BY DEF Grown
<1>2. Enclosing(s, j) = Enclosing(t, j)
  BY <1>1, KeptEnclosing
<1>3. \A i \in 1..j : StartsGroup(s, i) = StartsGroup(t, i) /\ s[i] = t[i]
  BY <1>1, KeptStarts
<1>4. \A i \in 1..j : \A k \in (i + 1)..j : s[k] = t[k]
  BY <1>1
<1> QED
  BY <1>2, <1>3, <1>4 DEF GroupStart

LEMMA KeptFieldPath ==
  ASSUME NEW t, NEW s, NEW n, Grown(t, s, n), NEW j \in 1..n
  PROVE  FieldPath(s, j) = FieldPath(t, j)
<1>1. n \in Nat
  BY DEF Grown
<1>2. j \in 0..n /\ j \in 0..(n + 1) /\ j \in Nat
  BY <1>1
<1>3. Enclosing(s, j) = Enclosing(t, j) /\ GroupStart(s, j) = GroupStart(t, j)
  BY <1>2, KeptEnclosing, KeptGroupStart
<1>4. Enclosing(t, j) \cup GroupStart(t, j) \in SUBSET (1..n)
  <2>1. Enclosing(t, j) \in SUBSET (1..(j - 1)) /\ GroupStart(t, j) \in SUBSET (1..j)
    BY <1>2, EnclosingType DEF GroupStart
  <2>2. \A m : m \in 1..(j - 1) \/ m \in 1..j => m \in 1..n
    BY <1>1
  <2> QED
    BY <2>1, <2>2
<1> QED
  BY <1>3, <1>4, KeptPath DEF FieldPath

(* A text is well nested, or not too deep, if it was before and the new    *)
(* field does no harm.                                                     *)
EndsFit(t, j) ==
  t[j] \in Close =>
    Enclosing(t, j) # {} /\ t[Innermost(Enclosing(t, j))].name = t[j].name

DepthFits(t, j) == t[j] \in Open => Cardinality(Enclosing(t, j)) < MaxDepth

LEMMA KeptNesting ==
  ASSUME NEW t, NEW s, NEW n, Grown(t, s, n)
  PROVE  /\ WellNested(s) <=> WellNested(t) /\ EndsFit(s, n + 1)
         /\ WithinDepth(s) <=> WithinDepth(t) /\ DepthFits(s, n + 1)
<1>1. n \in Nat /\ DOMAIN t = 1..n /\ DOMAIN s = 1..(n + 1)
  BY DEF Grown
<1>2. \A j \in 1..(n + 1) : j \in 1..n \/ j = n + 1
  BY <1>1
<1>3. n + 1 \in 1..(n + 1) /\ \A j \in 1..n : j \in 1..(n + 1)
  BY <1>1
<1>4. ASSUME NEW j \in 1..n
      PROVE  (EndsFit(s, j) <=> EndsFit(t, j)) /\ (DepthFits(s, j) <=> DepthFits(t, j))
  <2>1. s[j] = t[j] /\ Enclosing(s, j) = Enclosing(t, j)
    BY KeptStarts
  <2>2. DepthFits(s, j) <=> DepthFits(t, j)
    BY <2>1 DEF DepthFits
  <2>3. Enclosing(t, j) # {} =>
          Innermost(Enclosing(t, j)) \in 1..n
    <3>1. Enclosing(t, j) \in SUBSET (1..(j - 1)) /\ Enclosing(t, j) \in SUBSET Nat
          /\ IsFiniteSet(Enclosing(t, j))
      BY EnclosingType
    <3>2. Enclosing(t, j) # {} => Innermost(Enclosing(t, j)) \in Enclosing(t, j)
      BY <3>1, InnermostIsLast
    <3>3. \A m \in 1..(j - 1) : m \in 1..n
      BY <1>1
    <3> QED
      BY <3>1, <3>2, <3>3
  <2>4. EndsFit(s, j) <=> EndsFit(t, j)
    BY <2>1, <2>3 DEF EndsFit, Grown
  <2> QED
    BY <2>2, <2>4
<1>5. /\ WellNested(t) <=> \A j \in 1..n : EndsFit(t, j)
      /\ WithinDepth(t) <=> \A j \in 1..n : DepthFits(t, j)
      /\ WellNested(s) <=> \A j \in 1..(n + 1) : EndsFit(s, j)
      /\ WithinDepth(s) <=> \A j \in 1..(n + 1) : DepthFits(s, j)
  BY <1>1 DEF WellNested, WithinDepth, EndsFit, DepthFits
<1> QED
  BY <1>2, <1>3, <1>4, <1>5

(* The anchored group the next field is in. *)
LEMMA NextGroupStart ==
  ASSUME NEW t, NEW s, NEW n, Grown(t, s, n)
  PROVE  /\ StartsGroup(s, n + 1) => GroupStart(s, n + 1) = {n + 1}
         /\ ~StartsGroup(s, n + 1) =>
              GroupStart(s, n + 1) =
                {i \in GroupStart(t, n) :
                   /\ Enclosing(s, n + 1) = {}
                   /\ s[n + 1] \in Plain /\ ~IsAnchor(s[n + 1].tag)
                   /\ s[n + 1].tag \in Anchored[AnchorOf(t[i].tag)].members}
<1>0. n \in Nat /\ \A m \in 1..n : s[m] = t[m]
  BY DEF Grown
<1> DEFINE In(u, i, k) == /\ u[k] \in Plain /\ ~IsAnchor(u[k].tag)
                          /\ u[k].tag \in Anchored[AnchorOf(u[i].tag)].members
<1>1. \A u, j : GroupStart(u, j) =
        {i \in 1..j : Enclosing(u, j) = {} /\ StartsGroup(u, i) /\ \A k \in (i + 1)..j : In(u, i, k)}
  BY DEF GroupStart
<1>2. \A i \in 1..n : \A k \in (i + 1)..n : In(s, i, k) <=> In(t, i, k)
  BY <1>0
<1>3. \A i \in 1..n : StartsGroup(s, i) <=> StartsGroup(t, i)
  BY KeptStarts
<1>4. \A i \in 1..n : In(s, i, n + 1) <=> /\ s[n + 1] \in Plain /\ ~IsAnchor(s[n + 1].tag)
                                          /\ s[n + 1].tag \in Anchored[AnchorOf(t[i].tag)].members
  BY <1>0
<1>5. StartsGroup(s, n + 1) =>
        s[n + 1] \in Plain /\ IsAnchor(s[n + 1].tag) /\ Enclosing(s, n + 1) = {}
  BY DEF StartsGroup
<1>6. /\ 1..(n + 1) = 1..n \cup {n + 1} /\ n + 1 \notin 1..n
      /\ (n + 1 + 1)..(n + 1) = {}
      /\ \A i \in 1..n : (i + 1)..(n + 1) = (i + 1)..n \cup {n + 1}
  BY <1>0
<1>7. ASSUME NEW i \in 1..n, StartsGroup(t, i), \A k \in (i + 1)..n : In(t, i, k)
      PROVE  Enclosing(s, n + 1) = Enclosing(t, n)
  <2>1. Enclosing(s, n + 1) = Enclosing(t, n + 1) /\ n \in Nat \ {0}
    <3>1. n + 1 \in 0..(n + 1) /\ n \in Nat \ {0}
      BY <1>0
    <3> QED
      BY <3>1, KeptEnclosing
  <2>2. t[n] \in Plain
    <3>1. i = n \/ n \in (i + 1)..n
      BY <1>0
    <3> QED
      BY <1>7, <3>1 DEF StartsGroup
  <2>3. t[n] \notin Open /\ t[n] \notin Close
    BY <2>2, Kinds
  <2> QED
    BY <2>1, <2>3, AroundTheNext
<1>8. CASE StartsGroup(s, n + 1)
  <2>1. \A i \in 1..n : ~In(s, i, n + 1)
    BY <1>5, <1>8
  <2>2. n + 1 \in GroupStart(s, n + 1)
    BY <1>1, <1>5, <1>6, <1>8
  <2>3. \A i \in GroupStart(s, n + 1) : i = n + 1
    <3> TAKE i \in GroupStart(s, n + 1)
    <3>1. i \in 1..(n + 1) /\ \A k \in (i + 1)..(n + 1) : In(s, i, k)
      BY <1>1
    <3> HIDE DEF In
    <3> QED
      BY <1>6, <2>1, <3>1
  <2> QED
    BY <1>8, <2>2, <2>3
<1>9. CASE ~StartsGroup(s, n + 1)
  <2> DEFINE G == {i \in GroupStart(t, n) : Enclosing(s, n + 1) = {} /\ In(s, i, n + 1)}
  <2> HIDE DEF In
  <2>1. ASSUME NEW i \in GroupStart(s, n + 1) PROVE i \in G
    <3>1. /\ i \in 1..(n + 1) /\ Enclosing(s, n + 1) = {} /\ StartsGroup(s, i)
          /\ \A k \in (i + 1)..(n + 1) : In(s, i, k)
      BY <1>1
    <3>2. i \in 1..n
      BY <1>6, <1>9, <3>1
    <3>3. /\ StartsGroup(t, i) /\ In(s, i, n + 1)
          /\ \A k \in (i + 1)..n : In(s, i, k)
      BY <1>3, <1>6, <3>1, <3>2
    <3>4. \A k \in (i + 1)..n : In(t, i, k)
      BY <1>2, <3>2, <3>3
    <3>5. Enclosing(t, n) = {}
      BY <1>7, <3>1, <3>2, <3>3, <3>4
    <3>6. i \in GroupStart(t, n)
      BY <1>1, <3>2, <3>3, <3>4, <3>5
    <3> QED
      BY <3>1, <3>3, <3>6
  <2>2. ASSUME NEW i \in G PROVE i \in GroupStart(s, n + 1)
    <3>1. /\ i \in 1..n /\ StartsGroup(t, i)
          /\ \A k \in (i + 1)..n : In(t, i, k)
          /\ Enclosing(s, n + 1) = {} /\ In(s, i, n + 1)
      BY <1>1
    <3>2. /\ StartsGroup(s, i) /\ \A k \in (i + 1)..n : In(s, i, k)
      BY <1>2, <1>3, <3>1
    <3>3. i \in 1..(n + 1) /\ \A k \in (i + 1)..(n + 1) : In(s, i, k)
      BY <1>6, <3>1, <3>2
    <3> QED
      BY <1>1, <3>1, <3>2, <3>3
  <2>3. GroupStart(s, n + 1) = G
    BY <2>1, <2>2
  <2>4. \A i \in GroupStart(t, n) : i \in 1..n
    BY <1>1
  <2> QED
    BY <1>4, <1>9, <2>3, <2>4
<1> QED
  BY <1>8, <1>9
=============================================================================
