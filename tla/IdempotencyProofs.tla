-------------------------- MODULE IdempotencyProofs --------------------------
(***************************************************************************)
(* The idempotency keys, for any uploads, any keys and a cache of any      *)
(* size: a repeat of an answered upload makes no job while its key is in   *)
(* the map, and a key only leaves the map when it is the coldest one.      *)
(***************************************************************************)
EXTENDS IdempotencyStore, SequenceTheorems, FiniteSetTheorems, TLAPS

(* What the order is: each key once, and a key has been used since all     *)
(* those before it.                                                        *)
Elements(s)    == {s[i] : i \in 1..Len(s)}
Distinct(s)    == \A i, j \in 1..Len(s) : s[i] = s[j] => i = j
ByUse(s, used) == \A i, j \in 1..Len(s) : i < j => s[j] \in used[s[i]]

(* Uses so far are finitely many, and the map has as many keys as places   *)
(* in the order.                                                           *)
Finite ==
  /\ \A k \in Key : IsFiniteSet(since[k])
  /\ IsFiniteSet(DOMAIN jobOf) /\ Cardinality(DOMAIN jobOf) = Len(order)

(* A key answers with a request that has been answered. *)
BoundIsDone == \A k \in DOMAIN jobOf : pc[jobOf[k]] = "done"

Unanswered == \A r \in Request : pc[r] # "done" => answer[r] = "none"

(* The key of a repeat stays in the map until it is lost. *)
RetriesFindKey ==
  \A r \in retry : pc[r] # "idle" /\ (KeyOf[r] \in lost \/ KeyOf[r] \in DOMAIN jobOf)

(* The inductive invariant. *)
IInv ==
  /\ TypeOK
  /\ ByUse(order, since)
  /\ Finite
  /\ BoundIsDone
  /\ Unanswered
  /\ stale \subseteq lost
  /\ RetriesFindKey
  /\ RetryCreatesNoJob

-----------------------------------------------------------------------------
(* The order *)

(* The sequence without one place. *)
LEMMA CutOut ==
  ASSUME NEW s \in Seq(Key), NEW p \in 1..Len(s)
  PROVE  LET t == SubSeq(s, 1, p - 1) \o SubSeq(s, p + 1, Len(s))
         IN  /\ t \in Seq(Key) /\ Len(t) = Len(s) - 1
             /\ \A i \in 1..Len(t) : t[i] = IF i < p THEN s[i] ELSE s[i + 1]
<1> DEFINE a == SubSeq(s, 1, p - 1)
           b == SubSeq(s, p + 1, Len(s))
           t == a \o b
<1>0. Len(s) \in Nat /\ p \in Nat /\ 1 <= p /\ p <= Len(s) /\ \A i \in 1..Len(s) : s[i] \in Key
  BY LenProperties, ElementOfSeq
<1>1. a \in Seq(Key) /\ Len(a) = p - 1 /\ \A i \in 1..(p - 1) : a[i] = s[i]
  <2>1. \A i \in 1..(p - 1) : s[i] \in Key
    BY <1>0
  <2> QED
    BY <1>0, <2>1, SubSeqProperties
<1>2. b \in Seq(Key) /\ Len(b) = Len(s) - p /\ \A i \in 1..(Len(s) - p) : b[i] = s[p + i]
  <2>1. \A i \in (p + 1)..Len(s) : s[i] \in Key
    BY <1>0
  <2>2. /\ b \in Seq(Key) /\ Len(b) = IF p + 1 <= Len(s) THEN Len(s) - (p + 1) + 1 ELSE 0
        /\ \A i \in 1..(Len(s) - (p + 1) + 1) : b[i] = s[(p + 1) + i - 1]
    BY <1>0, <2>1, SubSeqProperties
  <2> QED
    BY <1>0, <2>2
<1> HIDE DEF a, b
<1>3. /\ t \in Seq(Key) /\ Len(t) = Len(a) + Len(b)
      /\ \A i \in 1..(Len(a) + Len(b)) : t[i] = IF i <= Len(a) THEN a[i] ELSE b[i - Len(a)]
  BY <1>1, <1>2, ConcatProperties
<1> HIDE DEF t
<1>4. Len(t) = Len(s) - 1
  BY <1>0, <1>1, <1>2, <1>3
<1>5. ASSUME NEW i \in 1..Len(t)
      PROVE  t[i] = IF i < p THEN s[i] ELSE s[i + 1]
  <2>1. CASE i < p
    BY <1>0, <1>1, <1>2, <1>3, <1>4, <2>1
  <2>2. CASE ~(i < p)
    <3>1. i - (p - 1) \in 1..(Len(s) - p) /\ p + (i - (p - 1)) = i + 1
      BY <1>0, <1>4, <2>2
    <3>2. t[i] = b[i - (p - 1)]
      BY <1>0, <1>1, <1>2, <1>3, <1>4, <2>2
    <3>3. b[i - (p - 1)] = s[p + (i - (p - 1))]
      BY <1>2, <3>1
    <3> QED
      BY <2>2, <3>1, <3>2, <3>3
  <2> QED
    BY <2>1, <2>2
<1> QED
  BY <1>3, <1>4, <1>5 DEF t, a, b

(* Taking the key at one place out. *)
LEMMA Removed ==
  ASSUME NEW s \in Seq(Key), Distinct(s), NEW p \in 1..Len(s), NEW used, ByUse(s, used),
         NEW t \in Seq(Key), Len(t) = Len(s) - 1,
         \A i \in 1..Len(t) : t[i] = IF i < p THEN s[i] ELSE s[i + 1]
  PROVE  Distinct(t) /\ Elements(t) = Elements(s) \ {s[p]} /\ ByUse(t, used)
<1>0. Len(s) \in Nat /\ p \in Nat /\ 1 <= p /\ p <= Len(s)
  BY LenProperties
<1>1. Distinct(t)
  BY <1>0 DEF Distinct
<1>2. Elements(t) = Elements(s) \ {s[p]}
  <2>1. ASSUME NEW i \in 1..Len(t)
        PROVE  t[i] \in Elements(s) \ {s[p]}
    BY <1>0 DEF Elements, Distinct
  <2>2. ASSUME NEW i \in 1..Len(s), s[i] # s[p]
        PROVE  s[i] \in Elements(t)
    <3>1. CASE i < p
      BY <1>0, <3>1 DEF Elements
    <3>2. CASE ~(i < p)
      <4>1. i - 1 \in 1..Len(t) /\ ~(i - 1 < p) /\ (i - 1) + 1 = i
        BY <1>0, <2>2, <3>2
      <4>2. t[i - 1] = s[i]
        BY <4>1
      <4> QED
        BY <4>1, <4>2 DEF Elements
    <3> QED
      BY <3>1, <3>2
  <2> QED
    BY <2>1, <2>2 DEF Elements
<1>3. ByUse(t, used)
  BY <1>0 DEF ByUse
<1> QED
  BY <1>1, <1>2, <1>3

(* Giving up the first key. *)
LEMMA Beheaded ==
  ASSUME NEW s \in Seq(Key), Distinct(s), s # <<>>, NEW used, ByUse(s, used)
  PROVE  /\ Tail(s) \in Seq(Key) /\ Len(Tail(s)) = Len(s) - 1
         /\ Head(s) = s[1] /\ 1 \in 1..Len(s)
         /\ Distinct(Tail(s)) /\ Elements(Tail(s)) = Elements(s) \ {s[1]} /\ ByUse(Tail(s), used)
<1>0. Len(s) \in Nat \ {0} /\ Head(s) = s[1]
  BY EmptySeq
<1>1. /\ Tail(s) \in Seq(Key) /\ Len(Tail(s)) = Len(s) - 1
      /\ \A i \in 1..Len(Tail(s)) : Tail(s)[i] = s[i + 1]
  BY HeadTailProperties
<1>2. Distinct(Tail(s)) /\ ByUse(Tail(s), used)
  BY <1>0, <1>1 DEF Distinct, ByUse
<1>3. Elements(Tail(s)) = Elements(s) \ {s[1]}
  <2>1. ASSUME NEW i \in 1..Len(Tail(s))
        PROVE  Tail(s)[i] \in Elements(s) \ {s[1]}
    BY <1>0, <1>1 DEF Elements, Distinct
  <2>2. ASSUME NEW i \in 1..Len(s), s[i] # s[1]
        PROVE  s[i] \in Elements(Tail(s))
    <3>1. i - 1 \in 1..Len(Tail(s)) /\ Tail(s)[i - 1] = s[i]
      BY <1>0, <1>1, <2>2
    <3> QED
      BY <3>1 DEF Elements
  <2> QED
    BY <2>1, <2>2 DEF Elements
<1> QED
  BY <1>0, <1>1, <1>2, <1>3

(* Using a key puts it at the end. *)
LEMMA Appended ==
  ASSUME NEW s \in Seq(Key), Distinct(s), NEW k \in Key, k \notin Elements(s),
         NEW used, ByUse(s, used),
         NEW now, now = [q \in Key |-> IF q = k THEN {} ELSE used[q] \cup {k}]
  PROVE  /\ Append(s, k) \in Seq(Key) /\ Len(Append(s, k)) = Len(s) + 1
         /\ Distinct(Append(s, k)) /\ Elements(Append(s, k)) = Elements(s) \cup {k}
         /\ ByUse(Append(s, k), now)
<1>0. Len(s) \in Nat /\ \A i \in 1..Len(s) : s[i] \in Key /\ s[i] # k
  BY LenProperties, ElementOfSeq DEF Elements
<1>1. /\ Append(s, k) \in Seq(Key) /\ Len(Append(s, k)) = Len(s) + 1
      /\ \A i \in 1..Len(s) : Append(s, k)[i] = s[i]
      /\ Append(s, k)[Len(s) + 1] = k
  BY AppendProperties
<1>2. \A i \in 1..(Len(s) + 1) : i \in 1..Len(s) \/ i = Len(s) + 1
  BY <1>0
<1>3. Distinct(Append(s, k))
  BY <1>0, <1>1, <1>2 DEF Distinct
<1>4. Elements(Append(s, k)) = Elements(s) \cup {k}
  <2>1. \A i \in 1..Len(s) : i \in 1..(Len(s) + 1)
    BY <1>0
  <2>2. Len(s) + 1 \in 1..(Len(s) + 1)
    BY <1>0
  <2> QED
    BY <1>1, <1>2, <2>1, <2>2 DEF Elements
<1>5. ByUse(Append(s, k), now)
  <2>1. SUFFICES ASSUME NEW i \in 1..(Len(s) + 1), NEW j \in 1..(Len(s) + 1), i < j
                 PROVE  Append(s, k)[j] \in now[Append(s, k)[i]]
    BY <1>1 DEF ByUse
  <2>2. i \in 1..Len(s) /\ Append(s, k)[i] = s[i] /\ now[s[i]] = used[s[i]] \cup {k}
    BY <1>0, <1>1, <2>1
  <2>3. CASE j \in 1..Len(s)
    BY <1>1, <2>1, <2>2, <2>3 DEF ByUse
  <2>4. CASE j = Len(s) + 1
    BY <1>1, <2>2, <2>4
  <2> QED
    BY <1>2, <2>3, <2>4
<1> QED
  BY <1>1, <1>3, <1>4, <1>5

-----------------------------------------------------------------------------
(* The map *)

LEMMA OrderIsMap ==
  ASSUME IInv
  PROVE  /\ order \in Seq(Key) /\ Len(order) \in Nat /\ Distinct(order) /\ ByUse(order, since)
         /\ Elements(order) = DOMAIN jobOf /\ DOMAIN jobOf \subseteq Key
         /\ \A k : Present(k) <=> k \in DOMAIN jobOf
<1>1. order \in Seq(Key) /\ Distinct(order) /\ Elements(order) = DOMAIN jobOf
  BY DEF IInv, TypeOK, Distinct, Elements
<1>2. Len(order) \in Nat /\ \A i \in 1..Len(order) : order[i] \in Key
  BY <1>1, LenProperties, ElementOfSeq
<1> QED
  BY <1>1, <1>2 DEF IInv, Elements, Present

LEMMA WithoutIsRemoved ==
  ASSUME IInv, NEW k \in DOMAIN jobOf
  PROVE  /\ Without(k) \in Seq(Key) /\ Len(Without(k)) = Len(order) - 1
         /\ Distinct(Without(k)) /\ Elements(Without(k)) = DOMAIN jobOf \ {k}
         /\ ByUse(Without(k), since)
<1> DEFINE p == CHOOSE i \in 1..Len(order) : order[i] = k
           t == Without(k)
<1>0. order \in Seq(Key) /\ Distinct(order) /\ ByUse(order, since) /\ Elements(order) = DOMAIN jobOf
  BY OrderIsMap
<1>1. p \in 1..Len(order) /\ order[p] = k
  BY OrderIsMap DEF Present
<1>2. t = SubSeq(order, 1, p - 1) \o SubSeq(order, p + 1, Len(order))
  BY DEF Without
<1> HIDE DEF p, t
<1>3. /\ t \in Seq(Key) /\ Len(t) = Len(order) - 1
      /\ \A i \in 1..Len(t) : t[i] = IF i < p THEN order[i] ELSE order[i + 1]
  BY <1>0, <1>1, <1>2, CutOut
<1>4. Distinct(t) /\ Elements(t) = Elements(order) \ {order[p]} /\ ByUse(t, since)
  BY <1>0, <1>1, <1>3, Removed
<1> QED
  BY <1>0, <1>1, <1>3, <1>4 DEF t

LEMMA UsesStayFinite ==
  ASSUME IInv, NEW k \in Key, Use(k)
  PROVE  since' \in [Key -> SUBSET Key] /\ \A q \in Key : IsFiniteSet(since'[q])
<1>1. \A q \in Key : since'[q] = IF q = k THEN {} ELSE since[q] \cup {k}
  BY DEF Use
<1>2. since' \in [Key -> SUBSET Key]
  BY DEF Use, IInv, TypeOK
<1>3. \A q \in Key : IsFiniteSet(since[q] \cup {k})
  BY FS_AddElement DEF IInv, Finite
<1> QED
  BY <1>1, <1>2, <1>3, FS_EmptySet

(* The part of the invariant that is about the map alone. *)
MapInv ==
  /\ order \in Seq(Key) /\ Len(order) <= CacheSize /\ Distinct(order)
  /\ DOMAIN jobOf = Elements(order)
  /\ since \in [Key -> SUBSET Key] /\ ByUse(order, since)
  /\ Finite

LEMMA MapStays ==
  ASSUME IInv, UNCHANGED <<order, jobOf, since>>
  PROVE  MapInv'
<1>1. /\ order \in Seq(Key) /\ Distinct(order) /\ ByUse(order, since)
      /\ DOMAIN jobOf = Elements(order)
  BY OrderIsMap
<1>2. Distinct(order)' /\ ByUse(order, since)' /\ Elements(order)' = Elements(order)
  BY <1>1 DEF Distinct, ByUse, Elements
<1> QED
  BY <1>1, <1>2 DEF MapInv, IInv, TypeOK, Finite

LEMMA PromotionKeepsMap ==
  ASSUME IInv, NEW k \in DOMAIN jobOf, Use(k), order' = Append(Without(k), k),
         DOMAIN jobOf' = DOMAIN jobOf
  PROVE  MapInv'
<1>1. /\ order' \in Seq(Key) /\ Len(order') = Len(order) /\ Distinct(order')
      /\ Elements(order') = DOMAIN jobOf /\ ByUse(order', since')
  <2>1. k \notin Elements(Without(k)) /\ k \in Key
    BY WithoutIsRemoved, OrderIsMap
  <2>2. /\ order' \in Seq(Key) /\ Len(order') = Len(Without(k)) + 1 /\ Distinct(order')
        /\ Elements(order') = Elements(Without(k)) \cup {k} /\ ByUse(order', since')
    BY <2>1, WithoutIsRemoved, Appended DEF Use
  <2>3. Elements(order') = DOMAIN jobOf
    BY <2>2, WithoutIsRemoved
  <2>4. Len(order') = Len(order)
    BY <2>2, WithoutIsRemoved, OrderIsMap
  <2> QED
    BY <2>2, <2>3, <2>4
<1>2. since' \in [Key -> SUBSET Key] /\ \A q \in Key : IsFiniteSet(since'[q])
  BY OrderIsMap, UsesStayFinite
<1> QED
  BY <1>1, <1>2 DEF MapInv, IInv, TypeOK, Finite

LEMMA DropKeepsMap ==
  ASSUME IInv, NEW k \in DOMAIN jobOf, Drop(k), UNCHANGED since
  PROVE  MapInv' /\ DOMAIN jobOf' = DOMAIN jobOf \ {k}
<1>1. DOMAIN jobOf' = DOMAIN jobOf \ {k} /\ order' = Without(k)
  BY DEF Drop
<1>2. /\ order' \in Seq(Key) /\ Len(order') = Len(order) - 1 /\ Distinct(order')
      /\ Elements(order') = DOMAIN jobOf' /\ ByUse(order', since')
  BY <1>1, WithoutIsRemoved
<1>3. IsFiniteSet(DOMAIN jobOf') /\ Cardinality(DOMAIN jobOf') = Len(order')
  BY <1>1, <1>2, FS_RemoveElement DEF IInv, Finite
<1>4. Len(order') <= CacheSize
  BY <1>2, OrderIsMap, CacheAssumption DEF IInv, TypeOK
<1> QED
  BY <1>1, <1>2, <1>3, <1>4 DEF MapInv, IInv, TypeOK, Finite

(* A new key, after giving up the coldest one if the map is full. *)
LEMMA BindKeepsMap ==
  ASSUME IInv, NEW r \in Request, Bind(r)
  PROVE  /\ MapInv'
         /\ \/ UNCHANGED lost /\ DOMAIN jobOf' = DOMAIN jobOf \cup {KeyOf[r]}
            \/ /\ Len(order) = CacheSize /\ order # <<>> /\ lost' = lost \cup {order[1]}
               /\ DOMAIN jobOf' = (DOMAIN jobOf \ {order[1]}) \cup {KeyOf[r]}
         /\ stale' = stale \cap DOMAIN jobOf'
         /\ \A k \in DOMAIN jobOf' : jobOf'[k] = IF k = KeyOf[r] THEN r ELSE jobOf[k]
<1> DEFINE k == KeyOf[r]
           full == Len(order) = CacheSize
           kept == IF full THEN Tail(order) ELSE order
<1>1. k \in Key /\ k \notin DOMAIN jobOf
  BY KeyAssumption, OrderIsMap DEF Bind
<1>2. /\ order' = Append(kept, k) /\ Use(k)
      /\ jobOf' = [q \in Elements(kept) \cup {k} |-> IF q = k THEN r ELSE jobOf[q]]
      /\ stale' = stale \cap Elements(kept)
      /\ lost' = IF full THEN lost \cup {Head(order)} ELSE lost
  BY DEF Bind, Elements
<1>3. full => order # <<>>
  BY CacheAssumption, EmptySeq
<1>4. /\ kept \in Seq(Key) /\ Len(kept) < CacheSize /\ Len(kept) \in Nat /\ Distinct(kept)
      /\ ByUse(kept, since) /\ Elements(kept) \subseteq DOMAIN jobOf
      /\ IsFiniteSet(Elements(kept)) /\ Cardinality(Elements(kept)) = Len(kept)
      /\ full => Elements(kept) = DOMAIN jobOf \ {order[1]} /\ Head(order) = order[1]
      /\ ~full => Elements(kept) = DOMAIN jobOf
  <2>1. CASE full
    <3>1. /\ kept \in Seq(Key) /\ Len(kept) = Len(order) - 1 /\ Distinct(kept)
          /\ ByUse(kept, since) /\ Elements(kept) = DOMAIN jobOf \ {order[1]}
          /\ Head(order) = order[1] /\ order[1] \in DOMAIN jobOf
      <4>1. kept = Tail(order) /\ order # <<>>
        BY <1>3, <2>1
      <4>2. /\ Tail(order) \in Seq(Key) /\ Len(Tail(order)) = Len(order) - 1
            /\ Distinct(Tail(order)) /\ ByUse(Tail(order), since)
            /\ Elements(Tail(order)) = Elements(order) \ {order[1]}
            /\ Head(order) = order[1] /\ 1 \in 1..Len(order)
        BY <4>1, OrderIsMap, Beheaded
      <4>3. order[1] \in Elements(order)
        BY <4>2 DEF Elements
      <4> HIDE DEF kept
      <4> QED
        BY <4>1, <4>2, <4>3, OrderIsMap
    <3>2. IsFiniteSet(Elements(kept)) /\ Cardinality(Elements(kept)) = Len(order) - 1
      BY <3>1, FS_RemoveElement DEF IInv, Finite
    <3> QED
      BY <2>1, <3>1, <3>2, CacheAssumption, OrderIsMap
  <2>2. CASE ~full
    <3>1. kept = order
      BY <2>2
    <3>2. Len(order) < CacheSize
      BY <2>2, CacheAssumption, OrderIsMap DEF IInv, TypeOK
    <3> HIDE DEF kept
    <3> QED
      BY <2>2, <3>1, <3>2, OrderIsMap DEF IInv, Finite
  <2> QED
    BY <2>1, <2>2
<1> HIDE DEF kept
<1>5. /\ order' \in Seq(Key) /\ Len(order') = Len(kept) + 1 /\ Distinct(order')
      /\ Elements(order') = Elements(kept) \cup {k} /\ ByUse(order', since')
  BY <1>1, <1>2, <1>4, Appended DEF Use
<1>6. DOMAIN jobOf' = Elements(kept) \cup {k}
  BY <1>2
<1>7. IsFiniteSet(DOMAIN jobOf') /\ Cardinality(DOMAIN jobOf') = Len(order')
  <2>1. k \notin Elements(kept)
    BY <1>1, <1>4
  <2>2. /\ IsFiniteSet(Elements(kept) \cup {k})
        /\ Cardinality(Elements(kept) \cup {k}) = Cardinality(Elements(kept)) + 1
    BY <1>4, <2>1, FS_AddElement
  <2> QED
    BY <1>4, <1>5, <1>6, <2>2
<1>8. since' \in [Key -> SUBSET Key] /\ \A q \in Key : IsFiniteSet(since'[q])
  BY <1>1, <1>2, UsesStayFinite
<1>9. Len(order') <= CacheSize
  BY <1>4, <1>5, CacheAssumption
<1>10. MapInv'
  BY <1>5, <1>6, <1>7, <1>8, <1>9 DEF MapInv, Finite
<1>11. stale' = stale \cap DOMAIN jobOf'
  BY <1>1, <1>2, <1>6 DEF IInv, TypeOK
<1> QED
  BY <1>2, <1>3, <1>4, <1>6, <1>10, <1>11

-----------------------------------------------------------------------------
(* The requests *)

(* The part of the invariant that is about requests and what is lost. *)
RequestInv ==
  /\ \A k \in DOMAIN jobOf : jobOf[k] \in Request
  /\ stale \subseteq DOMAIN jobOf /\ stale \subseteq lost
  /\ pc \in [Request -> {"idle", "lookup", "submit", "bind", "done"}]
  /\ answer \in [Request -> Request \cup {"none", "refused"}]
  /\ lost \subseteq Key /\ retry \subseteq Request
  /\ BoundIsDone /\ Unanswered /\ RetriesFindKey /\ RetryCreatesNoJob

LEMMA TwoParts ==
  /\ IInv <=> MapInv /\ RequestInv
  /\ MapInv' /\ RequestInv' => IInv'
<1>1. IInv => MapInv /\ RequestInv
  BY OrderIsMap DEF IInv, TypeOK, MapInv, RequestInv
<1>2. MapInv /\ RequestInv => IInv
  BY DEF IInv, TypeOK, MapInv, RequestInv, Distinct, Elements
<1>3. MapInv' /\ RequestInv' => IInv'
  BY DEF IInv, TypeOK, MapInv, RequestInv, Distinct, Elements
<1> QED
  BY <1>1, <1>2, <1>3

LEMMA InitHolds ==
  ASSUME Init
  PROVE  IInv
<1> USE DEF Init
<1>1. order \in Seq(Key) /\ Len(order) = 0 /\ DOMAIN jobOf = {}
  BY EmptySeq
<1>2. MapInv
  <2>1. since \in [Key -> SUBSET Key] /\ \A k \in Key : IsFiniteSet(since[k])
    BY FS_EmptySet
  <2>2. Elements(order) = {} /\ Distinct(order) /\ ByUse(order, since)
    BY <1>1 DEF Elements, Distinct, ByUse
  <2> QED
    BY <1>1, <2>1, <2>2, FS_EmptySet, CacheAssumption DEF MapInv, Finite
<1>3. RequestInv
  BY <1>1 DEF RequestInv, BoundIsDone, Unanswered, RetriesFindKey, RetryCreatesNoJob
<1> QED
  BY <1>2, <1>3, TwoParts

LEMMA ArriveKeeps ==
  ASSUME IInv, NEW r \in Request, Arrive(r)
  PROVE  IInv'
<1>1. MapInv'
  BY MapStays DEF Arrive
<1>2. RequestInv /\ \A k : Present(k) <=> k \in DOMAIN jobOf
  BY TwoParts, OrderIsMap
<1>3. RequestInv'
  BY <1>2, AnswerAssumption, KeyAssumption
     DEF Arrive, Goto, RequestInv, BoundIsDone, Unanswered, RetriesFindKey, RetryCreatesNoJob
<1> QED
  BY <1>1, <1>3, TwoParts

LEMMA HitKeeps ==
  ASSUME IInv, NEW r \in Request, Hit(r)
  PROVE  IInv'
<1>1. RequestInv /\ KeyOf[r] \in DOMAIN jobOf
  BY TwoParts, OrderIsMap DEF Hit
<1>2. MapInv'
  BY <1>1, PromotionKeepsMap DEF Hit
<1>3. jobOf[KeyOf[r]] # r
  BY <1>1 DEF Hit, RequestInv, BoundIsDone
<1>4. RequestInv'
  BY <1>1, <1>3
     DEF Hit, Goto, Reply, RequestInv, BoundIsDone, Unanswered, RetriesFindKey, RetryCreatesNoJob
<1> QED
  BY <1>2, <1>4, TwoParts

LEMMA ExpireKeeps ==
  ASSUME IInv, NEW r \in Request, Expire(r)
  PROVE  IInv'
<1>1. RequestInv /\ KeyOf[r] \in DOMAIN jobOf /\ KeyOf[r] \in lost
  BY TwoParts DEF Expire, RequestInv
<1>2. MapInv' /\ DOMAIN jobOf' = DOMAIN jobOf \ {KeyOf[r]}
  BY <1>1, DropKeepsMap DEF Expire
<1>3. \A k \in DOMAIN jobOf' : jobOf'[k] = jobOf[k]
  BY <1>2 DEF Expire, Drop
<1>4. RequestInv'
  <2>1. stale' \subseteq DOMAIN jobOf' /\ stale' \subseteq lost'
    BY <1>1, <1>2 DEF Expire, Drop, RequestInv
  <2>2. RetriesFindKey' /\ RetryCreatesNoJob'
    BY <1>1, <1>2 DEF Expire, Goto, RequestInv, RetriesFindKey, RetryCreatesNoJob
  <2> QED
    BY <1>1, <1>2, <1>3, <2>1, <2>2 DEF Expire, Goto, RequestInv, BoundIsDone, Unanswered
<1> QED
  BY <1>2, <1>4, TwoParts

LEMMA MissKeeps ==
  ASSUME IInv, NEW r \in Request, Miss(r)
  PROVE  IInv'
<1>1. MapInv'
  BY MapStays DEF Miss
<1>2. RequestInv /\ KeyOf[r] \notin DOMAIN jobOf
  BY TwoParts, OrderIsMap DEF Miss
<1>3. RequestInv'
  BY <1>2 DEF Miss, Goto, RequestInv, BoundIsDone, Unanswered, RetriesFindKey, RetryCreatesNoJob
<1> QED
  BY <1>1, <1>3, TwoParts

LEMMA SubmitKeeps ==
  ASSUME IInv, NEW r \in Request, Submit(r)
  PROVE  IInv'
<1>1. MapInv'
  BY MapStays DEF Submit
<1>2. RequestInv
  BY TwoParts
<1>3. RequestInv'
  BY <1>2, AnswerAssumption DEF Submit, Goto, Reply, RequestInv, BoundIsDone, Unanswered, RetriesFindKey, RetryCreatesNoJob
<1> QED
  BY <1>1, <1>3, TwoParts

LEMMA RebindKeeps ==
  ASSUME IInv, NEW r \in Request, Rebind(r)
  PROVE  IInv'
<1>1. RequestInv /\ KeyOf[r] \in DOMAIN jobOf /\ DOMAIN jobOf' = DOMAIN jobOf
  BY TwoParts, OrderIsMap DEF Rebind
<1>2. MapInv'
  BY <1>1, PromotionKeepsMap DEF Rebind
<1>3. RequestInv'
  BY <1>1 DEF Rebind, Goto, Reply, RequestInv, BoundIsDone, Unanswered, RetriesFindKey, RetryCreatesNoJob
<1> QED
  BY <1>2, <1>3, TwoParts

LEMMA BindKeeps ==
  ASSUME IInv, NEW r \in Request, Bind(r)
  PROVE  IInv'
<1>0. /\ MapInv'
      /\ \/ UNCHANGED lost /\ DOMAIN jobOf' = DOMAIN jobOf \cup {KeyOf[r]}
         \/ /\ Len(order) = CacheSize /\ order # <<>> /\ lost' = lost \cup {order[1]}
            /\ DOMAIN jobOf' = (DOMAIN jobOf \ {order[1]}) \cup {KeyOf[r]}
      /\ stale' = stale \cap DOMAIN jobOf'
      /\ \A k \in DOMAIN jobOf' : jobOf'[k] = IF k = KeyOf[r] THEN r ELSE jobOf[k]
  BY BindKeepsMap
<1>1. RequestInv /\ DOMAIN jobOf \subseteq Key
  BY TwoParts, OrderIsMap
<1>2. /\ pc[r] = "bind" /\ pc' = [pc EXCEPT ![r] = "done"] /\ answer' = [answer EXCEPT ![r] = r]
      /\ UNCHANGED retry
  BY DEF Bind, Reply, Goto
<1>3. lost \subseteq lost' /\ lost' \subseteq Key /\ DOMAIN jobOf \subseteq DOMAIN jobOf' \cup lost'
  <2>1. order # <<>> => order[1] \in Key
    BY OrderIsMap, EmptySeq, ElementOfSeq
  <2> QED
    BY <1>1, <2>1, <1>0 DEF RequestInv
<1>4. \A k \in DOMAIN jobOf' : jobOf'[k] \in Request /\ pc'[jobOf'[k]] = "done"
  <2>1. \A k \in DOMAIN jobOf' : k = KeyOf[r] \/ k \in DOMAIN jobOf
    BY <1>0
  <2>2. pc'[r] = "done" /\ \A q \in Request : pc[q] = "done" => pc'[q] = "done"
    BY <1>1, <1>2 DEF RequestInv
  <2> QED
    BY <1>0, <1>1, <2>1, <2>2 DEF RequestInv, BoundIsDone
<1>5. stale' \subseteq DOMAIN jobOf' /\ stale' \subseteq lost'
  BY <1>1, <1>3, <1>0 DEF RequestInv
<1>6. RetriesFindKey' /\ RetryCreatesNoJob'
  BY <1>1, <1>2, <1>3 DEF RequestInv, RetriesFindKey, RetryCreatesNoJob
<1>7. RequestInv'
  BY <1>1, <1>2, <1>3, <1>4, <1>5, <1>6 DEF RequestInv, BoundIsDone, Unanswered
<1> QED
  BY <1>7, <1>0, TwoParts

LEMMA AgeKeeps ==
  ASSUME IInv, NEW k \in Key, Age(k)
  PROVE  IInv'
<1>1. MapInv'
  BY MapStays DEF Age
<1>2. RequestInv /\ k \in DOMAIN jobOf
  BY TwoParts, OrderIsMap DEF Age
<1>3. RequestInv'
  BY <1>2 DEF Age, RequestInv, BoundIsDone, Unanswered, RetriesFindKey, RetryCreatesNoJob
<1> QED
  BY <1>1, <1>3, TwoParts

LEMMA StutterKeeps ==
  ASSUME IInv, UNCHANGED vars
  PROVE  IInv'
<1>1. MapInv'
  BY MapStays DEF vars
<1>2. RequestInv'
  BY TwoParts DEF vars, RequestInv, BoundIsDone, Unanswered, RetriesFindKey, RetryCreatesNoJob
<1> QED
  BY <1>1, <1>2, TwoParts

-----------------------------------------------------------------------------
(* The inductive invariant holds in every state of the cache. *)
THEOREM Invariance == Spec => []IInv
<1>1. Init => IInv
  BY InitHolds
<1>2. IInv /\ [Next]_vars => IInv'
  BY ArriveKeeps, HitKeeps, ExpireKeeps, MissKeeps, SubmitKeeps, RebindKeeps, BindKeeps, AgeKeeps,
     StutterKeeps DEF Next
<1> QED
  BY <1>1, <1>2, PTL DEF Spec

(* Types; the map never holds more keys than it has places, and each once  *)
(* (IdempotencyStore over an LruCache).                                    *)
THEOREM TypeCorrect == Spec => []TypeOK
<1>1. IInv => TypeOK
  BY DEF IInv
<1> QED
  BY <1>1, Invariance, PTL

(* A request that repeats an answered one while the key is in the map      *)
(* makes no job, whatever other requests do in between (upload_handler).   *)
THEOREM RepeatsMakeNoJob == Spec => []RetryCreatesNoJob
<1>1. IInv => RetryCreatesNoJob
  BY DEF IInv
<1> QED
  BY <1>1, Invariance, PTL

(* A full map gives up a key only after as many others as it has places    *)
(* were used since (IdempotencyStore::insert; a lookup counts as a use).   *)
THEOREM EvictedKeysAreCold == Spec => OnlyColdKeysAreEvicted
<1>1. ASSUME IInv, IInv', [Next]_vars, NEW k \in Key, Present(k), k \notin stale, ~Present(k)'
      PROVE  Cardinality(since'[k]) >= CacheSize
  <2>1. k \in DOMAIN jobOf /\ k \notin DOMAIN jobOf'
    <3>1. \A q : Present(q) <=> q \in DOMAIN jobOf
      BY <1>1, OrderIsMap
    <3>2. (\A q : Present(q) <=> q \in DOMAIN jobOf)'
      BY <1>1 DEF IInv, TypeOK, Present
    <3> QED
      BY <1>1, <3>1, <3>2
  <2>2. PICK r \in Request : Bind(r)
    <3>1. ASSUME NEW r \in Request, Expire(r)
          PROVE  FALSE
      BY <1>1, <2>1, <3>1 DEF Expire, Drop
    <3>2. ASSUME NEW r \in Request, Arrive(r) \/ Hit(r) \/ Miss(r) \/ Submit(r) \/ Rebind(r)
          PROVE  FALSE
      BY <2>1, <3>2 DEF Arrive, Hit, Miss, Submit, Rebind
    <3>3. ASSUME NEW q \in Key, Age(q)
          PROVE  FALSE
      BY <2>1, <3>3 DEF Age
    <3> QED
      BY <1>1, <2>1, <3>1, <3>2, <3>3 DEF Next, vars
  <2>3. /\ Len(order) = CacheSize /\ order # <<>> /\ k = order[1]
        /\ DOMAIN jobOf' = (DOMAIN jobOf \ {k}) \cup {KeyOf[r]}
    BY <1>1, <2>1, <2>2, BindKeepsMap
  <2>4. KeyOf[r] \in Key /\ KeyOf[r] \notin DOMAIN jobOf
    BY <1>1, <2>2, KeyAssumption, OrderIsMap DEF Bind
  <2>5. since'[k] = since[k] \cup {KeyOf[r]}
    BY <2>1, <2>2, <2>4 DEF Bind, Use
  <2>6. DOMAIN jobOf \ {k} \subseteq since[k]
    <3>1. ASSUME NEW q \in DOMAIN jobOf, q # k
          PROVE  q \in since[k]
      <4>1. PICK j \in 1..Len(order) : order[j] = q
        BY <1>1, OrderIsMap DEF Elements
      <4>2. Len(order) \in Nat /\ j # 1
        BY <1>1, <2>3, <3>1, <4>1, OrderIsMap
      <4>3. 1 \in 1..Len(order) /\ 1 < j
        BY <4>1, <4>2
      <4> QED
        BY <1>1, <2>3, <4>1, <4>3 DEF IInv, ByUse
    <3> QED
      BY <3>1
  <2>7. DOMAIN jobOf' \subseteq since'[k]
    BY <2>3, <2>5, <2>6
  <2>8. Cardinality(DOMAIN jobOf') = CacheSize
    <3>1. IsFiniteSet(DOMAIN jobOf) /\ Cardinality(DOMAIN jobOf) = CacheSize
      BY <1>1, <2>3 DEF IInv, Finite
    <3>2. /\ IsFiniteSet(DOMAIN jobOf \ {k})
          /\ Cardinality(DOMAIN jobOf \ {k}) = CacheSize - 1
      BY <2>1, <3>1, FS_RemoveElement
    <3>3. Cardinality((DOMAIN jobOf \ {k}) \cup {KeyOf[r]}) = CacheSize - 1 + 1
      BY <2>4, <3>2, FS_AddElement
    <3> QED
      BY <2>3, <3>3, CacheAssumption
  <2>9. IsFiniteSet(since'[k])
    BY <1>1 DEF IInv, Finite
  <2>10. Cardinality(DOMAIN jobOf') <= Cardinality(since'[k])
    BY <2>7, <2>9, FS_Subset
  <2> QED
    BY <2>8, <2>9, <2>10, CacheAssumption, FS_CardinalityType
<1>2. IInv /\ IInv' /\ [Next]_vars =>
        [\A k \in Key :
           Present(k) /\ k \notin stale /\ ~Present(k)' => Cardinality(since'[k]) >= CacheSize]_vars
  BY <1>1
<1> QED
  BY <1>2, Invariance, PTL DEF Spec, OnlyColdKeysAreEvicted
==============================================================================
