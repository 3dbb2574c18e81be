-------------------------- MODULE IdempotencyStore --------------------------
(***************************************************************************)
(* The Idempotency-Key cache of swift-api/src/state.rs, a bounded LRU map  *)
(* with a time-to-live behind one mutex, and the part of upload_handler    *)
(* (routes.rs) that uses it: look the key up, submit, bind the key.        *)
(* JobLifecycle abstracts the cache to a map that may forget any key at    *)
(* any time; here is when it does.                                         *)
(***************************************************************************)
EXTENDS Naturals, FiniteSets, Sequences

CONSTANTS
  Request,     \* uploads, and the job ids they would get
  Key,         \* values of the Idempotency-Key header
  KeyOf,       \* the key of each upload
  CacheSize    \* entries the LRU map holds

ASSUME CacheAssumption == CacheSize \in Nat \ {0}
ASSUME KeyAssumption   == KeyOf \in [Request -> Key]
ASSUME AnswerAssumption == {"none", "refused"} \cap Request = {}

VARIABLES
  order,       \* the keys in the map, the least recently used first
  jobOf,       \* the job each key in the map is bound to
  stale,       \* keys in the map bound longer ago than the time-to-live
  pc, answer,  \* each request's handler, and the job id it answered
  \* History:
  since,       \* keys used since each key was last used
  lost,        \* keys that ever left the map or outlived it
  retry        \* requests that arrived when an equal one had been answered
               \* and its key was in the map

vars == <<order, jobOf, stale, pc, answer, since, lost, retry>>

Present(k) == \E i \in 1..Len(order) : order[i] = k

(* The order without k, which is in it once. *)
Without(k) ==
  LET p == CHOOSE i \in 1..Len(order) : order[i] = k
  IN  SubSeq(order, 1, p - 1) \o SubSeq(order, p + 1, Len(order))

(* Answers: the id of a job, "refused" for a 503 and "none" before. *)
TypeOK ==
  /\ order \in Seq(Key) /\ Len(order) <= CacheSize
  /\ \A i, j \in 1..Len(order) : order[i] = order[j] => i = j
  /\ DOMAIN jobOf = {order[i] : i \in 1..Len(order)}
  /\ \A k \in DOMAIN jobOf : jobOf[k] \in Request
  /\ stale \subseteq DOMAIN jobOf
  /\ pc \in [Request -> {"idle", "lookup", "submit", "bind", "done"}]
  /\ answer \in [Request -> Request \cup {"none", "refused"}]
  /\ since \in [Key -> SUBSET Key]
  /\ lost \subseteq Key
  /\ retry \subseteq Request

Init ==
  /\ order = <<>>
  /\ jobOf = <<>>
  /\ stale = {}
  /\ pc = [r \in Request |-> "idle"]
  /\ answer = [r \in Request |-> "none"]
  /\ since = [k \in Key |-> {}]
  /\ lost = {}
  /\ retry = {}

Goto(r, label) == pc' = [pc EXCEPT ![r] = label]

Reply(r, job) == Goto(r, "done") /\ answer' = [answer EXCEPT ![r] = job]

Use(k) == since' = [q \in Key |-> IF q = k THEN {} ELSE since[q] \cup {k}]

(* The map without key k. *)
Drop(k) ==
  /\ order' = Without(k)
  /\ jobOf' = [q \in DOMAIN jobOf \ {k} |-> jobOf[q]]
  /\ stale' = stale \ {k}

-----------------------------------------------------------------------------
Answered(k) == \E q \in Request : KeyOf[q] = k /\ answer[q] \in Request

Arrive(r) ==
  /\ pc[r] = "idle"
  /\ Goto(r, "lookup")
  /\ retry' = IF Answered(KeyOf[r]) /\ Present(KeyOf[r]) THEN retry \cup {r} ELSE retry
  /\ UNCHANGED <<order, jobOf, stale, answer, since, lost>>

HitPeeks(r) ==   \* mutant: a hit does not count as a use
  /\ pc[r] = "lookup"
  /\ Present(KeyOf[r])
  /\ KeyOf[r] \notin stale
  /\ Use(KeyOf[r])
  /\ Reply(r, jobOf[KeyOf[r]])
  /\ UNCHANGED <<order, jobOf, stale, lost, retry>>

(* A hit makes the key the most recently used one. *)
Hit(r) ==
  /\ pc[r] = "lookup"
  /\ Present(KeyOf[r])
  /\ KeyOf[r] \notin stale
  /\ order' = Append(Without(KeyOf[r]), KeyOf[r])
  /\ Use(KeyOf[r])
  /\ Reply(r, jobOf[KeyOf[r]])
  /\ UNCHANGED <<jobOf, stale, lost, retry>>

(* An entry past its time-to-live is removed by the lookup that finds it.  *)
Expire(r) ==
  /\ pc[r] = "lookup"
  /\ KeyOf[r] \in stale
  /\ Drop(KeyOf[r])
  /\ Goto(r, "submit")
  /\ UNCHANGED <<answer, since, lost, retry>>

MissAnyway(r) ==   \* mutant: the answer of get() is not looked at
  /\ pc[r] = "lookup"
  /\ Goto(r, "submit")
  /\ UNCHANGED <<order, jobOf, stale, answer, since, lost, retry>>

Miss(r) ==
  /\ pc[r] = "lookup"
  /\ ~Present(KeyOf[r])
  /\ Goto(r, "submit")
  /\ UNCHANGED <<order, jobOf, stale, answer, since, lost, retry>>

(* The queue takes the task, or the handler answers 503. *)
Submit(r) ==
  /\ pc[r] = "submit"
  /\ \/ Goto(r, "bind") /\ UNCHANGED answer
     \/ Reply(r, "refused")
  /\ UNCHANGED <<order, jobOf, stale, since, lost, retry>>

(* put(): a key that is in the map gets the new job; otherwise a full map  *)
(* gives up its least recently used key.                                   *)
Rebind(r) ==
  /\ pc[r] = "bind"
  /\ Present(KeyOf[r])
  /\ order' = Append(Without(KeyOf[r]), KeyOf[r])
  /\ jobOf' = [jobOf EXCEPT ![KeyOf[r]] = r]
  /\ stale' = stale \ {KeyOf[r]}
  /\ Use(KeyOf[r])
  /\ Reply(r, r)
  /\ UNCHANGED <<lost, retry>>

BindUnbounded(r) ==   \* mutant: nothing is evicted
  /\ pc[r] = "bind"
  /\ ~Present(KeyOf[r])
  /\ order' = Append(order, KeyOf[r])
  /\ jobOf' = [k \in DOMAIN jobOf \cup {KeyOf[r]} |-> IF k = KeyOf[r] THEN r ELSE jobOf[k]]
  /\ Use(KeyOf[r])
  /\ Reply(r, r)
  /\ UNCHANGED <<stale, lost, retry>>

Bind(r) ==
  /\ pc[r] = "bind"
  /\ ~Present(KeyOf[r])
  /\ LET full == Len(order) = CacheSize
         kept == IF full THEN Tail(order) ELSE order
         keys == {kept[i] : i \in 1..Len(kept)}
     IN /\ order' = Append(kept, KeyOf[r])
        /\ jobOf' = [k \in keys \cup {KeyOf[r]} |-> IF k = KeyOf[r] THEN r ELSE jobOf[k]]
        /\ stale' = stale \cap keys
        /\ lost' = IF full THEN lost \cup {Head(order)} ELSE lost
  /\ Use(KeyOf[r])
  /\ Reply(r, r)
  /\ UNCHANGED retry

(* The clock: an entry outlives its time-to-live. *)
Age(k) ==
  /\ Present(k)
  /\ k \notin stale
  /\ stale' = stale \cup {k}
  /\ lost' = lost \cup {k}
  /\ UNCHANGED <<order, jobOf, pc, answer, since, retry>>

Next ==
  \/ \E r \in Request :
       \/ Arrive(r) \/ Hit(r) \/ Expire(r) \/ Miss(r)
       \/ Submit(r) \/ Rebind(r) \/ Bind(r)
  \/ \E k \in Key : Age(k)

Spec == Init /\ [][Next]_vars

-----------------------------------------------------------------------------
(* A request that repeats an answered one, while the key is in the map and *)
(* neither expired nor evicted, creates no job: it gets the id of one that *)
(* exists.                                                                 *)
RetryCreatesNoJob ==
  \A r \in retry : KeyOf[r] \notin lost => pc[r] \in {"lookup", "done"} /\ answer[r] # r

(* A key that is not stale only leaves the map when at least CacheSize     *)
(* other keys have been used since it last was.                            *)
OnlyColdKeysAreEvicted ==
  [][\A k \in Key :
       Present(k) /\ k \notin stale /\ ~Present(k)' => Cardinality(since'[k]) >= CacheSize]_vars
=============================================================================
