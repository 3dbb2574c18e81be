------------------------ MODULE JobLifecycleProofs ------------------------
(***************************************************************************)
(* Proofs about JobLifecycle, for any set of jobs, any finite set of       *)
(* workers, any capacity and any keys.                                     *)
(*                                                                         *)
(* The invariant is IInv.  Each of its conjuncts has a lemma that says     *)
(* every step keeps it; the lemma has a step for each action that touches  *)
(* the variables the conjunct is about, which Footprint names once.  Two   *)
(* parts follow that build on it: what the gauges count, and that the      *)
(* service implements JobContract.                                         *)
(***************************************************************************)
EXTENDS JobLifecycle, SequenceTheorems, FiniteSetTheorems, TLAPS

USE JobAssumption, WorkerAssumption, CapacityAssumption, KeyAssumption, MainAssumption

-----------------------------------------------------------------------------
(* The operators the actions are made of *)

(* Every method of Metrics returns integer gauges when given some.         *)
LEMMA MetricsTyped ==
  ASSUME NEW m \in [Gauges \cup Counters -> Int]
  PROVE  /\ Submitted(m) \in [Gauges \cup Counters -> Int]
         /\ Completed(m) \in [Gauges \cup Counters -> Int]
         /\ Failed(m, TRUE) \in [Gauges \cup Counters -> Int]
         /\ Failed(m, FALSE) \in [Gauges \cup Counters -> Int]
         /\ Stuck(m) \in [Gauges \cup Counters -> Int]
         /\ Dispatched(m) \in [Gauges \cup Counters -> Int]
         /\ \A n \in Int : SetQueueDepth(m, n) \in [Gauges \cup Counters -> Int]
BY DEF Submitted, Completed, Failed, Stuck, SetQueueDepth, Dispatched, Gauges, Counters

(* Insert and Update keep the table a table, and change one entry; Update  *)
(* only an entry that exists.                                              *)
LEMMA StoreOps ==
  ASSUME NEW s \in [Job -> Status], NEW j \in Job, NEW v \in Lifecycle
  PROVE  /\ Insert(s, j, v) \in [Job -> Status]
         /\ Update(s, j, v) \in [Job -> Status]
         /\ Insert(s, j, v)[j] = v
         /\ Update(s, j, v)[j] = IF s[j] = "absent" THEN "absent" ELSE v
         /\ \A i \in Job \ {j} : Insert(s, j, v)[i] = s[i] /\ Update(s, j, v)[i] = s[i]
BY DEF Insert, Update, Status

(* Appending to the channel adds one place at its end. *)
LEMMA AppendPlaces ==
  ASSUME NEW q \in Seq(Job), NEW j \in Job
  PROVE  /\ Append(q, j) \in Seq(Job)
         /\ Len(Append(q, j)) = Len(q) + 1
         /\ Append(q, j)[Len(q) + 1] = j
         /\ \A i \in 1..Len(q) : Append(q, j)[i] = q[i]
OBVIOUS

(* Appending adds one task to those in the channel, taking the head off    *)
(* removes no other.                                                       *)
LEMMA AppendTasks ==
  ASSUME NEW q \in Seq(Job), NEW j \in Job, NEW x
  PROVE  (\E i \in 1..Len(Append(q, j)) : Append(q, j)[i] = x)
           <=> (x = j \/ \E i \in 1..Len(q) : q[i] = x)
<1>1. ASSUME NEW i \in 1..Len(Append(q, j)), Append(q, j)[i] = x
      PROVE  x = j \/ \E k \in 1..Len(q) : q[k] = x
  BY <1>1
<1>2. ASSUME NEW i \in 1..Len(q), q[i] = x
      PROVE  i \in 1..Len(Append(q, j)) /\ Append(q, j)[i] = x
  BY <1>2
<1>3. Len(q) + 1 \in 1..Len(Append(q, j)) /\ Append(q, j)[Len(q) + 1] = j
  OBVIOUS
<1> QED
  BY <1>1, <1>2, <1>3

LEMMA TailTasks ==
  ASSUME NEW q \in Seq(Job), q # <<>>, NEW x
  PROVE  (\E i \in 1..Len(q) : q[i] = x)
           <=> (x = Head(q) \/ \E i \in 1..Len(Tail(q)) : Tail(q)[i] = x)
<1>1. /\ Len(Tail(q)) = Len(q) - 1 /\ Len(q) \in Nat \ {0} /\ Head(q) = q[1]
      /\ \A i \in 1..Len(Tail(q)) : Tail(q)[i] = q[i + 1]
  BY HeadTailProperties, EmptySeq
<1>2. ASSUME NEW i \in 1..Len(q), q[i] = x, x # Head(q)
      PROVE  i - 1 \in 1..Len(Tail(q)) /\ Tail(q)[i - 1] = x
  <2>1. i - 1 \in 1..Len(Tail(q)) /\ (i - 1) + 1 = i
    BY <1>1, <1>2
  <2> QED
    BY <1>1, <1>2, <2>1
<1>3. ASSUME NEW i \in 1..Len(Tail(q)), Tail(q)[i] = x
      PROVE  i + 1 \in 1..Len(q) /\ q[i + 1] = x
  BY <1>1, <1>3
<1>4. 1 \in 1..Len(q)
  BY <1>1
<1> QED
  BY <1>1, <1>2, <1>3, <1>4

-----------------------------------------------------------------------------
(* Which actions touch what *)

LEMMA Footprint ==
  ASSUME [Next]_vars
  PROVE  /\ UNCHANGED queue \/ (\E r \in Job : TrySend(r)) \/ (\E w \in Worker : Receive(w))
         /\ UNCHANGED wjob \/ (\E w \in Worker : Receive(w) \/ CleanUp(w))
         /\ UNCHANGED wpc \/ (\E w \in Worker : WorkerStep(w))
         /\ \/ UNCHANGED store
            \/ \E r \in Job : InsertEntry(r)
            \/ \E w \in Worker : StartJob(w) \/ FinishJob(w)
            \/ \E j \in Job : MarkStuck(j)
         /\ UNCHANGED <<pc, answer, answerJob>> \/ (\E r \in Job : Arrive(r) \/ Handler(r))
         /\ \/ UNCHANGED remembered
            \/ \E r \in Job : RememberKey(r)
            \/ \E k \in Key : ForgetKey(k)
         /\ UNCHANGED overdue \/ (\E j \in Job : BecomeOverdue(j))
         /\ UNCHANGED stuck \/ ListStuckJobs \/ (\E j \in Job : MarkStuck(j))
         /\ UNCHANGED phase \/ Signal \/ ServerReturns \/ MainReturns
<1> USE DEF vars, requestVars, workerVars, reaperVars
<1>r. ASSUME NEW r \in Job, Arrive(r) \/ Handler(r)
      PROVE  /\ UNCHANGED <<wjob, wpc, overdue, stuck, phase>>
             /\ UNCHANGED queue \/ TrySend(r)
             /\ UNCHANGED store \/ InsertEntry(r)
             /\ UNCHANGED remembered \/ RememberKey(r)
  BY <1>r DEF Handler, Arrive, LookupKey, InsertEntry, CountSubmitted, TrySend, MeasureQueue,
              PublishDepth, AnswerUnavailable, RememberKey
<1>w. ASSUME NEW w \in Worker, WorkerStep(w)
      PROVE  /\ UNCHANGED <<pc, answer, answerJob, remembered, overdue, stuck, phase>>
             /\ UNCHANGED queue \/ Receive(w)
             /\ UNCHANGED wjob \/ Receive(w) \/ CleanUp(w)
             /\ UNCHANGED store \/ StartJob(w) \/ FinishJob(w)
  BY <1>w DEF WorkerStep, Receive, CountDispatched, StartJob, ProcessJob, FinishJob,
              CountFinished, CleanUp, ExitWorker
<1>k. ASSUME NEW k \in Key, ForgetKey(k)
      PROVE  UNCHANGED <<queue, wjob, wpc, store, pc, answer, answerJob, overdue, stuck, phase>>
  BY <1>k DEF ForgetKey
<1>o. ASSUME NEW j \in Job, BecomeOverdue(j)
      PROVE  UNCHANGED <<queue, wjob, wpc, store, pc, answer, answerJob, remembered, stuck, phase>>
  BY <1>o DEF BecomeOverdue
<1>p. ASSUME ReaperStep
      PROVE  /\ UNCHANGED <<queue, wjob, wpc, pc, answer, answerJob, remembered, overdue, phase>>
             /\ UNCHANGED store \/ (\E j \in Job : MarkStuck(j))
             /\ UNCHANGED stuck \/ ListStuckJobs \/ (\E j \in Job : MarkStuck(j))
  BY <1>p DEF ReaperStep, ListStuckJobs, MarkStuck, CountStuck
<1>s. ASSUME Signal \/ ServerReturns \/ MainReturns
      PROVE  UNCHANGED <<queue, wjob, wpc, store, pc, answer, answerJob, remembered, overdue, stuck>>
  BY <1>s DEF Signal, ServerReturns, MainReturns
<1>u. CASE UNCHANGED vars
  BY <1>u
<1>n. CASE Next
  BY <1>n, <1>r, <1>w, <1>k, <1>o, <1>p, <1>s DEF Next
<1> QED
  BY <1>u, <1>n

(* A task the channel took stays sent. *)
LEMMA SentIsStable ==
  ASSUME TypeOK, [Next]_vars, NEW j \in Job, Sent(j)
  PROVE  Sent(j)'
<1> USE DEF Sent, TypeOK
<1>1. CASE UNCHANGED <<pc, answer, answerJob>>
  BY <1>1
<1>2. ASSUME NEW r \in Job, Arrive(r) \/ Handler(r) PROVE Sent(j)'
  <2>1. CASE Arrive(r) \/ InsertEntry(r) \/ CountSubmitted(r) \/ MeasureQueue(r)
    BY <2>1 DEF Arrive, InsertEntry, CountSubmitted, MeasureQueue, Goto
  <2>2. CASE LookupKey(r)
    BY <2>2 DEF LookupKey, Goto, Reply
  <2>3. CASE TrySend(r)
    BY <2>3 DEF TrySend, Goto
  <2>4. CASE PublishDepth(r)
    BY <2>4 DEF PublishDepth, Goto, Reply
  <2>5. CASE AnswerUnavailable(r)
    BY <2>5 DEF AnswerUnavailable, Goto, Reply
  <2>6. CASE RememberKey(r)
    BY <2>6 DEF RememberKey, Goto, Reply
  <2> QED
    BY <1>2, <2>1, <2>2, <2>3, <2>4, <2>5, <2>6 DEF Handler
<1> QED
  BY <1>1, <1>2, Footprint

(* Only TrySend makes a job sent, and only its own. *)
LEMMA SentBySend ==
  ASSUME IInv, [Next]_vars, NEW j \in Job, Sent(j)', ~Sent(j)
  PROVE  TrySend(j) /\ queue' = Append(queue, j)
<1> USE DEF Sent, IInv, TypeOK
<1>1. CASE UNCHANGED <<pc, answer, answerJob>>
  BY <1>1
<1>2. ASSUME NEW r \in Job, Arrive(r) \/ Handler(r)
      PROVE  TrySend(j) /\ queue' = Append(queue, j)
  <2>1. CASE LookupKey(r)
    <3>1. pc[r] = "lookup" /\ KeyOf[r] \in Key
      BY <2>1 DEF LookupKey, KeyedHandlers
    <3>2. remembered[KeyOf[r]] # r
      BY <3>1 DEF KeyStandsForSentJob
    <3> QED
      BY <2>1, <3>2 DEF LookupKey, Goto, Reply
  <2>2. CASE TrySend(r)
    BY <2>2 DEF TrySend, Goto
  <2>3. CASE Arrive(r) \/ InsertEntry(r) \/ CountSubmitted(r) \/ MeasureQueue(r)
    BY <2>3 DEF Arrive, InsertEntry, CountSubmitted, MeasureQueue, Goto
  <2>4. CASE PublishDepth(r) \/ AnswerUnavailable(r) \/ RememberKey(r)
    BY <2>4 DEF PublishDepth, AnswerUnavailable, RememberKey, Goto, Reply
  <2> QED
    BY <1>2, <2>1, <2>2, <2>3, <2>4 DEF Handler
<1> QED
  BY <1>1, <1>2, Footprint

-----------------------------------------------------------------------------
(* Each conjunct of IInv is kept *)

LEMMA InitIInv == Init => IInv
<1> SUFFICES ASSUME Init PROVE IInv OBVIOUS
<1> USE DEF Init
<1>1. store \in [Job -> Status] /\ \A j \in Job : store[j] = "absent"
  BY DEF NewStore, Status
<1>2. queue \in Seq(Job) /\ Len(queue) = 0
  OBVIOUS
<1>3. metrics \in [Gauges \cup Counters -> Int]
  BY DEF NewMetrics
<1>4. TypeOK
  BY <1>1, <1>2, <1>3 DEF TypeOK, RequestPC, Answer, WorkerPC, Phase
<1>5. \A j \in Job : ~InQueue(j) /\ ~Held(j) /\ ~Sent(j)
  BY <1>2 DEF InQueue, Held, HeldBy, Sent
<1>6. KeyedHandlers /\ WorkersHoldTasks /\ EntryFollowsHandler /\ OverdueJobsStarted /\ ShutdownInOrder
  BY <1>1 DEF KeyedHandlers, WorkersHoldTasks, EntryFollowsHandler, OverdueJobsStarted, ShutdownInOrder
<1>7. OnePlace
  BY <1>2 DEF OnePlace
<1>8. OnlySentJobsRun /\ SentJobsAreAccountedFor /\ AnswersNameSentJobs
  BY <1>5 DEF OnlySentJobsRun, SentJobsAreAccountedFor, AnswersNameSentJobs
<1>9. KeyStandsForSentJob
  BY DEF KeyStandsForSentJob
<1>10. StatusAgreesWithPlace
  BY <1>5 DEF StatusAgreesWithPlace
<1> QED
  BY <1>4, <1>6, <1>7, <1>8, <1>9, <1>10 DEF IInv

(* The types, one variable at a time where an action computes a value.     *)
LEMMA StepTypeOK ==
  ASSUME IInv, [Next]_vars PROVE TypeOK'
<1> USE DEF IInv, TypeOK
<1>1. \A r \in Job : pc[r] \in {"lookup", "remember"} => KeyOf[r] \in Key
  BY DEF KeyedHandlers
<1>2. \A w \in Worker : wpc[w] \notin {"receive", "exited"} => wjob[w] \in Job
  BY DEF WorkersHoldTasks
<1>arr. ASSUME NEW r \in Job, Arrive(r) PROVE TypeOK'
  BY <1>arr DEF Arrive, Goto, workerVars, reaperVars, RequestPC
<1>key. ASSUME NEW r \in Job, LookupKey(r) PROVE TypeOK'
  <2>1. remembered[KeyOf[r]] \in Job \cup {NoJob}
    BY <1>key, <1>1 DEF LookupKey
  <2>2. pc' \in [Job -> RequestPC] /\ answer' \in [Job -> Answer] /\ answerJob' \in [Job -> Job]
    BY <1>key, <2>1 DEF LookupKey, Reply, Goto, RequestPC, Answer
  <2> QED
    BY <1>key, <2>2 DEF LookupKey, workerVars, reaperVars
<1>ins. ASSUME NEW r \in Job, InsertEntry(r) PROVE TypeOK'
  <2>1. store' \in [Job -> Status]
    BY <1>ins, StoreOps DEF InsertEntry, Lifecycle
  <2> QED
    BY <1>ins, <2>1 DEF InsertEntry, Goto, workerVars, reaperVars, RequestPC
<1>cou. ASSUME NEW r \in Job, CountSubmitted(r) PROVE TypeOK'
  BY <1>cou, MetricsTyped DEF CountSubmitted, Goto, workerVars, reaperVars, RequestPC
<1>snd. ASSUME NEW r \in Job, TrySend(r) PROVE TypeOK'
  <2>1. queue' \in Seq(Job) /\ Len(queue') <= Capacity
    <3>1. CASE UNCHANGED queue
      BY <3>1
    <3>2. CASE Len(queue) < Capacity /\ queue' = Append(queue, r)
      BY <3>2, AppendPlaces
    <3> QED
      BY <1>snd, <3>1, <3>2 DEF TrySend
  <2>2. pc' \in [Job -> RequestPC]
    BY <1>snd DEF TrySend, Goto, RequestPC
  <2> QED
    BY <1>snd, <2>1, <2>2 DEF TrySend, workerVars, reaperVars
<1>mea. ASSUME NEW r \in Job, MeasureQueue(r) PROVE TypeOK'
  <2>1. Len(queue) \in 0..Capacity
    OBVIOUS
  <2>2. seenLen' \in [Job -> 0..Capacity] /\ pc' \in [Job -> RequestPC]
    BY <1>mea, <2>1 DEF MeasureQueue, Goto, RequestPC
  <2> QED
    BY <1>mea, <2>2 DEF MeasureQueue, workerVars, reaperVars
<1>pub. ASSUME NEW r \in Job, PublishDepth(r) PROVE TypeOK'
  <2>1. metrics' \in [Gauges \cup Counters -> Int]
    <3>1. seenLen[r] \in Int
      OBVIOUS
    <3> QED
      BY <1>pub, <3>1, MetricsTyped DEF PublishDepth
  <2>2. seenLen' \in [Job -> 0..Capacity]
    BY <1>pub DEF PublishDepth
  <2>3. pc' \in [Job -> RequestPC] /\ answer' \in [Job -> Answer] /\ answerJob' \in [Job -> Job]
    <3>1. CASE KeyOf[r] = NoKey
      <4>1. Reply(r, "accepted", r)
        BY <1>pub, <3>1 DEF PublishDepth
      <4> QED
        BY <4>1 DEF Reply, Goto, RequestPC, Answer
    <3>2. CASE KeyOf[r] # NoKey
      BY <1>pub, <3>2 DEF PublishDepth, Goto, RequestPC
    <3> QED
      BY <3>1, <3>2
  <2> QED
    BY <1>pub, <2>1, <2>2, <2>3 DEF PublishDepth, workerVars, reaperVars
<1>una. ASSUME NEW r \in Job, AnswerUnavailable(r) PROVE TypeOK'
  <2>1. metrics' \in [Gauges \cup Counters -> Int]
    BY <1>una, MetricsTyped DEF AnswerUnavailable
  <2> QED
    BY <1>una, <2>1 DEF AnswerUnavailable, Reply, Goto, workerVars, reaperVars, RequestPC, Answer
<1>rem. ASSUME NEW r \in Job, RememberKey(r) PROVE TypeOK'
  <2>1. remembered' \in [Key -> Job \cup {NoJob}]
    BY <1>rem, <1>1 DEF RememberKey
  <2> QED
    BY <1>rem, <2>1 DEF RememberKey, Reply, Goto, workerVars, reaperVars, RequestPC, Answer
<1>fgt. ASSUME NEW k \in Key, ForgetKey(k) PROVE TypeOK'
  BY <1>fgt DEF ForgetKey, requestVars, workerVars, reaperVars
<1>rcv. ASSUME NEW w \in Worker, Receive(w) PROVE TypeOK'
  <2>1. Head(queue) \in Job /\ queue' \in Seq(Job) /\ Len(queue') <= Capacity
    BY <1>rcv, HeadTailProperties DEF Receive
  <2>2. wjob' \in [Worker -> Job \cup {NoJob}] /\ wpc' \in [Worker -> WorkerPC]
    BY <1>rcv, <2>1 DEF Receive, Step, WorkerPC
  <2> QED
    BY <1>rcv, <2>1, <2>2 DEF Receive, requestVars, reaperVars
<1>dis. ASSUME NEW w \in Worker, CountDispatched(w) PROVE TypeOK'
  BY <1>dis, MetricsTyped DEF CountDispatched, Step, requestVars, reaperVars, WorkerPC
<1>sta. ASSUME NEW w \in Worker, StartJob(w) PROVE TypeOK'
  <2>1. store' \in [Job -> Status]
    BY <1>sta, <1>2, StoreOps DEF StartJob, Step, Lifecycle
  <2> QED
    BY <1>sta, <2>1 DEF StartJob, Step, requestVars, reaperVars, WorkerPC
<1>prc. ASSUME NEW w \in Worker, ProcessJob(w) PROVE TypeOK'
  <2>1. wok' \in [Worker -> BOOLEAN] /\ workDirs' \subseteq Job
    BY <1>prc, <1>2 DEF ProcessJob, Step
  <2> QED
    BY <1>prc, <2>1 DEF ProcessJob, Step, requestVars, reaperVars, WorkerPC
<1>fin. ASSUME NEW w \in Worker, FinishJob(w) PROVE TypeOK'
  <2>1. store' \in [Job -> Status]
    BY <1>fin, <1>2, StoreOps DEF FinishJob, Step, Lifecycle
  <2> QED
    BY <1>fin, <2>1 DEF FinishJob, Step, requestVars, reaperVars, WorkerPC
<1>cnt. ASSUME NEW w \in Worker, CountFinished(w) PROVE TypeOK'
  <2>1. metrics' \in [Gauges \cup Counters -> Int]
    BY <1>cnt, MetricsTyped DEF CountFinished
  <2> QED
    BY <1>cnt, <2>1 DEF CountFinished, Step, requestVars, reaperVars, WorkerPC
<1>cln. ASSUME NEW w \in Worker, CleanUp(w) PROVE TypeOK'
  <2>1. workDirs' \subseteq Job /\ leftDirs' \subseteq Job
    BY <1>cln DEF CleanUp
  <2>2. wjob' \in [Worker -> Job \cup {NoJob}] /\ wok' \in [Worker -> BOOLEAN]
    BY <1>cln DEF CleanUp, ForgetTask
  <2>3. wpc' \in [Worker -> WorkerPC]
    BY <1>cln DEF CleanUp, Step, WorkerPC
  <2> QED
    BY <1>cln, <2>1, <2>2, <2>3 DEF CleanUp, requestVars, reaperVars
<1>ext. ASSUME NEW w \in Worker, ExitWorker(w) PROVE TypeOK'
  BY <1>ext DEF ExitWorker, Step, requestVars, reaperVars, WorkerPC
<1>ove. ASSUME NEW j \in Job, BecomeOverdue(j) PROVE TypeOK'
  BY <1>ove DEF BecomeOverdue, requestVars, workerVars
<1>lst. ASSUME ListStuckJobs PROVE TypeOK'
  BY <1>lst DEF ListStuckJobs, ListStuck, requestVars, workerVars
<1>mrk. ASSUME NEW j \in Job, MarkStuck(j) PROVE TypeOK'
  <2>1. store' \in [Job -> Status]
    BY <1>mrk, StoreOps DEF MarkStuck, Lifecycle
  <2> QED
    BY <1>mrk, <2>1 DEF MarkStuck, requestVars, workerVars
<1>stu. ASSUME CountStuck PROVE TypeOK'
  BY <1>stu, MetricsTyped DEF CountStuck, requestVars, workerVars
<1>end. ASSUME Signal \/ ServerReturns \/ MainReturns PROVE TypeOK'
  BY <1>end DEF Signal, ServerReturns, MainReturns, requestVars, workerVars, reaperVars, Phase
<1>unc. CASE UNCHANGED vars
  BY <1>unc DEF vars, requestVars, workerVars, reaperVars
<1> QED
  BY <1>arr, <1>key, <1>ins, <1>cou, <1>snd, <1>mea, <1>pub, <1>una, <1>rem, <1>fgt, <1>rcv, <1>dis,
     <1>sta, <1>prc, <1>fin, <1>cnt, <1>cln, <1>ext, <1>ove, <1>lst, <1>mrk, <1>stu, <1>end, <1>unc
     DEF Next, Handler, WorkerStep, ReaperStep

LEMMA StepKeyedHandlers ==
  ASSUME IInv, [Next]_vars PROVE KeyedHandlers'
<1> USE DEF IInv, TypeOK, KeyedHandlers
<1>1. CASE UNCHANGED pc
  BY <1>1
<1>2. ASSUME NEW r \in Job, Arrive(r) PROVE KeyedHandlers'
  BY <1>2 DEF Arrive, Goto
<1>3. ASSUME NEW r \in Job, PublishDepth(r) PROVE KeyedHandlers'
  BY <1>3 DEF PublishDepth, Goto, Reply
<1>4. ASSUME NEW r \in Job, Handler(r), ~PublishDepth(r) PROVE KeyedHandlers'
  BY <1>4 DEF Handler, LookupKey, InsertEntry, CountSubmitted, TrySend, MeasureQueue,
              AnswerUnavailable, RememberKey, Goto, Reply
<1> QED
  BY <1>1, <1>2, <1>3, <1>4, Footprint

LEMMA StepWorkersHoldTasks ==
  ASSUME IInv, [Next]_vars PROVE WorkersHoldTasks'
<1> USE DEF IInv, TypeOK, WorkersHoldTasks, Step
<1>1. CASE UNCHANGED <<wpc, wjob>>
  BY <1>1
<1>2. ASSUME NEW w \in Worker, Receive(w) PROVE WorkersHoldTasks'
  BY <1>2, HeadTailProperties DEF Receive
<1>3. ASSUME NEW w \in Worker, CleanUp(w) PROVE WorkersHoldTasks'
  BY <1>3 DEF CleanUp, ForgetTask
<1>4. ASSUME NEW w \in Worker, WorkerStep(w), ~Receive(w), ~CleanUp(w) PROVE WorkersHoldTasks'
  BY <1>4 DEF WorkerStep, CountDispatched, StartJob, ProcessJob, FinishJob, CountFinished, ExitWorker
<1>5. UNCHANGED wpc => UNCHANGED wjob
  BY Footprint DEF Receive, CleanUp
<1> QED
  BY <1>1, <1>2, <1>3, <1>4, <1>5, Footprint

LEMMA StepOnePlace ==
  ASSUME IInv, [Next]_vars PROVE OnePlace'
<1> USE DEF IInv, TypeOK, OnePlace, HeldBy
<1>1. CASE UNCHANGED <<queue, wjob>>
  BY <1>1
<1>2. ASSUME NEW r \in Job, TrySend(r) PROVE OnePlace'
  <2>1. ~InQueue(r) /\ ~Held(r) /\ UNCHANGED wjob
    BY <1>2 DEF TrySend, OnlySentJobsRun, Sent, workerVars
  <2>2. CASE UNCHANGED queue
    BY <2>1, <2>2
  <2>3. CASE queue' = Append(queue, r)
    BY <2>1, <2>3, AppendPlaces DEF InQueue, Held
  <2> QED
    BY <1>2, <2>2, <2>3 DEF TrySend
<1>3. ASSUME NEW w \in Worker, Receive(w) PROVE OnePlace'
  <2>1. /\ queue # <<>> /\ queue' = Tail(queue)
        /\ wjob' = [wjob EXCEPT ![w] = queue[1]]
        /\ queue[1] \in Job /\ 1 \in 1..Len(queue)
    BY <1>3, HeadTailProperties DEF Receive
  <2>2. /\ Len(queue') = Len(queue) - 1
        /\ \A i \in 1..Len(queue') : queue'[i] = queue[i + 1] /\ i + 1 \in 2..Len(queue)
    BY <2>1, HeadTailProperties
  <2>3. \A i \in 1..Len(queue') : queue'[i] # queue[1]
    BY <2>1, <2>2
  <2>4. ASSUME NEW i1 \in 1..Len(queue'), NEW i2 \in 1..Len(queue'), queue'[i1] = queue'[i2]
        PROVE  i1 = i2
    <3>1. i1 + 1 \in 1..Len(queue) /\ i2 + 1 \in 1..Len(queue) /\ queue[i1 + 1] = queue[i2 + 1]
      BY <2>2, <2>4
    <3>2. i1 + 1 = i2 + 1
      BY <3>1
    <3> QED
      BY <3>2
  <2>5. \A v \in Worker, i \in 1..Len(queue') : ~HeldBy(v, queue[i])'
    BY <2>1, <2>2, <2>3
  <2>6. \A w1, w2 \in Worker : wjob'[w1] = wjob'[w2] /\ wjob'[w1] # NoJob => w1 = w2
    BY <2>1
  <2> QED
    BY <2>4, <2>5, <2>6
<1>4. ASSUME NEW w \in Worker, CleanUp(w) PROVE OnePlace'
  BY <1>4, ElementOfSeq DEF CleanUp, ForgetTask
<1> QED
  BY <1>1, <1>2, <1>3, <1>4, Footprint DEF TrySend, Receive, CleanUp, workerVars

(* Where jobs are after a step: a job is only added by TrySend, and one    *)
(* that leaves the queue is held by the worker that received it.           *)
LEMMA PlacesMove ==
  ASSUME IInv, [Next]_vars, NEW j \in Job
  PROVE  /\ InQueue(j)' => InQueue(j) \/ (TrySend(j) /\ queue' = Append(queue, j))
         /\ Held(j)' => Held(j) \/ InQueue(j)
         /\ InQueue(j) => InQueue(j)' \/ Held(j)'
         /\ Held(j) => Held(j)' \/ \E w \in Worker : HeldBy(w, j) /\ CleanUp(w)
<1>0. queue \in Seq(Job) /\ wjob \in [Worker -> Job \cup {NoJob}]
  BY DEF IInv, TypeOK
<1>1. ASSUME NEW r \in Job, TrySend(r)
      PROVE  /\ UNCHANGED wjob
             /\ UNCHANGED queue \/ queue' = Append(queue, r)
  BY <1>1 DEF TrySend, workerVars
<1>2. ASSUME NEW w \in Worker, Receive(w)
      PROVE  /\ wjob[w] = NoJob /\ wjob' = [wjob EXCEPT ![w] = Head(queue)]
             /\ queue # <<>> /\ queue' = Tail(queue)
  BY <1>2 DEF Receive, Step, IInv, WorkersHoldTasks
<1>3. ASSUME NEW w \in Worker, CleanUp(w)
      PROVE  UNCHANGED queue /\ wjob' = [wjob EXCEPT ![w] = NoJob]
  BY <1>3 DEF CleanUp, ForgetTask
<1>4. ASSUME NEW w \in Worker, Receive(w)
      PROVE  InQueue(j) <=> (j = Head(queue) \/ InQueue(j)')
  <2>1. queue \in Seq(Job) /\ queue # <<>> /\ queue' = Tail(queue)
    BY <1>0, <1>2, <1>4
  <2>2. (\E i \in 1..Len(queue) : queue[i] = j)
          <=> (j = Head(queue) \/ \E i \in 1..Len(Tail(queue)) : Tail(queue)[i] = j)
    BY <2>1, TailTasks
  <2> QED
    BY <2>1, <2>2 DEF InQueue
<1>5. InQueue(j)' => InQueue(j) \/ (TrySend(j) /\ queue' = Append(queue, j))
  <2>1. ASSUME NEW r \in Job, TrySend(r), InQueue(j)', ~InQueue(j)
        PROVE  TrySend(j) /\ queue' = Append(queue, j)
    BY <1>0, <1>1, <2>1, AppendTasks DEF InQueue
  <2>2. ASSUME NEW w \in Worker, Receive(w), InQueue(j)' PROVE InQueue(j)
    BY <1>4, <2>2
  <2> QED
    BY <2>1, <2>2, Footprint DEF InQueue
<1>6. Held(j)' => Held(j) \/ InQueue(j)
  <2>1. ASSUME NEW w \in Worker, Receive(w), Held(j)', ~Held(j) PROVE InQueue(j)
    <3>1. j = Head(queue)
      BY <1>0, <1>2, <2>1 DEF Held, HeldBy
    <3> QED
      BY <1>4, <2>1, <3>1
  <2>2. ASSUME NEW w \in Worker, CleanUp(w), Held(j)' PROVE Held(j)
    BY <1>0, <1>3, <2>2 DEF Held, HeldBy
  <2> QED
    BY <2>1, <2>2, Footprint DEF Held, HeldBy
<1>7. InQueue(j) => InQueue(j)' \/ Held(j)'
  <2>1. ASSUME NEW r \in Job, TrySend(r), InQueue(j) PROVE InQueue(j)'
    <3>1. CASE UNCHANGED queue
      BY <2>1, <3>1 DEF InQueue
    <3>2. CASE queue' = Append(queue, r)
      <4>1. \E i \in 1..Len(Append(queue, r)) : Append(queue, r)[i] = j
        BY <1>0, <2>1, AppendTasks DEF InQueue
      <4> QED
        BY <3>2, <4>1 DEF InQueue
    <3> QED
      BY <1>1, <2>1, <3>1, <3>2
  <2>2. ASSUME NEW w \in Worker, Receive(w), InQueue(j), ~InQueue(j)' PROVE Held(j)'
    <3>1. j = Head(queue)
      BY <1>4, <2>2
    <3> QED
      BY <1>0, <1>2, <2>2, <3>1 DEF Held, HeldBy
  <2> QED
    BY <2>1, <2>2, Footprint DEF InQueue
<1>8. ASSUME Held(j) PROVE Held(j)' \/ \E w \in Worker : HeldBy(w, j) /\ CleanUp(w)
  <2>1. PICK v \in Worker : wjob[v] = j
    BY <1>8 DEF Held, HeldBy
  <2>2. ASSUME NEW w \in Worker, Receive(w) PROVE wjob'[v] = j
    BY <1>0, <1>2, <2>1, <2>2
  <2>3. ASSUME NEW w \in Worker, CleanUp(w), w # v PROVE wjob'[v] = j
    BY <1>0, <1>3, <2>1, <2>3
  <2> QED
    BY <2>1, <2>2, <2>3, Footprint DEF Held, HeldBy
<1> QED
  BY <1>5, <1>6, <1>7, <1>8

LEMMA StepOnlySentJobsRun ==
  ASSUME IInv, [Next]_vars PROVE OnlySentJobsRun'
<1> SUFFICES ASSUME NEW j \in Job, InQueue(j)' \/ Held(j)' PROVE Sent(j)'
  BY DEF OnlySentJobsRun
<1>1. CASE InQueue(j) \/ Held(j)
  BY <1>1, SentIsStable DEF OnlySentJobsRun, IInv
<1>2. CASE TrySend(j) /\ queue' = Append(queue, j)
  <2>1. queue' # queue
    BY <1>2, AppendPlaces DEF IInv, TypeOK
  <2> QED
    BY <1>2, <2>1 DEF TrySend, Goto, Sent, IInv, TypeOK
<1> QED
  BY <1>1, <1>2, PlacesMove

(* What a step does to the status of one job: a handler makes the entry, a *)
(* worker moves it on, the reaper fails a job it has listed.               *)
LEMMA StatusChange ==
  ASSUME IInv, [Next]_vars, NEW j \in Job, store'[j] # store[j]
  PROVE  \/ InsertEntry(j) /\ store[j] = "absent" /\ store'[j] = "queued"
         \/ \E w \in Worker : /\ StartJob(w) /\ HeldBy(w, j)
                              /\ store[j] = "queued" /\ store'[j] = "running"
         \/ \E w \in Worker : /\ FinishJob(w) /\ HeldBy(w, j) /\ store'[j] \in Terminal
                              /\ store[j] = "running" \/ (store[j] = "failed" /\ j \in overdue)
         \/ /\ MarkStuck(j) /\ j \in overdue /\ store'[j] = "failed"
            /\ store[j] = "running" \/ store[j] \in Terminal
<1> USE DEF Lifecycle, Terminal
<1>0. /\ store \in [Job -> Status] /\ wjob \in [Worker -> Job \cup {NoJob}]
      /\ WorkersHoldTasks /\ StatusAgreesWithPlace /\ OverdueJobsStarted /\ EntryFollowsHandler
  BY DEF IInv, TypeOK
<1>1. ASSUME NEW r \in Job, InsertEntry(r)
      PROVE  r = j /\ store[j] = "absent" /\ store'[j] = "queued"
  <2>1. store' = Insert(store, r, "queued") /\ store[r] = "absent"
    BY <1>0, <1>1 DEF InsertEntry, EntryFollowsHandler
  <2> QED
    BY <1>0, <2>1 DEF Insert
<1>2. ASSUME NEW w \in Worker, StartJob(w)
      PROVE  wjob[w] = j /\ store[j] = "queued" /\ store'[j] = "running"
  <2>1. /\ store' = Update(store, wjob[w], "running") /\ wjob[w] \in Job
        /\ store[wjob[w]] = "queued"
    BY <1>0, <1>2 DEF StartJob, Step, WorkersHoldTasks, StatusAgreesWithPlace
  <2>2. PICK i \in Job : i = wjob[w]
    BY <2>1
  <2>3. /\ store'[i] = "running"
        /\ \A k \in Job \ {i} : store'[k] = store[k]
    BY <1>0, <2>1, <2>2, StoreOps
  <2> QED
    BY <2>1, <2>2, <2>3
<1>3. ASSUME NEW w \in Worker, FinishJob(w)
      PROVE  /\ wjob[w] = j /\ store'[j] \in Terminal
             /\ store[j] = "running" \/ (store[j] = "failed" /\ j \in overdue)
  <2>1. PICK v \in Terminal : store' = Update(store, wjob[w], v)
    BY <1>3 DEF FinishJob
  <2>2. /\ wjob[w] \in Job
        /\ store[wjob[w]] = "running" \/ (store[wjob[w]] = "failed" /\ wjob[w] \in overdue)
    BY <1>0, <1>3 DEF FinishJob, Step, WorkersHoldTasks, StatusAgreesWithPlace
  <2>3. PICK i \in Job : i = wjob[w]
    BY <2>2
  <2>4. /\ store'[i] = v
        /\ \A k \in Job \ {i} : store'[k] = store[k]
    BY <1>0, <2>1, <2>2, <2>3, StoreOps
  <2> QED
    BY <2>2, <2>3, <2>4
<1>4. ASSUME NEW i \in Job, MarkStuck(i)
      PROVE  /\ i = j /\ j \in overdue /\ store'[j] = "failed"
             /\ store[j] = "running" \/ store[j] \in Terminal
  <2>1. store' = Update(store, i, "failed") /\ i \in overdue
    BY <1>0, <1>4 DEF MarkStuck, OverdueJobsStarted
  <2>2. store[i] = "running" \/ store[i] \in Terminal
    BY <1>0, <2>1 DEF OverdueJobsStarted
  <2> QED
    BY <1>0, <2>1, <2>2, StoreOps
<1> QED
  BY <1>1, <1>2, <1>3, <1>4, Footprint DEF HeldBy

LEMMA StepEntryFollowsHandler ==
  ASSUME IInv, [Next]_vars PROVE EntryFollowsHandler'
<1> SUFFICES ASSUME NEW j \in Job
             PROVE  /\ pc'[j] \in {"idle", "lookup", "insert"} => store'[j] = "absent"
                    /\ pc'[j] \in {"count", "submit"} => store'[j] = "queued"
  BY DEF EntryFollowsHandler
<1>0. pc \in [Job -> RequestPC] /\ wjob \in [Worker -> Job \cup {NoJob}] /\ EntryFollowsHandler
  BY DEF IInv, TypeOK
<1>1. CASE store'[j] = store[j]
  <2>1. CASE UNCHANGED pc
    BY <1>0, <1>1, <2>1 DEF EntryFollowsHandler
  <2>2. ASSUME NEW r \in Job, Arrive(r) \/ LookupKey(r)
        PROVE  pc'[j] = pc[j] \/ (pc[j] \in {"idle", "lookup"} /\ pc'[j] \in {"lookup", "insert", "done"})
    BY <1>0, <2>2 DEF Arrive, LookupKey, Goto, Reply
  <2>3. ASSUME NEW r \in Job, InsertEntry(r)
        PROVE  pc'[j] = pc[j] \/ (store'[j] = "queued" /\ pc'[j] = "count")
    BY <1>0, <2>3 DEF InsertEntry, Goto, Insert, IInv, TypeOK
  <2>4. ASSUME NEW r \in Job, CountSubmitted(r) \/ TrySend(r) \/ MeasureQueue(r)
        PROVE  pc'[j] = pc[j] \/ (pc[j] = "count" /\ pc'[j] = "submit")
                 \/ pc'[j] \in {"measure", "uncount", "publish"}
    BY <1>0, <2>4 DEF CountSubmitted, TrySend, MeasureQueue, Goto
  <2>5. ASSUME NEW r \in Job, PublishDepth(r) \/ AnswerUnavailable(r) \/ RememberKey(r)
        PROVE  pc'[j] = pc[j] \/ pc'[j] \in {"remember", "done"}
    BY <1>0, <2>5 DEF PublishDepth, AnswerUnavailable, RememberKey, Goto, Reply
  <2> QED
    BY <1>0, <1>1, <2>1, <2>2, <2>3, <2>4, <2>5, Footprint DEF EntryFollowsHandler, Handler
<1>2. CASE store'[j] # store[j]
  <2>1. CASE InsertEntry(j) /\ store'[j] = "queued"
    BY <1>0, <2>1 DEF InsertEntry, Goto
  <2>2. ASSUME NEW w \in Worker, StartJob(w) \/ FinishJob(w), HeldBy(w, j)
        PROVE  Sent(j) /\ UNCHANGED pc
    BY <1>0, <2>2 DEF StartJob, FinishJob, requestVars, Held, IInv, OnlySentJobsRun
  <2>3. CASE MarkStuck(j) /\ (store[j] = "running" \/ store[j] \in Terminal)
    BY <1>0, <2>3 DEF MarkStuck, EntryFollowsHandler, requestVars, Terminal
  <2> QED
    BY <1>2, <2>1, <2>2, <2>3, StatusChange DEF Sent
<1> QED
  BY <1>1, <1>2

LEMMA StepOverdueJobsStarted ==
  ASSUME IInv, [Next]_vars PROVE OverdueJobsStarted'
<1> USE DEF Terminal
<1>0. OverdueJobsStarted
  BY DEF IInv
<1>1. stuck' \subseteq overdue'
  <2>1. CASE UNCHANGED <<stuck, overdue>>
    BY <1>0, <2>1 DEF OverdueJobsStarted
  <2>2. ASSUME NEW j \in Job, BecomeOverdue(j) PROVE stuck' \subseteq overdue'
    BY <1>0, <2>2 DEF OverdueJobsStarted, BecomeOverdue
  <2>3. ASSUME ListStuckJobs PROVE stuck' \subseteq overdue'
    BY <2>3 DEF ListStuckJobs, ListStuck
  <2>4. ASSUME NEW j \in Job, MarkStuck(j) PROVE stuck' \subseteq overdue'
    BY <1>0, <2>4 DEF OverdueJobsStarted, MarkStuck
  <2> QED
    BY <2>1, <2>2, <2>3, <2>4, Footprint
<1>2. ASSUME NEW j \in overdue' PROVE store'[j] = "running" \/ store'[j] \in Terminal
  <2>1. CASE j \notin overdue
    <3>1. BecomeOverdue(j)
      BY <1>2, <2>1, Footprint DEF BecomeOverdue
    <3> QED
      BY <3>1 DEF BecomeOverdue
  <2>2. CASE j \in overdue
    <3>1. j \in Job /\ (store[j] = "running" \/ store[j] \in Terminal)
      BY <1>0, <2>2 DEF OverdueJobsStarted, IInv, TypeOK
    <3>2. CASE store'[j] = store[j]
      BY <3>1, <3>2
    <3>3. CASE store'[j] # store[j]
      BY <3>1, <3>3, StatusChange
    <3> QED
      BY <3>2, <3>3
  <2> QED
    BY <2>1, <2>2
<1> QED
  BY <1>1, <1>2 DEF OverdueJobsStarted

LEMMA StepKeyStandsForSentJob ==
  ASSUME IInv, [Next]_vars PROVE KeyStandsForSentJob'
<1> SUFFICES ASSUME NEW k \in Key, remembered'[k] # NoJob
             PROVE  KeyOf[remembered'[k]] = k /\ Sent(remembered[k])'
  BY DEF KeyStandsForSentJob
<1>0. TypeOK /\ remembered \in [Key -> Job \cup {NoJob}]
  BY DEF IInv, TypeOK
<1>1. CASE remembered'[k] = remembered[k]
  <2>1. KeyOf[remembered[k]] = k /\ Sent(remembered[k]) /\ remembered[k] \in Job
    BY <1>0, <1>1 DEF IInv, KeyStandsForSentJob
  <2>2. PICK j \in Job : j = remembered[k] /\ Sent(j)
    BY <2>1
  <2>3. Sent(j)'
    BY <1>0, <2>2, SentIsStable
  <2>4. remembered'[k] = j
    BY <1>1, <2>2
  <2> QED
    BY <2>1, <2>2, <2>3, <2>4 DEF Sent
<1>2. ASSUME NEW r \in Job, RememberKey(r), remembered'[k] # remembered[k]
      PROVE  KeyOf[remembered'[k]] = k /\ Sent(remembered[k])'
  <2>1. remembered'[k] = r /\ KeyOf[r] = k
    BY <1>0, <1>2 DEF RememberKey
  <2>2. pc'[r] = "done" /\ answer'[r] = "accepted" /\ answerJob'[r] = r
    BY <1>0, <1>2 DEF RememberKey, Goto, Reply, TypeOK
  <2> QED
    BY <2>1, <2>2 DEF Sent
<1>3. ASSUME NEW h \in Key, ForgetKey(h) PROVE remembered'[k] = remembered[k]
  BY <1>0, <1>3 DEF ForgetKey
<1> QED
  BY <1>1, <1>2, <1>3, Footprint

LEMMA StepSentJobsAreAccountedFor ==
  ASSUME IInv, [Next]_vars PROVE SentJobsAreAccountedFor'
<1> SUFFICES ASSUME NEW j \in Job, Sent(j)'
             PROVE  InQueue(j)' \/ Held(j)' \/ store'[j] \in Terminal
  BY DEF SentJobsAreAccountedFor
<1>1. CASE ~Sent(j)
  <2>1. queue' = Append(queue, j)
    BY <1>1, SentBySend
  <2> QED
    BY <2>1, AppendTasks DEF InQueue, IInv, TypeOK
<1>2. CASE Sent(j) /\ InQueue(j)
  BY <1>2, PlacesMove
<1>3. CASE Sent(j) /\ Held(j)
  <2>1. ASSUME NEW w \in Worker, HeldBy(w, j), CleanUp(w) PROVE store'[j] \in Terminal
    BY <2>1 DEF CleanUp, Step, HeldBy, IInv, StatusAgreesWithPlace
  <2> QED
    BY <1>3, <2>1, PlacesMove
<1>4. CASE store[j] \in Terminal
  <2>1. CASE store'[j] # store[j]
    BY <1>4, <2>1, StatusChange DEF Terminal
  <2> QED
    BY <1>4, <2>1
<1> QED
  BY <1>1, <1>2, <1>3, <1>4 DEF IInv, SentJobsAreAccountedFor

(* A worker only changes by a step of its own. *)
LEMMA WorkerChange ==
  ASSUME IInv, [Next]_vars, NEW w \in Worker, wpc'[w] # wpc[w] \/ wjob'[w] # wjob[w]
  PROVE  WorkerStep(w)
<1>0. wpc \in [Worker -> WorkerPC] /\ wjob \in [Worker -> Job \cup {NoJob}]
  BY DEF IInv, TypeOK
<1>1. PICK v \in Worker : WorkerStep(v)
  BY Footprint DEF WorkerStep
<1>2. CASE v # w
  <2>1. wpc'[w] = wpc[w]
    BY <1>0, <1>1, <1>2 DEF WorkerStep, Receive, CountDispatched, StartJob, ProcessJob, FinishJob,
                            CountFinished, CleanUp, ExitWorker, Step
  <2>2. wjob'[w] = wjob[w]
    BY <1>0, <1>1, <1>2 DEF WorkerStep, Receive, CountDispatched, StartJob, ProcessJob, FinishJob,
                            CountFinished, CleanUp, ExitWorker, ForgetTask
  <2> QED
    BY <2>1, <2>2
<1> QED
  BY <1>1, <1>2

(* The part of StatusAgreesWithPlace about one worker. *)
WorkerAgrees(w) ==
  /\ wpc[w] \in {"dispatched", "start"} => store[wjob[w]] = "queued"
  /\ wpc[w] \in {"process", "finish"} =>
       \/ store[wjob[w]] = "running"
       \/ store[wjob[w]] = "failed" /\ wjob[w] \in overdue
  /\ wpc[w] \in {"count", "clean"} => store[wjob[w]] \in Terminal

LEMMA StepWorkerAgrees ==
  ASSUME IInv, [Next]_vars, NEW w \in Worker, WorkerStep(w) PROVE WorkerAgrees(w)'
<1> USE DEF WorkerAgrees, Step
<1>0. /\ queue \in Seq(Job) /\ store \in [Job -> Status] /\ wpc \in [Worker -> WorkerPC]
      /\ wjob \in [Worker -> Job \cup {NoJob}]
      /\ WorkersHoldTasks /\ StatusAgreesWithPlace
  BY DEF IInv, TypeOK
<1>rcv. CASE Receive(w)
  <2>1. InQueue(Head(queue)) /\ Head(queue) \in Job
    BY <1>0, <1>rcv, HeadTailProperties, EmptySeq DEF Receive, InQueue
  <2>2. store'[wjob'[w]] = "queued" /\ wpc'[w] = "dispatched"
    BY <1>0, <1>rcv, <2>1 DEF Receive, StatusAgreesWithPlace
  <2> QED
    BY <2>2
<1>dis. CASE CountDispatched(w)
  BY <1>0, <1>dis DEF CountDispatched, StatusAgreesWithPlace
<1>sta. CASE StartJob(w)
  BY <1>0, <1>sta DEF StartJob, Update, StatusAgreesWithPlace, WorkersHoldTasks
<1>prc. CASE ProcessJob(w)
  BY <1>0, <1>prc DEF ProcessJob, StatusAgreesWithPlace, reaperVars
<1>fin. CASE FinishJob(w)
  BY <1>0, <1>fin DEF FinishJob, Update, StatusAgreesWithPlace, WorkersHoldTasks, Terminal
<1>cnt. CASE CountFinished(w)
  BY <1>0, <1>cnt DEF CountFinished, StatusAgreesWithPlace
<1>cln. CASE CleanUp(w)
  BY <1>0, <1>cln DEF CleanUp
<1>ext. CASE ExitWorker(w)
  BY <1>0, <1>ext DEF ExitWorker
<1> QED
  BY <1>rcv, <1>dis, <1>sta, <1>prc, <1>fin, <1>cnt, <1>cln, <1>ext DEF WorkerStep

LEMMA StepStatusAgreesWithPlace ==
  ASSUME IInv, [Next]_vars PROVE StatusAgreesWithPlace'
<1>0. /\ StatusAgreesWithPlace /\ OnePlace /\ EntryFollowsHandler /\ OverdueJobsStarted
      /\ WorkersHoldTasks /\ TypeOK
  BY DEF IInv
<1>1. ASSUME NEW j \in Job, InQueue(j)' PROVE store'[j] = "queued"
  <2>1. store[j] = "queued"
    <3>1. TrySend(j) => store[j] = "queued"
      BY <1>0 DEF TrySend, EntryFollowsHandler
    <3> QED
      BY <1>0, <1>1, <3>1, PlacesMove DEF StatusAgreesWithPlace
  <2>2. ASSUME NEW w \in Worker, StartJob(w), HeldBy(w, j) PROVE FALSE
    <3>1. InQueue(j)
      BY <1>1, <2>2 DEF StartJob, InQueue
    <3> QED
      BY <1>0, <2>2, <3>1 DEF OnePlace, InQueue, HeldBy
  <2> QED
    BY <2>1, <2>2, StatusChange DEF Terminal
<1>2. ASSUME NEW w \in Worker PROVE WorkerAgrees(w)'
  <2>1. CASE wpc'[w] = wpc[w] /\ wjob'[w] = wjob[w]
    <3> DEFINE j == wjob[w]
    <3>1. CASE wpc[w] \in {"receive", "exited"}
      BY <2>1, <3>1 DEF WorkerAgrees
    <3>2. CASE wpc[w] \notin {"receive", "exited"}
      <4>1. j \in Job /\ WorkerAgrees(w) /\ overdue \subseteq overdue'
        BY <1>0, <3>2, Footprint DEF WorkersHoldTasks, TypeOK, StatusAgreesWithPlace, WorkerAgrees,
                                     BecomeOverdue
      <4>2. CASE store'[j] = store[j]
        BY <2>1, <4>1, <4>2 DEF WorkerAgrees
      <4>3. ASSUME NEW v \in Worker, StartJob(v) \/ FinishJob(v), HeldBy(v, j) PROVE FALSE
        <5>1. v = w
          BY <1>0, <4>1, <4>3 DEF OnePlace, HeldBy
        <5> QED
          BY <1>0, <2>1, <4>3, <5>1 DEF StartJob, FinishJob, Step, TypeOK
      <4>4. CASE store'[j] # store[j]
        <5>1. CASE store[j] = "absent"
          BY <3>2, <4>1, <5>1 DEF WorkerAgrees, Terminal, TypeOK, WorkerPC, IInv
        <5>2. CASE /\ j \in overdue /\ store'[j] = "failed"
                   /\ store[j] = "running" \/ store[j] \in Terminal
          BY <2>1, <4>1, <5>2 DEF WorkerAgrees, Terminal
        <5> QED
          BY <4>1, <4>3, <4>4, <5>1, <5>2, StatusChange
      <4> QED
        BY <4>2, <4>4
    <3> QED
      BY <3>1, <3>2
  <2>2. CASE ~(wpc'[w] = wpc[w] /\ wjob'[w] = wjob[w])
    BY <2>2, WorkerChange, StepWorkerAgrees
  <2> QED
    BY <2>1, <2>2
<1> QED
  BY <1>1, <1>2 DEF StatusAgreesWithPlace, WorkerAgrees

LEMMA StepAnswersNameSentJobs ==
  ASSUME IInv, [Next]_vars PROVE AnswersNameSentJobs'
<1> SUFFICES ASSUME NEW r \in Job, answer'[r] = "accepted" PROVE Sent(answerJob[r])'
  BY DEF AnswersNameSentJobs
<1>0. /\ TypeOK /\ AnswersNameSentJobs /\ KeyStandsForSentJob /\ KeyedHandlers
      /\ answer \in [Job -> Answer] /\ answerJob \in [Job -> Job] /\ pc \in [Job -> RequestPC]
  BY DEF IInv, TypeOK
<1>1. CASE answer'[r] = answer[r] /\ answerJob'[r] = answerJob[r]
  <2>1. PICK j \in Job : j = answerJob[r] /\ Sent(j)
    BY <1>0, <1>1 DEF AnswersNameSentJobs
  <2>2. Sent(j)' /\ answerJob'[r] = j
    BY <1>0, <1>1, <2>1, SentIsStable
  <2> QED
    BY <2>2 DEF Sent
<1>2. CASE pc'[r] = "done" /\ answerJob'[r] = r
  BY <1>2 DEF Sent
<1>3. CASE LookupKey(r) /\ remembered[KeyOf[r]] # NoJob
  <2>1. KeyOf[r] \in Key
    BY <1>0, <1>3 DEF LookupKey, KeyedHandlers
  <2>2. PICK j \in Job : j = remembered[KeyOf[r]] /\ Sent(j)
    BY <1>0, <1>3, <2>1 DEF KeyStandsForSentJob, TypeOK
  <2>3. Sent(j)' /\ answerJob'[r] = j
    BY <1>0, <1>3, <2>2, SentIsStable DEF LookupKey, Reply
  <2> QED
    BY <2>3 DEF Sent
<1>4. ASSUME NEW q \in Job, Arrive(q) \/ Handler(q)
      PROVE  \/ answer'[r] = answer[r] /\ answerJob'[r] = answerJob[r]
             \/ pc'[r] = "done" /\ answerJob'[r] = r
             \/ LookupKey(r) /\ remembered[KeyOf[r]] # NoJob
  <2>1. CASE LookupKey(q)
    BY <1>0, <2>1 DEF LookupKey, Goto, Reply
  <2>2. CASE PublishDepth(q)
    BY <1>0, <2>2 DEF PublishDepth, Goto, Reply
  <2>3. CASE AnswerUnavailable(q) \/ RememberKey(q)
    <3>1. ASSUME NEW code, Reply(q, code, q)
          PROVE  \/ answer'[r] = answer[r] /\ answerJob'[r] = answerJob[r]
                 \/ pc'[r] = "done" /\ answerJob'[r] = r
      BY <1>0, <3>1 DEF Reply, Goto
    <3>2. Reply(q, "unavailable", q) \/ Reply(q, "accepted", q)
      BY <2>3 DEF AnswerUnavailable, RememberKey
    <3> QED
      BY <3>1, <3>2
  <2>4. CASE Arrive(q) \/ InsertEntry(q) \/ CountSubmitted(q) \/ TrySend(q) \/ MeasureQueue(q)
    BY <2>4 DEF Arrive, InsertEntry, CountSubmitted, TrySend, MeasureQueue
  <2> QED
    BY <1>4, <2>1, <2>2, <2>3, <2>4 DEF Handler
<1> QED
  BY <1>1, <1>2, <1>3, <1>4, Footprint

LEMMA StepShutdownInOrder ==
  ASSUME IInv, [Next]_vars PROVE ShutdownInOrder'
<1>0. ShutdownInOrder /\ TypeOK
  BY DEF IInv
<1>1. ASSUME NEW r \in Job, phase \in {"drained", "exited"} PROVE ~(Arrive(r) \/ Handler(r))
  BY <1>0, <1>1 DEF ShutdownInOrder, Handler, Arrive, LookupKey, InsertEntry, CountSubmitted, TrySend,
                    MeasureQueue, PublishDepth, AnswerUnavailable, RememberKey
<1>2. phase \in {"drained", "exited"} => phase' \in {"drained", "exited"}
  BY Footprint DEF Signal, ServerReturns, MainReturns
<1>3. ASSUME NEW r \in Job, phase' \in {"drained", "exited"} PROVE pc'[r] \in {"idle", "done"}
  <2>1. CASE phase \in {"drained", "exited"}
    BY <1>0, <1>1, <2>1, Footprint DEF ShutdownInOrder
  <2>2. CASE phase \notin {"drained", "exited"}
    <3>1. ServerReturns
      BY <1>3, <2>2, Footprint DEF Signal, MainReturns
    <3> QED
      BY <3>1 DEF ServerReturns, requestVars
  <2> QED
    BY <2>1, <2>2
<1>4. ASSUME NEW w \in Worker, wpc'[w] = "exited"
      PROVE  queue' = <<>> /\ phase' \in {"drained", "exited"}
  <2>1. CASE wpc[w] = "exited"
    <3>1. queue = <<>> /\ phase \in {"drained", "exited"}
      BY <1>0, <2>1 DEF ShutdownInOrder
    <3> QED
      BY <1>1, <1>2, <3>1, Footprint DEF Receive, Handler
  <2>2. CASE wpc[w] # "exited"
    <3>1. WorkerStep(w)
      BY <1>4, <2>2, WorkerChange
    <3>2. ExitWorker(w)
      BY <1>0, <1>4, <3>1 DEF WorkerStep, Receive, CountDispatched, StartJob, ProcessJob, FinishJob,
                              CountFinished, CleanUp, Step, TypeOK
    <3> QED
      BY <1>0, <3>2 DEF ExitWorker, SenderAlive, TypeOK, Phase
  <2> QED
    BY <2>1, <2>2
<1>5. ASSUME NEW w \in Worker, phase' = "exited" PROVE wpc'[w] = "exited"
  <2>1. CASE phase = "exited"
    <3>1. wpc[w] = "exited"
      BY <1>0, <2>1 DEF ShutdownInOrder
    <3>2. ~WorkerStep(w)
      BY <3>1 DEF WorkerStep, Receive, CountDispatched, StartJob, ProcessJob, FinishJob,
                  CountFinished, CleanUp, ExitWorker, Step
    <3> QED
      BY <3>1, <3>2, WorkerChange
  <2>2. CASE phase # "exited"
    <3>1. MainReturns
      BY <1>5, <2>2, Footprint DEF Signal, ServerReturns
    <3> QED
      BY <3>1 DEF MainReturns, workerVars
  <2> QED
    BY <2>1, <2>2
<1> QED
  BY <1>3, <1>4, <1>5 DEF ShutdownInOrder

LEMMA StepIInv == IInv /\ [Next]_vars => IInv'
BY StepTypeOK, StepKeyedHandlers, StepWorkersHoldTasks, StepOnePlace, StepOnlySentJobsRun,
   StepEntryFollowsHandler, StepOverdueJobsStarted, StepKeyStandsForSentJob,
   StepStatusAgreesWithPlace, StepSentJobsAreAccountedFor, StepAnswersNameSentJobs,
   StepShutdownInOrder DEF IInv

-----------------------------------------------------------------------------
(* The theorems *)

(* IInv holds in every state the service can reach. *)
THEOREM Invariance == Spec => []IInv
<1> QED
  BY InitIInv, StepIInv, PTL DEF Spec

(* Every variable keeps its type; above all the channel never holds more   *)
(* than Capacity tasks.                                                    *)
THEOREM TypeCorrect == Spec => []TypeOK
<1>1. IInv => TypeOK
  BY DEF IInv
<1> QED
  BY <1>1, Invariance, PTL

(* No task is in two places: no job is run twice, whatever the number of   *)
(* workers that share the receiver (run_worker).                           *)
THEOREM NoJobRunsTwice == Spec => []OnePlace
<1>1. IInv => OnePlace
  BY DEF IInv
<1> QED
  BY <1>1, Invariance, PTL

(* A job that was answered 503 never reaches a worker (upload_handler).    *)
THEOREM RefusedJobsNeverRun == Spec => []OnlySentJobsRun
<1>1. IInv => OnlySentJobsRun
  BY DEF IInv
<1> QED
  BY <1>1, Invariance, PTL

(* No key is ever bound to a job the queue refused (upload_handler). *)
THEOREM KeysNameSentJobs == Spec => []KeyStandsForSentJob
<1>1. IInv => KeyStandsForSentJob
  BY DEF IInv
<1> QED
  BY <1>1, Invariance, PTL

(* The job table agrees with the channel and the workers at every step.    *)
THEOREM TableAgreesWithWorkers == Spec => []StatusAgreesWithPlace
<1>1. IInv => StatusAgreesWithPlace
  BY DEF IInv
<1> QED
  BY <1>1, Invariance, PTL

(* The job named in a 202 waits, is with a worker, or has a verdict.       *)
THEOREM NothingAcceptedIsLost == Spec => []AcceptedJobIsAccountedFor
<1>1. IInv => AcceptedJobIsAccountedFor
  <2> SUFFICES ASSUME IInv, NEW r \in Job, answer[r] = "accepted"
               PROVE  /\ Sent(answerJob[r])
                      /\ \/ InQueue(answerJob[r]) \/ Held(answerJob[r])
                         \/ store[answerJob[r]] \in Terminal
    BY DEF AcceptedJobIsAccountedFor
  <2>1. answerJob[r] \in Job
    BY DEF IInv, TypeOK
  <2> QED
    BY <2>1 DEF IInv, AnswersNameSentJobs, SentJobsAreAccountedFor
<1> QED
  BY <1>1, Invariance, PTL

(* When main has returned, every job that was answered 202 has a verdict.  *)
THEOREM NothingAcceptedIsLostAtExit == Spec => []NothingLostAtExit
<1>1. IInv => NothingLostAtExit
  <2> SUFFICES ASSUME IInv, phase = "exited", NEW r \in Job, answer[r] = "accepted"
               PROVE  store[answerJob[r]] \in Terminal
    BY DEF NothingLostAtExit
  <2>1. answerJob[r] \in Job /\ Sent(answerJob[r])
    BY DEF IInv, TypeOK, AnswersNameSentJobs
  <2>2. \A w \in Worker : wpc[w] = "exited" /\ queue = <<>>
    BY DEF IInv, ShutdownInOrder
  <2>3. ~Held(answerJob[r])
    BY <2>1, <2>2 DEF IInv, WorkersHoldTasks, Held, HeldBy
  <2>4. ~InQueue(answerJob[r])
    BY <2>2 DEF InQueue
  <2> QED
    BY <2>1, <2>3, <2>4 DEF IInv, SentJobsAreAccountedFor
<1> QED
  BY <1>1, Invariance, PTL

(* No step takes a job's status back, and a verdict is only replaced for a *)
(* job that ran past the reaper's timeout.                                 *)
THEOREM StatusNeverMovesBack == Spec => StatusMovesForward
<1>1. IInv /\ [Next]_vars =>
        [\A j \in Job :
           store'[j] # store[j] =>
             \/ store[j] = "absent"  /\ store'[j] = "queued"
             \/ store[j] = "queued"  /\ store'[j] = "running"
             \/ store[j] = "running" /\ store'[j] \in Terminal
             \/ store[j] \in Terminal /\ store'[j] \in Terminal /\ j \in overdue]_vars
  BY StatusChange DEF Terminal
<1> QED
  BY <1>1, Invariance, PTL DEF Spec, StatusMovesForward

(* A work directory is that of a job with a worker, or its removal failed. *)
THEOREM WorkDirsAreRemoved == Spec => []NoLeakedWorkDir
<1>1. Init => NoLeakedWorkDir
  BY DEF Init, NoLeakedWorkDir
<1>2. NoLeakedWorkDir /\ IInv /\ [Next]_vars => NoLeakedWorkDir'
  <2> SUFFICES ASSUME NoLeakedWorkDir, IInv, [Next]_vars, NEW j \in workDirs'
               PROVE  Held(j)' \/ j \in leftDirs'
    BY DEF NoLeakedWorkDir
  <2> USE DEF NoLeakedWorkDir, Held, HeldBy, Step
  <2>0. wjob \in [Worker -> Job \cup {NoJob}] /\ WorkersHoldTasks /\ workDirs \subseteq Job
    BY DEF IInv, TypeOK
  <2>1. CASE UNCHANGED <<wjob, workDirs, leftDirs>>
    BY <2>1
  <2>2. ASSUME NEW w \in Worker, Receive(w) PROVE Held(j)' \/ j \in leftDirs'
    BY <2>0, <2>2 DEF Receive, WorkersHoldTasks
  <2>3. ASSUME NEW w \in Worker, ProcessJob(w) PROVE Held(j)' \/ j \in leftDirs'
    BY <2>0, <2>3 DEF ProcessJob
  <2>4. ASSUME NEW w \in Worker, CleanUp(w) PROVE Held(j)' \/ j \in leftDirs'
    BY <2>0, <2>4 DEF CleanUp, ForgetTask
  <2>5. \/ UNCHANGED <<wjob, workDirs, leftDirs>>
        \/ \E w \in Worker : Receive(w) \/ ProcessJob(w) \/ CleanUp(w)
    BY DEF Next, vars, workerVars, Handler, Arrive, LookupKey, InsertEntry, CountSubmitted, TrySend,
           MeasureQueue, PublishDepth, AnswerUnavailable, RememberKey, ForgetKey, WorkerStep,
           CountDispatched, StartJob, FinishJob, CountFinished, ExitWorker, BecomeOverdue,
           ReaperStep, ListStuckJobs, MarkStuck, CountStuck, Signal, ServerReturns, MainReturns
  <2> QED
    BY <2>1, <2>2, <2>3, <2>4, <2>5
<1> QED
  BY <1>1, <1>2, Invariance, PTL DEF Spec

-----------------------------------------------------------------------------
(***************************************************************************)
(* The gauges count what they are said to count: each gauge is the size of *)
(* a set, and every step changes both alike.                               *)
(***************************************************************************)

(* The sets the gauges stand for. *)
Free(j) == \A w \in Worker : HeldBy(w, j) => wpc[w] = "dispatched"

Unsettled == {j \in Job : Counted(j) /\ ~Settled(j)}
Unstarted == {j \in Job : Counted(j) /\ ~Settled(j) /\ Free(j)}
Busy      == {w \in Worker : WithWorker(w)}

(* A gauge and the size of the set it stands for: the reaper takes a job   *)
(* off in_flight and running that its worker takes off once more, and      *)
(* leaves the job counted as stuck.                                        *)
Agrees(m, unsettled, unstarted, busy) ==
  /\ m["in_flight"] + m["stuck"] = Cardinality(unsettled)
  /\ m["running"] + m["stuck"] = Cardinality(busy)
  /\ m["queued"] = Cardinality(unstarted)

(* The inductive invariant, on top of IInv. *)
GInv ==
  /\ IsFiniteSet(Unsettled)
  /\ Agrees(metrics, Unsettled, Unstarted, Busy)

(* What a step may do to the three sets ... *)
SetsStay == UNCHANGED <<Unsettled, Unstarted, Busy>>

JobEnters(r) ==
  /\ r \notin Unsettled
  /\ Unsettled' = Unsettled \cup {r} /\ Unstarted' = Unstarted \cup {r} /\ Busy' = Busy

JobIsPutBack(r) ==
  /\ r \in Unstarted
  /\ Unsettled' = Unsettled \ {r} /\ Unstarted' = Unstarted \ {r} /\ Busy' = Busy

JobStarts(w) ==
  /\ wjob[w] \in Unstarted /\ w \in Worker \ Busy
  /\ Unsettled' = Unsettled /\ Unstarted' = Unstarted \ {wjob[w]} /\ Busy' = Busy \cup {w}

JobSettles(w) ==
  /\ wjob[w] \in Unsettled /\ w \in Busy
  /\ Unsettled' = Unsettled \ {wjob[w]} /\ Unstarted' = Unstarted /\ Busy' = Busy \ {w}

-----------------------------------------------------------------------------
LEMMA SentChange ==
  ASSUME IInv, [Next]_vars, NEW j \in Job, ~TrySend(j)
  PROVE  Sent(j)' <=> Sent(j)
BY SentIsStable, SentBySend DEF IInv

(* A handler moves its own job only, and neither tasks nor workers. *)
LEMMA HandlerMovesOne ==
  ASSUME IInv, NEW r \in Job, Arrive(r) \/ (Handler(r) /\ ~TrySend(r))
  PROVE  /\ UNCHANGED <<queue, wjob, wpc>>
         /\ \A j \in Job \ {r} : pc'[j] = pc[j] /\ answer'[j] = answer[j] /\ answerJob'[j] = answerJob[j]
<1>1. CASE Arrive(r) \/ InsertEntry(r) \/ CountSubmitted(r) \/ MeasureQueue(r)
  BY <1>1 DEF Arrive, InsertEntry, CountSubmitted, MeasureQueue, IInv, TypeOK, Goto, Reply, workerVars
<1>2. CASE LookupKey(r)
  BY <1>2 DEF LookupKey, IInv, TypeOK, Goto, Reply, workerVars
<1>3. CASE PublishDepth(r) \/ AnswerUnavailable(r) \/ RememberKey(r)
  BY <1>3 DEF PublishDepth, AnswerUnavailable, RememberKey, IInv, TypeOK, Goto, Reply, workerVars
<1> QED
  BY <1>1, <1>2, <1>3 DEF Handler

(* Where tasks, workers and what was counted stay, the sets do. *)
LEMMA SameSets ==
  ASSUME UNCHANGED <<queue, wjob, wpc>>,
         \A j \in Job : (Sent(j)' <=> Sent(j)) /\ (Counted(j)' <=> Counted(j))
  PROVE  SetsStay
<1>1. \A j \in Job : (Settled(j)' <=> Settled(j)) /\ (Free(j)' <=> Free(j))
  BY DEF Settled, Free, InQueue, HeldBy
<1>2. \A w \in Worker : WithWorker(w)' <=> WithWorker(w)
  BY DEF WithWorker
<1> QED
  BY <1>1, <1>2 DEF SetsStay, Unsettled, Unstarted, Busy

LEMMA QuietHandlers ==
  ASSUME IInv, NEW r \in Job,
         \/ Arrive(r) \/ LookupKey(r) \/ InsertEntry(r)
         \/ MeasureQueue(r) \/ PublishDepth(r) \/ RememberKey(r)
  PROVE  SetsStay
<1>0. [Next]_vars /\ (Arrive(r) \/ (Handler(r) /\ ~TrySend(r)))
  BY DEF Next, Handler, Arrive, LookupKey, InsertEntry, MeasureQueue, PublishDepth, RememberKey, TrySend
<1>1. \A j \in Job : ~TrySend(j)
  BY DEF IInv, TypeOK, TrySend, Arrive, LookupKey, InsertEntry, MeasureQueue, PublishDepth,
         RememberKey, Goto, Reply
<1>2. \A j \in Job : Sent(j)' <=> Sent(j)
  BY <1>0, <1>1, SentChange
<1>3. (pc'[r] \in {"submit", "uncount"}) <=> (pc[r] \in {"submit", "uncount"})
  BY DEF IInv, TypeOK, Arrive, LookupKey, InsertEntry, MeasureQueue, PublishDepth, RememberKey,
         Goto, Reply
<1>4. \A j \in Job : Counted(j)' <=> Counted(j)
  BY <1>0, <1>2, <1>3, HandlerMovesOne DEF Counted
<1> QED
  BY <1>0, <1>2, <1>4, HandlerMovesOne, SameSets

LEMMA SubmissionEnters ==
  ASSUME IInv, NEW r \in Job, CountSubmitted(r)
  PROVE  JobEnters(r)
<1>0. [Next]_vars /\ Handler(r) /\ ~TrySend(r) /\ pc[r] = "count" /\ pc'[r] = "submit"
  BY DEF Next, Handler, CountSubmitted, TrySend, Goto, IInv, TypeOK
<1>1. \A j \in Job : ~TrySend(j)
  BY <1>0 DEF IInv, TypeOK, TrySend, CountSubmitted, Goto
<1>2. \A j \in Job : Sent(j)' <=> Sent(j)
  BY <1>0, <1>1, SentChange
<1>3. ~Counted(r) /\ ~Sent(r) /\ Counted(r)' /\ ~Settled(r)'
  BY <1>0, <1>2 DEF Counted, Sent, Settled
<1>4. \A j \in Job \ {r} : Counted(j)' <=> Counted(j)
  BY <1>0, <1>2, HandlerMovesOne DEF Counted
<1>5. UNCHANGED <<queue, wjob, wpc>>
  BY <1>0, HandlerMovesOne
<1>6. \A j \in Job : (Settled(j)' <=> Settled(j)) /\ (Free(j)' <=> Free(j))
  BY <1>2, <1>5 DEF Settled, Free, InQueue, HeldBy
<1>7. Free(r)
  BY <1>3 DEF IInv, OnlySentJobsRun, Held, Free
<1>8. Busy' = Busy
  BY <1>5 DEF Busy, WithWorker
<1> QED
  BY <1>3, <1>4, <1>6, <1>7, <1>8 DEF JobEnters, Unsettled, Unstarted

LEMMA RefusalPutsBack ==
  ASSUME IInv, NEW r \in Job, AnswerUnavailable(r)
  PROVE  JobIsPutBack(r)
<1>0. [Next]_vars /\ Handler(r) /\ ~TrySend(r) /\ pc[r] = "uncount" /\ pc'[r] = "done"
  BY DEF Next, Handler, AnswerUnavailable, TrySend, Goto, Reply, IInv, TypeOK
<1>1. \A j \in Job : ~TrySend(j)
  BY <1>0 DEF IInv, TypeOK, TrySend, AnswerUnavailable, Goto, Reply
<1>2. \A j \in Job : Sent(j)' <=> Sent(j)
  BY <1>0, <1>1, SentChange
<1>3. Counted(r) /\ ~Sent(r) /\ ~Counted(r)' /\ ~Settled(r)
  BY <1>0, <1>2 DEF Counted, Sent, Settled
<1>4. \A j \in Job \ {r} : Counted(j)' <=> Counted(j)
  BY <1>0, <1>2, HandlerMovesOne DEF Counted
<1>5. UNCHANGED <<queue, wjob, wpc>>
  BY <1>0, HandlerMovesOne
<1>6. \A j \in Job : (Settled(j)' <=> Settled(j)) /\ (Free(j)' <=> Free(j))
  BY <1>2, <1>5 DEF Settled, Free, InQueue, HeldBy
<1>7. Free(r)
  BY <1>3 DEF IInv, OnlySentJobsRun, Held, Free
<1>8. Busy' = Busy
  BY <1>5 DEF Busy, WithWorker
<1> QED
  BY <1>3, <1>4, <1>6, <1>7, <1>8 DEF JobIsPutBack, Unsettled, Unstarted

LEMMA SendStays ==
  ASSUME IInv, NEW r \in Job, TrySend(r)
  PROVE  SetsStay
<1> USE DEF IInv, TypeOK
<1>1. /\ pc[r] = "submit" /\ pc'[r] \in {"measure", "uncount"}
      /\ UNCHANGED <<wjob, wpc, answer, answerJob>>
      /\ \A j \in Job \ {r} : pc'[j] = pc[j]
  BY DEF TrySend, Goto, workerVars
<1>2. ~Settled(r) /\ Counted(r) /\ Counted(r)'
  BY <1>1 DEF Settled, Sent, Counted
<1>3. \A j \in Job \ {r} : InQueue(j)' <=> InQueue(j)
  <2>1. UNCHANGED queue \/ queue' = Append(queue, r)
    BY DEF TrySend
  <2>2. CASE UNCHANGED queue
    BY <2>2 DEF InQueue
  <2>3. ASSUME queue' = Append(queue, r), NEW j \in Job \ {r}
        PROVE  InQueue(j)' <=> InQueue(j)
    BY <2>3, AppendTasks DEF InQueue
  <2> QED
    BY <2>1, <2>2, <2>3
<1>4. ~Settled(r)'
  <2>1. CASE pc'[r] = "uncount"
    BY <2>1 DEF Settled, Sent
  <2>2. CASE pc'[r] = "measure"
    <3>1. queue' = Append(queue, r)
      BY <2>2 DEF TrySend, Goto
    <3>2. \E i \in 1..Len(Append(queue, r)) : Append(queue, r)[i] = r
      <4>1. queue \in Seq(Job)
        OBVIOUS
      <4>2. \A x : (\E i \in 1..Len(Append(queue, r)) : Append(queue, r)[i] = x)
                    <=> (x = r \/ \E i \in 1..Len(queue) : queue[i] = x)
        BY <4>1, AppendTasks
      <4> QED
        BY <4>2
    <3>3. InQueue(r)'
      BY <3>1, <3>2 DEF InQueue
    <3> QED
      BY <3>3 DEF Settled
  <2> QED
    BY <1>1, <2>1, <2>2
<1>5. \A j \in Job \ {r} : (Sent(j)' <=> Sent(j)) /\ (Counted(j)' <=> Counted(j))
  BY <1>1 DEF Sent, Counted
<1>6. \A j \in Job \ {r} : Settled(j)' <=> Settled(j)
  BY <1>1, <1>3, <1>5 DEF Settled
<1>7. \A j \in Job : Free(j)' <=> Free(j)
  BY <1>1 DEF Free, HeldBy
<1>8. Busy' = Busy
  BY <1>1 DEF Busy, WithWorker
<1> QED
  BY <1>2, <1>4, <1>5, <1>6, <1>7, <1>8 DEF SetsStay, Unsettled, Unstarted

-----------------------------------------------------------------------------
(* Workers *)

LEMMA WorkersSendNothing ==
  ASSUME IInv, NEW w \in Worker, WorkerStep(w)
  PROVE  /\ \A j \in Job : (Sent(j)' <=> Sent(j)) /\ (Counted(j)' <=> Counted(j))
         /\ \A v \in Worker \ {w} : wjob'[v] = wjob[v] /\ wpc'[v] = wpc[v]
<1>1. UNCHANGED requestVars
  BY DEF WorkerStep, Receive, CountDispatched, StartJob, ProcessJob, FinishJob, CountFinished,
         CleanUp, ExitWorker
<1>2. \A v \in Worker \ {w} : wjob'[v] = wjob[v] /\ wpc'[v] = wpc[v]
  BY DEF IInv, TypeOK, WorkerStep, Receive, CountDispatched, StartJob, ProcessJob, FinishJob,
         CountFinished, CleanUp, ExitWorker, Step, ForgetTask
<1> QED
  BY <1>1, <1>2 DEF requestVars, Sent, Counted

(* A job with a worker is sent, in no queue and with no other worker.      *)
LEMMA HeldAlone ==
  ASSUME IInv, NEW w \in Worker, wpc[w] \notin {"receive", "exited"}
  PROVE  /\ wjob[w] \in Job /\ Sent(wjob[w]) /\ Counted(wjob[w]) /\ ~InQueue(wjob[w])
         /\ \A v \in Worker \ {w} : wjob[v] # wjob[w]
<1>1. wjob[w] \in Job
  BY DEF IInv, TypeOK, WorkersHoldTasks
<1>2. Sent(wjob[w])
  BY <1>1 DEF IInv, OnlySentJobsRun, Held, HeldBy
<1>3. ~InQueue(wjob[w])
  BY DEF IInv, OnePlace, InQueue, HeldBy
<1>4. \A v \in Worker \ {w} : wjob[v] # wjob[w]
  BY <1>1, JobAssumption DEF IInv, OnePlace
<1> QED
  BY <1>1, <1>2, <1>3, <1>4 DEF Counted

LEMMA ReceiveStays ==
  ASSUME IInv, NEW w \in Worker, Receive(w)
  PROVE  SetsStay
<1>0. WorkerStep(w) /\ queue \in Seq(Job) /\ queue # <<>>
  BY DEF WorkerStep, Receive, IInv, TypeOK
<1>1. /\ wpc[w] = "receive" /\ wpc'[w] = "dispatched" /\ wjob'[w] = Head(queue)
      /\ queue' = Tail(queue)
  BY DEF Receive, Step, IInv, TypeOK
<1>2. wjob[w] = NoJob /\ \A j \in Job : j # NoJob
  BY <1>1, JobAssumption DEF IInv, WorkersHoldTasks
<1>3. \A j \in Job : InQueue(j) <=> j = Head(queue) \/ InQueue(j)'
  <2>1. \A j \in Job : (\E i \in 1..Len(queue) : queue[i] = j) <=>
          (j = Head(queue) \/ \E i \in 1..Len(Tail(queue)) : Tail(queue)[i] = j)
    BY <1>0, TailTasks
  <2> QED
    BY <1>1, <2>1 DEF InQueue
<1>4. \A j \in Job : Settled(j)' <=> Settled(j)
  BY <1>0, <1>1, <1>2, <1>3, WorkersSendNothing DEF Settled
<1>5. \A j \in Job : Free(j)' <=> Free(j)
  BY <1>0, <1>1, <1>2, WorkersSendNothing DEF Free, HeldBy
<1>6. Busy' = Busy
  BY <1>0, <1>1, WorkersSendNothing DEF Busy, WithWorker
<1> QED
  BY <1>0, <1>4, <1>5, <1>6, WorkersSendNothing DEF SetsStay, Unsettled, Unstarted

LEMMA DispatchStarts ==
  ASSUME IInv, NEW w \in Worker, CountDispatched(w)
  PROVE  JobStarts(w)
<1>0. WorkerStep(w)
  BY DEF WorkerStep
<1>1. wpc[w] = "dispatched" /\ wpc'[w] = "start" /\ UNCHANGED <<queue, wjob>>
  BY DEF CountDispatched, Step, IInv, TypeOK
<1>2. /\ wjob[w] \in Job /\ Counted(wjob[w]) /\ ~InQueue(wjob[w])
      /\ \A v \in Worker \ {w} : wjob[v] # wjob[w]
  BY <1>1, HeldAlone
<1>3. \A j \in Job : Settled(j)' <=> Settled(j)
  BY <1>0, <1>1, WorkersSendNothing DEF Settled, InQueue
<1>4. ~Settled(wjob[w]) /\ Free(wjob[w]) /\ ~Free(wjob[w])'
  BY <1>1, <1>2 DEF Settled, Free, HeldBy
<1>5. \A j \in Job \ {wjob[w]} : Free(j)' <=> Free(j)
  BY <1>0, <1>1, WorkersSendNothing DEF Free, HeldBy
<1>6. Busy' = Busy \cup {w} /\ w \notin Busy
  BY <1>0, <1>1, WorkersSendNothing DEF Busy, WithWorker
<1> QED
  BY <1>0, <1>1, <1>2, <1>3, <1>4, <1>5, <1>6, WorkersSendNothing
     DEF JobStarts, Unsettled, Unstarted

LEMMA WorkStays ==
  ASSUME IInv, NEW w \in Worker,
         StartJob(w) \/ ProcessJob(w) \/ FinishJob(w) \/ ExitWorker(w)
  PROVE  SetsStay
<1>0. WorkerStep(w)
  BY DEF WorkerStep
<1>1. /\ UNCHANGED <<queue, wjob>>
      /\ \/ wpc[w] \in {"start", "process", "finish"} /\ wpc'[w] \in {"process", "finish", "count"}
         \/ wpc[w] = "receive" /\ wpc'[w] = "exited"
  BY DEF StartJob, ProcessJob, FinishJob, ExitWorker, Step, IInv, TypeOK
<1>2. wpc[w] = "receive" => wjob[w] = NoJob
  BY DEF IInv, WorkersHoldTasks
<1>3. \A j \in Job : (Settled(j)' <=> Settled(j)) /\ (Free(j)' <=> Free(j))
  BY <1>0, <1>1, <1>2, WorkersSendNothing DEF Settled, InQueue, Free, HeldBy
<1>4. Busy' = Busy
  BY <1>0, <1>1, WorkersSendNothing DEF Busy, WithWorker
<1> QED
  BY <1>0, <1>3, <1>4, WorkersSendNothing DEF SetsStay, Unsettled, Unstarted

LEMMA FinishSettles ==
  ASSUME IInv, NEW w \in Worker, CountFinished(w)
  PROVE  JobSettles(w)
<1>0. WorkerStep(w)
  BY DEF WorkerStep
<1>1. wpc[w] = "count" /\ wpc'[w] = "clean" /\ UNCHANGED <<queue, wjob>>
  BY DEF CountFinished, Step, IInv, TypeOK
<1>2. /\ wjob[w] \in Job /\ Sent(wjob[w]) /\ Counted(wjob[w]) /\ ~InQueue(wjob[w])
      /\ \A v \in Worker \ {w} : wjob[v] # wjob[w]
  BY <1>1, HeldAlone
<1>3. ~Settled(wjob[w]) /\ Settled(wjob[w])'
  BY <1>0, <1>1, <1>2, WorkersSendNothing DEF Settled, InQueue
<1>4. \A j \in Job \ {wjob[w]} : Settled(j)' <=> Settled(j)
  BY <1>0, <1>1, WorkersSendNothing DEF Settled, InQueue
<1>5. \A j \in Job : Free(j)' <=> Free(j)
  BY <1>0, <1>1, WorkersSendNothing DEF Free, HeldBy
<1>6. ~Free(wjob[w])
  BY <1>1 DEF Free, HeldBy
<1>7. Busy' = Busy \ {w} /\ w \in Busy
  BY <1>0, <1>1, WorkersSendNothing DEF Busy, WithWorker
<1>8. Unsettled' = Unsettled \ {wjob[w]} /\ wjob[w] \in Unsettled
  <2>1. \A j \in Job : Counted(j)' <=> Counted(j)
    BY <1>0, WorkersSendNothing
  <2>2. wjob[w] \in Unsettled
    BY <1>2, <1>3 DEF Unsettled
  <2>3. \A j \in Job : j \in Unsettled' <=> j \in Unsettled /\ j # wjob[w]
    BY <1>1, <1>3, <1>4, <2>1 DEF Unsettled
  <2> QED
    BY <2>2, <2>3 DEF Unsettled
<1>9. Unstarted' = Unstarted
  BY <1>0, <1>4, <1>5, <1>6, WorkersSendNothing DEF Unstarted
<1> QED
  BY <1>7, <1>8, <1>9 DEF JobSettles

LEMMA CleanUpStays ==
  ASSUME IInv, NEW w \in Worker, CleanUp(w)
  PROVE  SetsStay
<1>0. WorkerStep(w)
  BY DEF WorkerStep
<1>1. wpc[w] = "clean" /\ wpc'[w] = "receive" /\ wjob'[w] = NoJob /\ UNCHANGED queue
      /\ NoJob \notin Job
  BY JobAssumption DEF CleanUp, ForgetTask, Step, IInv, TypeOK
<1>2. /\ wjob[w] \in Job /\ Sent(wjob[w]) /\ ~InQueue(wjob[w])
      /\ \A v \in Worker \ {w} : wjob[v] # wjob[w]
  BY <1>1, HeldAlone
<1>3. \A j \in Job : Settled(j)' <=> Settled(j)
  BY <1>0, <1>1, WorkersSendNothing DEF Settled, InQueue
<1>4. Settled(wjob[w])
  BY <1>1, <1>2 DEF Settled
<1>5. \A j \in Job \ {wjob[w]} : Free(j)' <=> Free(j)
  BY <1>0, <1>1, WorkersSendNothing DEF Free, HeldBy
<1>6. Busy' = Busy
  BY <1>0, <1>1, WorkersSendNothing DEF Busy, WithWorker
<1> QED
  BY <1>0, <1>3, <1>4, <1>5, <1>6, WorkersSendNothing DEF SetsStay, Unsettled, Unstarted

-----------------------------------------------------------------------------
(* Everything else leaves tasks, workers and requests alone. *)
LEMMA OthersStay ==
  ASSUME UNCHANGED <<queue, requestVars, wjob, wpc>>
  PROVE  SetsStay
BY SameSets DEF requestVars, Sent, Counted

(* One way or the other, every step changes sets and gauges alike. *)
LEMMA Together ==
  ASSUME IInv, [Next]_vars
  PROVE  \/ SetsStay /\ \/ UNCHANGED metrics
                         \/ \E n \in Int : metrics' = SetQueueDepth(metrics, n)
                         \/ metrics' = Stuck(metrics)
         \/ \E r \in Job : JobEnters(r) /\ metrics' = Submitted(metrics)
         \/ \E r \in Job : JobIsPutBack(r) /\ metrics' = Failed(metrics, FALSE)
         \/ \E w \in Worker : JobStarts(w) /\ metrics' = Dispatched(metrics)
         \/ \E w \in Worker : /\ JobSettles(w)
                              /\ metrics' \in {Completed(metrics), Failed(metrics, TRUE)}
<1>1. CASE UNCHANGED vars
  BY <1>1, OthersStay DEF vars, workerVars
<1>2. ASSUME NEW r \in Job, Arrive(r) \/ LookupKey(r) \/ InsertEntry(r) \/ MeasureQueue(r) \/ RememberKey(r)
      PROVE  SetsStay /\ UNCHANGED metrics
  BY <1>2, QuietHandlers DEF Arrive, LookupKey, InsertEntry, MeasureQueue, RememberKey
<1>3. ASSUME NEW r \in Job, PublishDepth(r)
      PROVE  SetsStay /\ \E n \in Int : metrics' = SetQueueDepth(metrics, n)
  <2>1. seenLen[r] \in Int
    BY CapacityAssumption DEF IInv, TypeOK
  <2> QED
    BY <1>3, <2>1, QuietHandlers DEF PublishDepth
<1>4. ASSUME NEW r \in Job, CountSubmitted(r)
      PROVE  JobEnters(r) /\ metrics' = Submitted(metrics)
  BY <1>4, SubmissionEnters DEF CountSubmitted
<1>5. ASSUME NEW r \in Job, AnswerUnavailable(r)
      PROVE  JobIsPutBack(r) /\ metrics' = Failed(metrics, FALSE)
  BY <1>5, RefusalPutsBack DEF AnswerUnavailable
<1>6. ASSUME NEW r \in Job, TrySend(r)
      PROVE  SetsStay /\ UNCHANGED metrics
  BY <1>6, SendStays DEF TrySend
<1>7. ASSUME NEW w \in Worker, CountDispatched(w)
      PROVE  JobStarts(w) /\ metrics' = Dispatched(metrics)
  BY <1>7, DispatchStarts DEF CountDispatched
<1>8. ASSUME NEW w \in Worker, CountFinished(w)
      PROVE  JobSettles(w) /\ metrics' \in {Completed(metrics), Failed(metrics, TRUE)}
  BY <1>8, FinishSettles DEF CountFinished
<1>9. ASSUME NEW w \in Worker, \/ Receive(w) \/ CleanUp(w) \/ StartJob(w)
                               \/ ProcessJob(w) \/ FinishJob(w) \/ ExitWorker(w)
      PROVE  SetsStay /\ UNCHANGED metrics
  BY <1>9, ReceiveStays, CleanUpStays, WorkStays
     DEF Receive, CleanUp, StartJob, ProcessJob, FinishJob, ExitWorker
<1>10. CASE CountStuck
  BY <1>10, OthersStay DEF CountStuck, workerVars
<1>11. CASE \/ \E k \in Key : ForgetKey(k)
            \/ \E j \in Job : BecomeOverdue(j) \/ MarkStuck(j)
            \/ ListStuckJobs \/ Signal \/ ServerReturns \/ MainReturns
  BY <1>11, OthersStay
     DEF ForgetKey, BecomeOverdue, MarkStuck, ListStuckJobs, Signal, ServerReturns, MainReturns, workerVars
<1> QED
  BY <1>1, <1>2, <1>3, <1>4, <1>5, <1>6, <1>7, <1>8, <1>9, <1>10, <1>11
     DEF Next, Handler, WorkerStep, ReaperStep

(* Every step does to the gauges what it does to the sets. *)
LEMMA StepGInv ==
  ASSUME IInv, GInv, [Next]_vars
  PROVE  GInv'
<1>0. /\ metrics \in [Gauges \cup Counters -> Int]
      /\ IsFiniteSet(Unsettled) /\ IsFiniteSet(Unstarted) /\ IsFiniteSet(Busy)
  BY WorkerAssumption, FS_Subset DEF IInv, TypeOK, GInv, Unsettled, Unstarted, Busy
<1>1. Agrees(metrics, Unsettled, Unstarted, Busy)
  BY DEF GInv
<1>2. IsFiniteSet(Unsettled)' /\ Agrees(metrics, Unsettled, Unstarted, Busy)' => GInv'
  BY DEF GInv
<1>3. /\ Cardinality(Unsettled) \in Nat /\ Cardinality(Unstarted) \in Nat /\ Cardinality(Busy) \in Nat
      /\ \A g \in {"in_flight", "stuck", "running", "queued"} : metrics[g] \in Int
  BY <1>0, FS_CardinalityType DEF Gauges
<1>s. Unstarted \subseteq Unsettled
  BY DEF Unsettled, Unstarted
<1>4. ASSUME SetsStay,
             \/ UNCHANGED metrics
             \/ \E n \in Int : metrics' = SetQueueDepth(metrics, n)
             \/ metrics' = Stuck(metrics)
      PROVE  GInv'
  <2>1. IsFiniteSet(Unsettled)'
    BY <1>0, <1>4 DEF SetsStay
  <2>2. /\ metrics'["in_flight"] + metrics'["stuck"] = metrics["in_flight"] + metrics["stuck"]
        /\ metrics'["running"] + metrics'["stuck"] = metrics["running"] + metrics["stuck"]
        /\ metrics'["queued"] = metrics["queued"]
    BY <1>0, <1>3, <1>4 DEF SetQueueDepth, Stuck, Gauges, Counters
  <2>3. Agrees(metrics, Unsettled, Unstarted, Busy)'
    BY <1>1, <1>4, <2>2 DEF Agrees, SetsStay
  <2> QED
    BY <1>2, <2>1, <2>3
<1>5. ASSUME NEW r \in Job, JobEnters(r), metrics' = Submitted(metrics)
      PROVE  GInv'
  <2>1. /\ IsFiniteSet(Unsettled)' /\ Cardinality(Unsettled') = Cardinality(Unsettled) + 1
        /\ Cardinality(Unstarted') = Cardinality(Unstarted) + 1 /\ Busy' = Busy
    BY <1>0, <1>s, <1>5, FS_AddElement DEF JobEnters
  <2>2. /\ metrics'["in_flight"] = metrics["in_flight"] + 1
        /\ metrics'["queued"] = metrics["queued"] + 1
        /\ metrics'["running"] = metrics["running"] /\ metrics'["stuck"] = metrics["stuck"]
    BY <1>0, <1>5 DEF Submitted, Gauges, Counters
  <2>3. Agrees(metrics, Unsettled, Unstarted, Busy)'
    BY <1>1, <1>3, <2>1, <2>2 DEF Agrees
  <2> QED
    BY <1>2, <2>1, <2>3
<1>6. ASSUME NEW r \in Job, JobIsPutBack(r), metrics' = Failed(metrics, FALSE)
      PROVE  GInv'
  <2>1. /\ IsFiniteSet(Unsettled)' /\ Cardinality(Unsettled') = Cardinality(Unsettled) - 1
        /\ Cardinality(Unstarted') = Cardinality(Unstarted) - 1 /\ Busy' = Busy
    BY <1>0, <1>s, <1>6, FS_RemoveElement DEF JobIsPutBack
  <2>2. /\ metrics'["in_flight"] = metrics["in_flight"] - 1
        /\ metrics'["queued"] = metrics["queued"] - 1
        /\ metrics'["running"] = metrics["running"] /\ metrics'["stuck"] = metrics["stuck"]
    BY <1>0, <1>6 DEF Failed, Gauges, Counters
  <2>3. Agrees(metrics, Unsettled, Unstarted, Busy)'
    BY <1>1, <1>3, <2>1, <2>2 DEF Agrees
  <2> QED
    BY <1>2, <2>1, <2>3
<1>7. ASSUME NEW w \in Worker, JobStarts(w), metrics' = Dispatched(metrics)
      PROVE  GInv'
  <2>1. /\ Unsettled' = Unsettled /\ Cardinality(Unstarted') = Cardinality(Unstarted) - 1
        /\ Cardinality(Busy') = Cardinality(Busy) + 1
    BY <1>0, <1>7, FS_AddElement, FS_RemoveElement DEF JobStarts
  <2>2. /\ metrics'["in_flight"] = metrics["in_flight"] /\ metrics'["stuck"] = metrics["stuck"]
        /\ metrics'["queued"] = metrics["queued"] - 1
        /\ metrics'["running"] = metrics["running"] + 1
    BY <1>0, <1>7 DEF Dispatched, Gauges, Counters
  <2>3. Agrees(metrics, Unsettled, Unstarted, Busy)'
    BY <1>1, <1>3, <2>1, <2>2 DEF Agrees
  <2> QED
    BY <1>0, <1>2, <2>1, <2>3
<1>8. ASSUME NEW w \in Worker, JobSettles(w), metrics' \in {Completed(metrics), Failed(metrics, TRUE)}
      PROVE  GInv'
  <2>1. /\ IsFiniteSet(Unsettled)' /\ Cardinality(Unsettled') = Cardinality(Unsettled) - 1
        /\ Unstarted' = Unstarted /\ Cardinality(Busy') = Cardinality(Busy) - 1
    BY <1>0, <1>8, FS_RemoveElement DEF JobSettles
  <2>2. /\ metrics'["in_flight"] = metrics["in_flight"] - 1
        /\ metrics'["running"] = metrics["running"] - 1
        /\ metrics'["queued"] = metrics["queued"] /\ metrics'["stuck"] = metrics["stuck"]
    BY <1>0, <1>8 DEF Completed, Failed, Gauges, Counters
  <2>3. Agrees(metrics, Unsettled, Unstarted, Busy)'
    BY <1>1, <1>3, <2>1, <2>2 DEF Agrees
  <2> QED
    BY <1>2, <2>1, <2>3
<1> QED
  BY <1>4, <1>5, <1>6, <1>7, <1>8, Together

(* As long as the reaper has counted no job as stuck, in_flight is the     *)
(* number of jobs submitted and not yet settled, running that of the jobs  *)
(* with a worker and queued that of the jobs still to start, for any jobs, *)
(* workers and capacity (state.rs: submitted, dispatched, completed and    *)
(* failed are called apart from what they describe).                       *)
THEOREM GaugesAreExact == Spec => []GaugesAccountForJobs
<1>1. ASSUME Init
      PROVE  GInv
  <2>1. Unsettled = {} /\ Unstarted = {} /\ Busy = {}
    BY <1>1 DEF Init, Unsettled, Unstarted, Busy, Counted, Sent, WithWorker
  <2>2. Agrees(metrics, Unsettled, Unstarted, Busy)
    BY <1>1, <2>1, FS_EmptySet DEF Init, NewMetrics, Gauges, Counters, Agrees
  <2> QED
    BY <2>1, <2>2, FS_EmptySet DEF GInv
<1>2. GInv /\ IInv /\ [Next]_vars => GInv'
  BY StepGInv
<1>3. GInv /\ IInv => GaugesAccountForJobs
  <2> SUFFICES ASSUME GInv, IInv, metrics["stuck"] = 0
               PROVE  /\ metrics["in_flight"] = Cardinality(Unsettled)
                      /\ metrics["running"] = Cardinality(Busy)
                      /\ metrics["queued"] = Cardinality(Unstarted)
    BY DEF GaugesAccountForJobs, Unsettled, Unstarted, Busy, Free
  <2>1. metrics["in_flight"] \in Int /\ metrics["running"] \in Int
    BY DEF IInv, TypeOK, Gauges
  <2> QED
    BY <2>1 DEF GInv, Agrees
<1> QED
  BY <1>1, <1>2, <1>3, Invariance, PTL DEF Spec

-----------------------------------------------------------------------------
(***************************************************************************)
(* The service implements JobContract: sending a task is Accept or Refuse, *)
(* receiving one is Begin, cleaning up is End, and every other step leaves *)
(* each job at its stage.                                                  *)
(***************************************************************************)

Refused(j) == pc[j] = "uncount" \/ (pc[j] = "done" /\ answer[j] = "unavailable")

(* The variable of the contract, and what it stands for. *)
stages == [j \in Job |-> StageOf(j)]

Waiting == {j \in Job : InQueue(j)}
Working == {j \in Job : Held(j)}

(* A step that moves one job from one stage to another. *)
Moves(j, from, to) ==
  StageOf(j) = from /\ StageOf(j)' = to /\ \A i \in Job \ {j} : StageOf(i)' = StageOf(i)

-----------------------------------------------------------------------------
(* Stages *)

LEMMA StagesAre ==
  ASSUME IInv, NEW j \in Job
  PROVE  /\ StageOf(j) = "waiting" <=> InQueue(j)
         /\ StageOf(j) = "working" <=> Held(j)
         /\ Sent(j) /\ ~InQueue(j) /\ ~Held(j) => StageOf(j) = "finished"
         /\ Refused(j) => StageOf(j) = "refused"
         /\ ~Sent(j) /\ ~Refused(j) => StageOf(j) = "new"
<1>1. ~(InQueue(j) /\ Held(j))
  BY DEF IInv, OnePlace, InQueue, Held, HeldBy
<1>2. InQueue(j) \/ Held(j) => Sent(j)
  BY DEF IInv, OnlySentJobsRun
<1>3. ~(Sent(j) /\ Refused(j))
  BY DEF Sent, Refused
<1> QED
  BY <1>1, <1>2, <1>3 DEF StageOf, Refused

LEMMA StagesAreAfter ==
  ASSUME IInv', NEW j \in Job
  PROVE  /\ StageOf(j)' = "waiting" <=> InQueue(j)'
         /\ StageOf(j)' = "working" <=> Held(j)'
         /\ Sent(j)' /\ ~InQueue(j)' /\ ~Held(j)' => StageOf(j)' = "finished"
         /\ Refused(j)' => StageOf(j)' = "refused"
         /\ ~Sent(j)' /\ ~Refused(j)' => StageOf(j)' = "new"
<1>1. ~(InQueue(j) /\ Held(j))'
  BY DEF IInv, OnePlace, InQueue, Held, HeldBy
<1>2. (InQueue(j) \/ Held(j) => Sent(j))'
  BY DEF IInv, OnlySentJobsRun
<1>3. ~(Sent(j) /\ Refused(j))'
  BY DEF Sent, Refused
<1> QED
  BY <1>1, <1>2, <1>3 DEF StageOf, Refused

LEMMA SameStage ==
  ASSUME NEW j \in Job, InQueue(j)' <=> InQueue(j), Held(j)' <=> Held(j),
         Sent(j)' <=> Sent(j), Refused(j)' <=> Refused(j)
  PROVE  StageOf(j)' = StageOf(j)
BY DEF StageOf, Refused

(* A step that moves nothing stutters, and a move is one of the contract.  *)
LEMMA StagesStay ==
  ASSUME \A j \in Job : StageOf(j)' = StageOf(j)
  PROVE  stages' = stages
BY DEF stages

LEMMA MovesAreMoves ==
  ASSUME NEW j \in Job, NEW from, NEW to, Moves(j, from, to)
  PROVE  Contract!Move(j, from, to)
BY DEF Moves, Contract!Move

-----------------------------------------------------------------------------
(* How many wait and how many are worked on *)

(* The channel holds each waiting job once. *)
LEMMA WaitingCount ==
  ASSUME IInv
  PROVE  Cardinality(Waiting) = Len(queue)
<1> DEFINE place == [i \in 1..Len(queue) |-> queue[i]]
<1>1. queue \in Seq(Job) /\ Len(queue) \in Nat /\ \A i \in 1..Len(queue) : queue[i] \in Job
  BY LenProperties, ElementOfSeq DEF IInv, TypeOK
<1>2. place \in Bijection(1..Len(queue), Waiting)
  <2>1. place \in [1..Len(queue) -> Waiting]
    BY <1>1 DEF Waiting, InQueue
  <2>2. \A a, b \in 1..Len(queue) : place[a] = place[b] => a = b
    BY DEF IInv, OnePlace
  <2>3. \A j \in Waiting : \E i \in 1..Len(queue) : place[i] = j
    BY DEF Waiting, InQueue
  <2> QED
    BY <2>1, <2>2, <2>3 DEF Bijection, Injection, IsInjective, Surjection
<1>3. IsFiniteSet(1..Len(queue)) /\ Cardinality(1..Len(queue)) = Len(queue)
  <2>1. \A n \in Nat : IsFiniteSet(1..n) /\ Cardinality(1..n) = n
    BY FS_Interval
  <2> QED
    BY <1>1, <2>1
<1>4. ExistsBijection(1..Len(queue), Waiting)
  BY <1>2 DEF ExistsBijection
<1> QED
  BY <1>3, <1>4, FS_Bijection

(* A worker that holds no task leaves room for one more. *)
LEMMA WorkingCount ==
  ASSUME IInv, NEW w \in Worker, wjob[w] = NoJob
  PROVE  Cardinality(Working) < Cardinality(Worker)
<1> DEFINE holder == [j \in Working |-> CHOOSE v \in Worker : HeldBy(v, j)]
<1>1. \A j \in Working : holder[j] \in Worker \ {w} /\ HeldBy(holder[j], j)
  <2>1. ASSUME NEW j \in Working
        PROVE  \E v \in Worker : HeldBy(v, j)
    BY DEF Working, Held
  <2>2. ASSUME NEW j \in Working
        PROVE  ~HeldBy(w, j)
    BY JobAssumption DEF Working, HeldBy
  <2> QED
    BY <2>1, <2>2
<1>2. holder \in Injection(Working, Worker \ {w})
  <2>1. holder \in [Working -> Worker \ {w}]
    BY <1>1
  <2>2. \A i, j \in Working : holder[i] = holder[j] => i = j
    BY <1>1 DEF HeldBy
  <2> QED
    BY <2>1, <2>2 DEF Injection, IsInjective
<1> HIDE DEF holder
<1>3. /\ IsFiniteSet(Worker \ {w}) /\ Cardinality(Worker \ {w}) = Cardinality(Worker) - 1
      /\ Cardinality(Worker) \in Nat
  BY WorkerAssumption, FS_RemoveElement, FS_CardinalityType
<1>4. /\ IsFiniteSet(Working) /\ Cardinality(Working) <= Cardinality(Worker \ {w})
  BY <1>2, <1>3, FS_Injection
<1>5. Cardinality(Working) \in Nat
  BY <1>4, FS_CardinalityType
<1> QED
  BY <1>3, <1>4, <1>5

(* FiniteSets as the contract sees it. *)
LEMMA SameCardinality == \A S : Contract!Cardinality(S) = Cardinality(S)
  BY DEF Contract!Cardinality, Cardinality

LEMMA ContractCounts ==
  ASSUME IInv
  PROVE  Contract!At("waiting") = Waiting /\ Contract!At("working") = Working
BY StagesAre DEF Contract!At, Waiting, Working

-----------------------------------------------------------------------------
(* The steps *)

LEMMA HandlersStay ==
  ASSUME IInv, NEW r \in Job, Arrive(r) \/ (Handler(r) /\ ~TrySend(r))
  PROVE  stages' = stages
<1>0. [Next]_vars
  BY DEF Next
<1>1. \A j \in Job : ~TrySend(j)
  <2>0. pc[r] # "submit"
    BY DEF Arrive, Handler, LookupKey, InsertEntry, CountSubmitted, MeasureQueue,
           PublishDepth, AnswerUnavailable, RememberKey
  <2>1. pc'[r] # pc[r]
    BY DEF IInv, TypeOK, Arrive, Handler, LookupKey, InsertEntry, CountSubmitted, MeasureQueue,
           PublishDepth, AnswerUnavailable, RememberKey, Goto, Reply
  <2>2. ASSUME NEW j \in Job, TrySend(j)
        PROVE  pc'[r] = pc[r]
    BY <2>0, <2>2 DEF IInv, TypeOK, TrySend, Goto
  <2> QED
    BY <2>1, <2>2
<1>2. \A j \in Job : Sent(j)' <=> Sent(j)
  BY <1>0, <1>1, SentChange
<1>3. UNCHANGED <<queue, wjob, wpc>>
  BY HandlerMovesOne
<1>4. \A j \in Job : (InQueue(j)' <=> InQueue(j)) /\ (Held(j)' <=> Held(j))
  BY <1>3 DEF InQueue, Held, HeldBy
<1>5. Refused(r)' <=> Refused(r)
  <2>1. CASE Arrive(r) \/ InsertEntry(r) \/ CountSubmitted(r) \/ MeasureQueue(r)
    BY <2>1 DEF IInv, TypeOK, Arrive, InsertEntry, CountSubmitted, MeasureQueue, Goto, Refused
  <2>2. CASE LookupKey(r)
    BY <2>2 DEF IInv, TypeOK, LookupKey, Goto, Reply, Refused
  <2>3. CASE PublishDepth(r) \/ AnswerUnavailable(r) \/ RememberKey(r)
    BY <2>3 DEF IInv, TypeOK, PublishDepth, AnswerUnavailable, RememberKey, Goto, Reply, Refused
  <2> QED
    BY <2>1, <2>2, <2>3 DEF Handler
<1>6. \A j \in Job : Refused(j)' <=> Refused(j)
  BY <1>5, HandlerMovesOne DEF Refused
<1> QED
  BY <1>2, <1>4, <1>6, SameStage, StagesStay

(* A handler accepts a job while there is room.  It refuses one only when  *)
(* there is none: no worker leaves while a handler is at work.             *)
LEMMA SendDecides ==
  ASSUME IInv, IInv', NEW r \in Job, TrySend(r)
  PROVE  Contract!Accept(r) \/ Contract!Refuse(r)
<1>1. /\ pc[r] = "submit" /\ UNCHANGED <<wjob, answer, answerJob>>
      /\ \A j \in Job \ {r} : pc'[j] = pc[j]
      /\ \/ Len(queue) < Capacity /\ queue' = Append(queue, r) /\ pc'[r] = "measure"
         \/ ~(Len(queue) < Capacity /\ ReceiverAlive) /\ UNCHANGED queue /\ pc'[r] = "uncount"
  BY DEF TrySend, Goto, IInv, TypeOK, workerVars
<1>2. queue \in Seq(Job) /\ Len(queue) \in Nat /\ Len(queue) <= Capacity /\ Capacity \in Nat
  BY CapacityAssumption, LenProperties DEF IInv, TypeOK
<1>3. StageOf(r) = "new"
  BY <1>1, StagesAre DEF Sent, Refused
<1>4. Cardinality(Contract!At("waiting")) = Len(queue)
  BY ContractCounts, WaitingCount
<1>5. ASSUME NEW j \in Job \ {r}
      PROVE  StageOf(j)' = StageOf(j)
  <2>1. InQueue(j)' <=> InQueue(j)
    BY <1>1, <1>2, AppendTasks DEF InQueue
  <2>2. (Held(j)' <=> Held(j)) /\ (Sent(j)' <=> Sent(j)) /\ (Refused(j)' <=> Refused(j))
    BY <1>1 DEF Held, HeldBy, Sent, Refused
  <2> QED
    BY <2>1, <2>2, SameStage
<1>6. CASE Len(queue) < Capacity /\ queue' = Append(queue, r) /\ pc'[r] = "measure"
  <2>1. InQueue(r)'
    BY <1>2, <1>6, AppendTasks DEF InQueue
  <2>2. Moves(r, "new", "waiting")
    BY <1>3, <1>5, <2>1, StagesAreAfter DEF Moves
  <2>3. Contract!Move(r, "new", "waiting")
    BY <2>2, MovesAreMoves
  <2> QED
    BY <1>4, <1>6, <2>3, SameCardinality DEF Contract!Accept
<1>7. CASE ~(Len(queue) < Capacity /\ ReceiverAlive) /\ pc'[r] = "uncount"
  <2>1. ReceiverAlive
    BY <1>1, WorkerAssumption DEF ReceiverAlive, IInv, ShutdownInOrder
  <2>2. Len(queue) = Capacity
    BY <1>2, <1>7, <2>1
  <2>3. Refused(r)'
    BY <1>7 DEF Refused
  <2>4. Moves(r, "new", "refused")
    BY <1>3, <1>5, <2>3, StagesAreAfter DEF Moves
  <2>5. Contract!Move(r, "new", "refused")
    BY <2>4, MovesAreMoves
  <2> QED
    BY <1>4, <2>2, <2>5, SameCardinality DEF Contract!Refuse
<1> QED
  BY <1>1, <1>6, <1>7

LEMMA ReceiveBegins ==
  ASSUME IInv, IInv', NEW w \in Worker, Receive(w)
  PROVE  \E j \in Job : Contract!Begin(j)
<1>0. WorkerStep(w) /\ queue \in Seq(Job) /\ queue # <<>>
  BY DEF WorkerStep, Receive, IInv, TypeOK
<1>1. PICK j \in Job : j = Head(queue)
  BY <1>0, HeadTailProperties
<1>2. /\ wpc[w] = "receive" /\ wjob'[w] = j /\ queue' = Tail(queue) /\ UNCHANGED requestVars
      /\ \A v \in Worker \ {w} : wjob'[v] = wjob[v]
  BY <1>1 DEF Receive, Step, IInv, TypeOK
<1>3. wjob[w] = NoJob /\ \A i \in Job : i # NoJob
  BY <1>2, JobAssumption DEF IInv, WorkersHoldTasks
<1>4. \A i \in Job : InQueue(i) <=> i = j \/ InQueue(i)'
  <2>1. \A i \in Job : InQueue(i) <=> i = Head(queue) \/ InQueue(i)'
    <3>1. \A i \in Job : (\E k \in 1..Len(queue) : queue[k] = i) <=>
            (i = Head(queue) \/ \E k \in 1..Len(Tail(queue)) : Tail(queue)[k] = i)
      BY <1>0, TailTasks
    <3> QED
      BY <1>2, <3>1 DEF InQueue
  <2> QED
    BY <1>1, <2>1
<1>5. StageOf(j) = "waiting" /\ StageOf(j)' = "working"
  <2>1. InQueue(j) /\ Held(j)'
    BY <1>1, <1>2, <1>4 DEF Held, HeldBy
  <2> QED
    BY <1>1, <2>1, StagesAre, StagesAreAfter
<1>6. ASSUME NEW i \in Job \ {j}
      PROVE  StageOf(i)' = StageOf(i)
  <2>1. Held(i)' <=> Held(i)
    BY <1>2, <1>3 DEF Held, HeldBy
  <2>2. (InQueue(i)' <=> InQueue(i)) /\ (Sent(i)' <=> Sent(i)) /\ (Refused(i)' <=> Refused(i))
    BY <1>2, <1>4 DEF requestVars, Sent, Refused
  <2> QED
    BY <2>1, <2>2, SameStage
<1>7. Contract!Move(j, "waiting", "working")
  BY <1>5, <1>6, MovesAreMoves DEF Moves
<1>8. Cardinality(Contract!At("working")) < Cardinality(Worker)
  BY <1>3, ContractCounts, WorkingCount
<1> QED
  BY <1>1, <1>7, <1>8, SameCardinality DEF Contract!Begin

LEMMA CleanUpEnds ==
  ASSUME IInv, IInv', NEW w \in Worker, CleanUp(w)
  PROVE  \E j \in Job : Contract!End(j)
<1>0. wpc[w] = "clean"
  BY DEF CleanUp, Step
<1>1. PICK j \in Job : j = wjob[w] /\ Sent(j) /\ ~InQueue(j) /\ \A v \in Worker \ {w} : wjob[v] # j
  BY <1>0, HeldAlone
<1>2. /\ wjob'[w] = NoJob /\ UNCHANGED <<queue, requestVars>>
      /\ \A v \in Worker \ {w} : wjob'[v] = wjob[v]
  BY DEF CleanUp, ForgetTask, Step, IInv, TypeOK
<1>3. StageOf(j) = "working"
  BY <1>1, StagesAre DEF Held, HeldBy
<1>4. StageOf(j)' = "finished"
  <2>1. Sent(j)' /\ ~InQueue(j)'
    BY <1>1, <1>2 DEF requestVars, Sent, InQueue
  <2>2. ~Held(j)'
    BY <1>1, <1>2, JobAssumption DEF Held, HeldBy
  <2> QED
    BY <1>1, <2>1, <2>2, StagesAreAfter
<1>5. ASSUME NEW i \in Job \ {j}
      PROVE  StageOf(i)' = StageOf(i)
  <2>1. Held(i)' <=> Held(i)
    BY <1>1, <1>2, JobAssumption DEF Held, HeldBy
  <2>2. (InQueue(i)' <=> InQueue(i)) /\ (Sent(i)' <=> Sent(i)) /\ (Refused(i)' <=> Refused(i))
    BY <1>2 DEF requestVars, InQueue, Sent, Refused
  <2> QED
    BY <2>1, <2>2, SameStage
<1>6. Contract!Move(j, "working", "finished")
  BY <1>1, <1>3, <1>4, <1>5, MovesAreMoves DEF Moves
<1> QED
  BY <1>1, <1>6 DEF Contract!End

(* The rest moves no task and answers no request. *)
LEMMA TheRestStays ==
  ASSUME UNCHANGED <<queue, requestVars, wjob>>
  PROVE  stages' = stages
<1>1. \A j \in Job : /\ InQueue(j)' <=> InQueue(j)
                     /\ Held(j)' <=> Held(j)
                     /\ Sent(j)' <=> Sent(j)
                     /\ Refused(j)' <=> Refused(j)
  BY DEF requestVars, InQueue, Held, HeldBy, Sent, Refused
<1> QED
  BY <1>1, SameStage, StagesStay

LEMMA StepImplements ==
  ASSUME IInv, IInv', [Next]_vars
  PROVE  Contract!Next \/ stages' = stages
<1>1. ASSUME NEW r \in Job, Arrive(r) \/ Handler(r)
      PROVE  Contract!Next \/ stages' = stages
  BY <1>1, HandlersStay, SendDecides DEF Contract!Next
<1>2. ASSUME NEW w \in Worker, WorkerStep(w)
      PROVE  Contract!Next \/ stages' = stages
  <2>1. CASE Receive(w)
    BY <2>1, ReceiveBegins DEF Contract!Next
  <2>2. CASE CleanUp(w)
    BY <2>2, CleanUpEnds DEF Contract!Next
  <2>3. CASE CountDispatched(w) \/ StartJob(w) \/ ProcessJob(w) \/ FinishJob(w)
             \/ CountFinished(w) \/ ExitWorker(w)
    BY <2>3, TheRestStays DEF CountDispatched, StartJob, ProcessJob, FinishJob, CountFinished, ExitWorker
  <2> QED
    BY <1>2, <2>1, <2>2, <2>3 DEF WorkerStep
<1>3. ASSUME \/ \E k \in Key : ForgetKey(k)
             \/ \E j \in Job : BecomeOverdue(j)
             \/ ReaperStep \/ Signal \/ ServerReturns \/ MainReturns
             \/ UNCHANGED vars
      PROVE  stages' = stages
  BY <1>3, TheRestStays DEF ForgetKey, BecomeOverdue, ReaperStep, ListStuckJobs, MarkStuck,
       CountStuck, Signal, ServerReturns, MainReturns, vars, workerVars
<1> QED
  BY <1>1, <1>2, <1>3 DEF Next

(* Jobs are accepted while there is room, refused only when the channel is *)
(* full, and each run once by one worker: every step of handlers, workers, *)
(* reaper and main is a step of JobContract or none (queue.rs, routes.rs). *)
THEOREM ServiceImplementsContract == Spec => ImplementsContract
<1>1. Init => Contract!Init
  <2>1. ASSUME Init, NEW j \in Job
        PROVE  StageOf(j) = "new"
    <3>1. ~InQueue(j) /\ ~Held(j)
      BY <2>1, JobAssumption DEF Init, InQueue, Held, HeldBy
    <3> QED
      BY <2>1, <3>1 DEF Init, Sent, StageOf
  <2> QED
    BY <2>1 DEF Contract!Init
<1>2. IInv /\ IInv' /\ [Next]_vars => [Contract!Next]_stages
  BY StepImplements
<1> QED
  BY <1>1, <1>2, Invariance, PTL DEF Spec, ImplementsContract, Contract!Spec, stages
=============================================================================
