---------------------------- MODULE JobLifecycle ----------------------------
(***************************************************************************)
(* Submission, execution and supervision of jobs in the swift-api process: *)
(* the POST handlers of routes.rs, the bounded queue, its workers and the  *)
(* reaper of queue.rs, and the startup and shutdown sequence of main.rs,   *)
(* acting on the job table, the metrics and the idempotency keys.          *)
(*                                                                         *)
(* Every step is one access to state that several tasks share: one locked  *)
(* method of the job table or of the idempotency keys, one operation on    *)
(* the channel, one method of Metrics.  The handlers contain no .await, so *)
(* a request timeout or a client that hangs up cannot stop one half-way.   *)
(***************************************************************************)
EXTENDS JobStore, Metrics, Sequences, FiniteSets

CONSTANTS
  Worker,           \* worker tasks                        (--job-workers)
  Capacity,         \* places in the channel               (--job-queue-capacity)
  Key,              \* values of the Idempotency-Key header
  NoKey,            \* a request without that header, or a batch request
  KeyOf,            \* the key each request carries
  NoJob,            \* not a job
  MainKeepsState    \* TRUE in main.rs, whose `state' holds a sender until
                    \* main returns; FALSE in the harness of lib.rs, where
                    \* only the router holds one

(* A request and the job id that new_job_id() would give it are the same   *)
(* member of Job.  Requests that are refused before they touch shared job  *)
(* state (rate limit, body too large, invalid JSON) are not in Job.        *)
ASSUME JobAssumption    == NoJob \notin Job
ASSUME WorkerAssumption == Worker # {} /\ IsFiniteSet(Worker)
ASSUME CapacityAssumption == Capacity \in Nat \ {0}
ASSUME KeyAssumption    == NoKey \notin Key /\ KeyOf \in [Job -> Key \cup {NoKey}]
ASSUME MainAssumption   == MainKeepsState \in BOOLEAN

VARIABLES
  store,      \* the job table
  overdue,    \* jobs that started longer ago than the reaper's timeout
  queue,      \* the channel
  metrics,    \* the gauges and counters
  remembered, \* the job each idempotency key stands for
  pc,         \* where each request's handler is
  seenLen,    \* the queue length a handler has read and not yet published
  answer,     \* what each request was answered
  answerJob,  \* the job id in an accepting answer
  wpc,        \* where each worker is
  wjob,       \* the job each worker holds
  wok,        \* whether that job produced a manifest
  workDirs,   \* per-job directories under work_root
  leftDirs,   \* those whose removal failed
  rpc,        \* where the reaper is
  stuck,      \* the stuck jobs it has listed and not yet marked
  phase       \* of the process: serving, draining, drained, exited

requestVars == <<pc, seenLen, answer, answerJob>>
workerVars  == <<wpc, wjob, wok, workDirs, leftDirs>>
reaperVars  == <<rpc, stuck, overdue>>
vars == <<store, queue, metrics, remembered, phase,
          requestVars, workerVars, reaperVars>>

RequestPC == {"idle", "lookup", "insert", "count", "submit", "measure",
              "publish", "uncount", "remember", "done"}
WorkerPC  == {"receive", "dispatched", "start", "process", "finish",
              "count", "clean", "exited"}
Answer    == {"none", "unavailable", "accepted"}     \* 503, 202
Phase     == {"serving", "draining", "drained", "exited"}

TypeOK ==
  /\ store \in [Job -> Status]
  /\ overdue \subseteq Job
  /\ queue \in Seq(Job) /\ Len(queue) <= Capacity
  /\ metrics \in [Gauges \cup Counters -> Int]
  /\ remembered \in [Key -> Job \cup {NoJob}]
  /\ pc \in [Job -> RequestPC]
  /\ seenLen \in [Job -> 0..Capacity]
  /\ answer \in [Job -> Answer]
  /\ answerJob \in [Job -> Job]
  /\ wpc \in [Worker -> WorkerPC]
  /\ wjob \in [Worker -> Job \cup {NoJob}]
  /\ wok \in [Worker -> BOOLEAN]
  /\ workDirs \subseteq Job
  /\ leftDirs \subseteq Job
  /\ rpc \in {"tick", "mark", "count"}
  /\ stuck \subseteq Job
  /\ phase \in Phase

Init ==
  /\ store = NewStore
  /\ overdue = {}
  /\ queue = <<>>
  /\ metrics = NewMetrics
  /\ remembered = [k \in Key |-> NoJob]
  /\ pc = [r \in Job |-> "idle"]
  /\ seenLen = [r \in Job |-> 0]
  /\ answer = [r \in Job |-> "none"]
  /\ answerJob = [r \in Job |-> r]
  /\ wpc = [w \in Worker |-> "receive"]
  /\ wjob = [w \in Worker |-> NoJob]
  /\ wok = [w \in Worker |-> FALSE]
  /\ workDirs = {}
  /\ leftDirs = {}
  /\ rpc = "tick"
  /\ stuck = {}
  /\ phase = "serving"

-----------------------------------------------------------------------------
(* The POST handlers *)

Goto(r, label) == pc' = [pc EXCEPT ![r] = label]

Reply(r, code, job) ==
  /\ answer' = [answer EXCEPT ![r] = code]
  /\ answerJob' = [answerJob EXCEPT ![r] = job]
  /\ Goto(r, "done")

(* A request reaches its handler; the server takes none once it drains.    *)
Arrive(r) ==
  /\ phase = "serving"
  /\ pc[r] = "idle"
  /\ Goto(r, IF KeyOf[r] = NoKey THEN "insert" ELSE "lookup")
  /\ UNCHANGED <<store, queue, metrics, remembered, phase, seenLen, answer,
                 answerJob, workerVars, reaperVars>>

(* A key that is still remembered is answered with the job it stands for.  *)
LookupKey(r) ==
  /\ pc[r] = "lookup"
  /\ LET known == remembered[KeyOf[r]]
     IN IF known # NoJob
        THEN Reply(r, "accepted", known)
        ELSE Goto(r, "insert") /\ UNCHANGED <<answer, answerJob>>
  /\ UNCHANGED <<store, queue, metrics, remembered, phase, seenLen,
                 workerVars, reaperVars>>

InsertEntryAndKey(r) ==   \* mutant: the key is bound before the queue has the task
  /\ pc[r] = "insert"
  /\ store' = Insert(store, r, "queued")
  /\ remembered' = IF KeyOf[r] = NoKey THEN remembered
                   ELSE [remembered EXCEPT ![KeyOf[r]] = r]
  /\ Goto(r, "count")
  /\ UNCHANGED <<queue, metrics, phase, seenLen, answer, answerJob,
                 workerVars, reaperVars>>

InsertEntry(r) ==
  /\ pc[r] = "insert"
  /\ store' = Insert(store, r, "queued")
  /\ Goto(r, "count")
  /\ UNCHANGED <<queue, metrics, remembered, phase, seenLen, answer, answerJob,
                 workerVars, reaperVars>>

CountSubmitted(r) ==
  /\ pc[r] = "count"
  /\ metrics' = Submitted(metrics)
  /\ Goto(r, "submit")
  /\ UNCHANGED <<store, queue, remembered, phase, seenLen, answer, answerJob,
                 workerVars, reaperVars>>

(* try_send: Full and Closed are the same to the caller. *)
ReceiverAlive == \E w \in Worker : wpc[w] # "exited"

TrySendOneTooMany(r) ==   \* mutant: off by one
  /\ pc[r] = "submit"
  /\ IF Len(queue) <= Capacity /\ ReceiverAlive
     THEN queue' = Append(queue, r) /\ Goto(r, "measure")
     ELSE UNCHANGED queue /\ Goto(r, "uncount")
  /\ UNCHANGED <<store, metrics, remembered, phase, seenLen, answer, answerJob,
                 workerVars, reaperVars>>

TrySendSilent(r) ==   \* mutant: a full queue is not reported
  /\ pc[r] = "submit"
  /\ queue' = IF Len(queue) < Capacity THEN Append(queue, r) ELSE queue
  /\ Goto(r, "measure")
  /\ UNCHANGED <<store, metrics, remembered, phase, seenLen, answer, answerJob,
                 workerVars, reaperVars>>

TrySendReportsFull(r) ==   \* mutant: the task that fills the queue is also refused
  /\ pc[r] = "submit"
  /\ IF Len(queue) < Capacity /\ ReceiverAlive
     THEN queue' = Append(queue, r)
     ELSE UNCHANGED queue
  /\ Goto(r, IF Len(queue') < Capacity THEN "measure" ELSE "uncount")
  /\ UNCHANGED <<store, metrics, remembered, phase, seenLen, answer, answerJob,
                 workerVars, reaperVars>>

TrySend(r) ==
  /\ pc[r] = "submit"
  /\ IF Len(queue) < Capacity /\ ReceiverAlive
     THEN queue' = Append(queue, r) /\ Goto(r, "measure")
     ELSE UNCHANGED queue /\ Goto(r, "uncount")
  /\ UNCHANGED <<store, metrics, remembered, phase, seenLen, answer, answerJob,
                 workerVars, reaperVars>>

(* submit() then publishes the length in two steps: len() reads the        *)
(* channel, set_queue_depth() writes the gauge.                            *)
MeasureQueue(r) ==
  /\ pc[r] = "measure"
  /\ seenLen' = [seenLen EXCEPT ![r] = Len(queue)]
  /\ Goto(r, "publish")
  /\ UNCHANGED <<store, queue, metrics, remembered, phase, answer, answerJob,
                 workerVars, reaperVars>>

PublishDepth(r) ==
  /\ pc[r] = "publish"
  /\ metrics' = SetQueueDepth(metrics, seenLen[r])
  /\ seenLen' = [seenLen EXCEPT ![r] = 0]
  /\ IF KeyOf[r] = NoKey
     THEN Reply(r, "accepted", r)
     ELSE Goto(r, "remember") /\ UNCHANGED <<answer, answerJob>>
  /\ UNCHANGED <<store, queue, remembered, phase, workerVars, reaperVars>>

(* The queue refused the task: the gauges are put back, the entry of the   *)
(* job table is not.                                                       *)
AnswerUnavailable(r) ==
  /\ pc[r] = "uncount"
  /\ metrics' = Failed(metrics, FALSE)
  /\ Reply(r, "unavailable", r)
  /\ UNCHANGED <<store, queue, remembered, phase, seenLen, workerVars, reaperVars>>

RememberKey(r) ==
  /\ pc[r] = "remember"
  /\ remembered' = [remembered EXCEPT ![KeyOf[r]] = r]
  /\ Reply(r, "accepted", r)
  /\ UNCHANGED <<store, queue, metrics, phase, seenLen, workerVars, reaperVars>>

(* The LRU bound and the time-to-live drop a key without telling anyone.   *)
ForgetKey(k) ==
  /\ remembered[k] # NoJob
  /\ remembered' = [remembered EXCEPT ![k] = NoJob]
  /\ UNCHANGED <<store, queue, metrics, phase, requestVars, workerVars, reaperVars>>

-----------------------------------------------------------------------------
(* A worker: run_worker and process_task *)

Step(w, from, to) == wpc[w] = from /\ wpc' = [wpc EXCEPT ![w] = to]

(* A worker that waits for the receiver's lock and one that waits in recv() *)
(* with the lock held are both at "receive": whoever has the lock takes     *)
(* the next task or sees the channel closed.                                *)
ReceivePeeks(w) ==   \* mutant: the task stays in the channel
  /\ queue # <<>>
  /\ Step(w, "receive", "dispatched")
  /\ wjob' = [wjob EXCEPT ![w] = Head(queue)]
  /\ UNCHANGED <<store, queue, metrics, remembered, phase, requestVars,
                 wok, workDirs, leftDirs, reaperVars>>

Receive(w) ==
  /\ queue # <<>>
  /\ Step(w, "receive", "dispatched")
  /\ wjob' = [wjob EXCEPT ![w] = Head(queue)]
  /\ queue' = Tail(queue)
  /\ UNCHANGED <<store, metrics, remembered, phase, requestVars,
                 wok, workDirs, leftDirs, reaperVars>>

CountDispatched(w) ==
  /\ Step(w, "dispatched", "start")
  /\ metrics' = Dispatched(metrics)
  /\ UNCHANGED <<store, queue, remembered, phase, requestVars,
                 wjob, wok, workDirs, leftDirs, reaperVars>>

StartJobUnmarked(w) ==   \* mutant: the job table never hears of the start
  /\ Step(w, "start", "process")
  /\ UNCHANGED <<store, queue, metrics, remembered, phase, requestVars,
                 wjob, wok, workDirs, leftDirs, reaperVars>>

StartJob(w) ==
  /\ Step(w, "start", "process")
  /\ store' = Update(store, wjob[w], "running")
  /\ UNCHANGED <<queue, metrics, remembered, phase, requestVars,
                 wjob, wok, workDirs, leftDirs, reaperVars>>

(* The blocking call.  It may or may not have made the work directory, and *)
(* returns a manifest, an error or a panic, the last two being alike here. *)
ProcessJob(w) ==
  /\ Step(w, "process", "finish")
  /\ \E ok, madeDir \in BOOLEAN :
       /\ wok' = [wok EXCEPT ![w] = ok]
       /\ workDirs' = IF madeDir THEN workDirs \cup {wjob[w]} ELSE workDirs
  /\ UNCHANGED <<store, queue, metrics, remembered, phase, requestVars,
                 wjob, leftDirs, reaperVars>>

FinishJob(w) ==
  /\ Step(w, "finish", "count")
  /\ store' = Update(store, wjob[w], IF wok[w] THEN "completed" ELSE "failed")
  /\ UNCHANGED <<queue, metrics, remembered, phase, requestVars,
                 wjob, wok, workDirs, leftDirs, reaperVars>>

CountFinished(w) ==
  /\ Step(w, "count", "clean")
  /\ metrics' = IF wok[w] THEN Completed(metrics) ELSE Failed(metrics, TRUE)
  /\ UNCHANGED <<store, queue, remembered, phase, requestVars,
                 wjob, wok, workDirs, leftDirs, reaperVars>>

ForgetTask(w) ==
  /\ wjob' = [wjob EXCEPT ![w] = NoJob]
  /\ wok' = [wok EXCEPT ![w] = FALSE]

CleanUpOnSuccess(w) ==   \* mutant: a failed job keeps its directory
  /\ Step(w, "clean", "receive")
  /\ workDirs' = IF wok[w] THEN workDirs \ {wjob[w]} ELSE workDirs
  /\ UNCHANGED leftDirs
  /\ ForgetTask(w)
  /\ UNCHANGED <<store, queue, metrics, remembered, phase, requestVars, reaperVars>>

(* Removing the directory may fail, which is only logged. *)
CleanUp(w) ==
  /\ Step(w, "clean", "receive")
  /\ \/ workDirs' = workDirs \ {wjob[w]} /\ UNCHANGED leftDirs
     \/ /\ wjob[w] \in workDirs
        /\ leftDirs' = leftDirs \cup {wjob[w]}
        /\ UNCHANGED workDirs
  /\ ForgetTask(w)
  /\ UNCHANGED <<store, queue, metrics, remembered, phase, requestVars, reaperVars>>

SenderAliveInMain == phase # "exited"   \* mutant: the harness keeps a sender too

(* recv() returns None when the channel is empty and has no sender left.   *)
SenderAlive == phase \in {"serving", "draining"} \/ MainKeepsState

ExitWorkerEarly(w) ==   \* mutant: the channel is not drained first
  /\ ~SenderAlive
  /\ Step(w, "receive", "exited")
  /\ UNCHANGED <<store, queue, metrics, remembered, phase, requestVars,
                 wjob, wok, workDirs, leftDirs, reaperVars>>

ExitWorker(w) ==
  /\ queue = <<>>
  /\ ~SenderAlive
  /\ Step(w, "receive", "exited")
  /\ UNCHANGED <<store, queue, metrics, remembered, phase, requestVars,
                 wjob, wok, workDirs, leftDirs, reaperVars>>

-----------------------------------------------------------------------------
(* The reaper *)

BecomeOverdueUnstamped(j) == j \in overdue /\ UNCHANGED vars
  \* mutant: no started_at is recorded, so no job is ever overdue

(* The clock: a running job has now been running for too long. *)
BecomeOverdue(j) ==
  /\ store[j] = "running"
  /\ j \notin overdue
  /\ phase # "exited"
  /\ overdue' = overdue \cup {j}
  /\ UNCHANGED <<store, queue, metrics, remembered, phase, requestVars,
                 workerVars, rpc, stuck>>

(* A tick that finds stuck jobs; one that finds none changes nothing. *)
ListStuckJobs ==
  /\ phase # "exited"
  /\ rpc = "tick"
  /\ ListStuck(store, overdue) # {}
  /\ stuck' = ListStuck(store, overdue)
  /\ rpc' = "mark"
  /\ UNCHANGED <<store, queue, metrics, remembered, phase, requestVars,
                 workerVars, overdue>>

(* The list is worked off without looking at the jobs' status again. *)
MarkStuck(j) ==
  /\ phase # "exited"
  /\ rpc = "mark"
  /\ j \in stuck
  /\ store' = Update(store, j, "failed")
  /\ stuck' = stuck \ {j}
  /\ rpc' = "count"
  /\ UNCHANGED <<queue, metrics, remembered, phase, requestVars, workerVars, overdue>>

CountStuck ==
  /\ phase # "exited"
  /\ rpc = "count"
  /\ metrics' = Stuck(metrics)
  /\ rpc' = IF stuck = {} THEN "tick" ELSE "mark"
  /\ UNCHANGED <<store, queue, remembered, phase, requestVars, workerVars,
                 overdue, stuck>>

-----------------------------------------------------------------------------
(* Shutdown: serve() stops accepting on the signal and returns when no     *)
(* request is left; main then joins the workers and returns.               *)

Signal ==
  /\ phase = "serving"
  /\ phase' = "draining"
  /\ UNCHANGED <<store, queue, metrics, remembered, requestVars, workerVars, reaperVars>>

ServerReturns ==
  /\ phase = "draining"
  /\ \A r \in Job : pc[r] \in {"idle", "done"}
  /\ phase' = "drained"
  /\ UNCHANGED <<store, queue, metrics, remembered, requestVars, workerVars, reaperVars>>

MainReturns ==
  /\ phase = "drained"
  /\ \A w \in Worker : wpc[w] = "exited"
  /\ phase' = "exited"
  /\ UNCHANGED <<store, queue, metrics, remembered, requestVars, workerVars, reaperVars>>

-----------------------------------------------------------------------------
Handler(r) ==
  \/ LookupKey(r) \/ InsertEntry(r) \/ CountSubmitted(r) \/ TrySend(r)
  \/ MeasureQueue(r) \/ PublishDepth(r) \/ AnswerUnavailable(r)
  \/ RememberKey(r)

WorkerStep(w) ==
  \/ Receive(w) \/ CountDispatched(w) \/ StartJob(w) \/ ProcessJob(w)
  \/ FinishJob(w) \/ CountFinished(w) \/ CleanUp(w) \/ ExitWorker(w)

ReaperStep ==
  ListStuckJobs \/ (\E j \in Job : MarkStuck(j)) \/ CountStuck

Next ==
  \/ \E r \in Job : Arrive(r) \/ Handler(r)
  \/ \E k \in Key : ForgetKey(k)
  \/ \E w \in Worker : WorkerStep(w)
  \/ \E j \in Job : BecomeOverdue(j)
  \/ ReaperStep
  \/ Signal \/ ServerReturns \/ MainReturns

Spec == Init /\ [][Next]_vars

(* What tokio's scheduler owes every task, and the assumption that each    *)
(* job's processing ends.  Arrivals, the signal, the clock and the loss of *)
(* a key are left to the environment.                                      *)
Fairness ==
  /\ \A r \in Job : WF_vars(Handler(r))
  /\ \A w \in Worker : WF_vars(WorkerStep(w))
  /\ WF_vars(ReaperStep)
  /\ WF_vars(ServerReturns \/ MainReturns)

FairSpec == Spec /\ Fairness

(* The same without the assumption: a worker may hang for ever in any      *)
(* step.  Time passes and the reaper keeps ticking.                        *)
HangSpec ==
  /\ Spec
  /\ \A j \in Job : WF_vars(BecomeOverdue(j))
  /\ WF_vars(ReaperStep)

-----------------------------------------------------------------------------
(* Where a job is *)

InQueue(j) == \E i \in 1..Len(queue) : queue[i] = j
HeldBy(w, j) == wjob[w] = j
Held(j) == \E w \in Worker : HeldBy(w, j)

(* Requests whose task the channel took. *)
Sent(r) ==
  \/ pc[r] \in {"measure", "publish", "remember"}
  \/ pc[r] = "done" /\ answer[r] = "accepted" /\ answerJob[r] = r

(* A task is in the channel at most once and with at most one worker, and  *)
(* never both: no job runs twice (queue.rs: one receiver behind a lock).   *)
OnePlace ==
  /\ \A i1, i2 \in 1..Len(queue) : queue[i1] = queue[i2] => i1 = i2
  /\ \A w \in Worker, i \in 1..Len(queue) : ~HeldBy(w, queue[i])
  /\ \A w1, w2 \in Worker : wjob[w1] = wjob[w2] /\ wjob[w1] # NoJob => w1 = w2

(* A job that was answered 503 is in no queue and with no worker, now or   *)
(* later: the client may submit it again without running it twice.         *)
OnlySentJobsRun == \A j \in Job : InQueue(j) \/ Held(j) => Sent(j)

(* The job id of every 202, first submission or replay of a key, belongs   *)
(* to a job that waits, is with a worker, or has a verdict (ADR-0004: no   *)
(* work is silently dropped).                                              *)
AcceptedJobIsAccountedFor ==
  \A r \in Job : answer[r] = "accepted" =>
    LET j == answerJob[r]
    IN Sent(j) /\ (InQueue(j) \/ Held(j) \/ store[j] \in Terminal)

(* A key is only ever bound to a job that was submitted under that key and *)
(* that the queue took: a 503 is never replayed (upload_handler).          *)
KeyStandsForSentJob ==
  \A k \in Key : remembered[k] # NoJob =>
    KeyOf[remembered[k]] = k /\ Sent(remembered[k])

(* The status a client polls agrees with where the job is: the entry is    *)
(* there before the task can be received, "queued" until a worker starts   *)
(* it, and once it runs anything else is the reaper's doing.               *)
StatusAgreesWithPlace ==
  /\ \A j \in Job : InQueue(j) => store[j] = "queued"
  /\ \A w \in Worker :
       /\ wpc[w] \in {"dispatched", "start"} => store[wjob[w]] = "queued"
       /\ wpc[w] \in {"process", "finish"} =>
            \/ store[wjob[w]] = "running"
            \/ store[wjob[w]] = "failed" /\ wjob[w] \in overdue
       /\ wpc[w] \in {"count", "clean"} => store[wjob[w]] \in Terminal

(* No work directory outlives its job, except one whose removal failed     *)
(* (process_task cleans up on success and on failure).                     *)
NoLeakedWorkDir == \A j \in workDirs : Held(j) \/ j \in leftDirs

(* Once main has returned, every job a client was promised has a verdict:  *)
(* the workers drained the channel before they stopped (queue.rs, Shutdown).*)
NothingLostAtExit ==
  phase = "exited" =>
    \A r \in Job : answer[r] = "accepted" => store[answerJob[r]] \in Terminal

(* What the properties above rest on.                                      *)

(* Only a request with a key looks one up or binds one. *)
KeyedHandlers ==
  \A r \in Job : pc[r] \in {"lookup", "remember"} => KeyOf[r] # NoKey

(* A worker holds a task from taking it until it has cleaned up. *)
WorkersHoldTasks ==
  \A w \in Worker : wjob[w] = NoJob <=> wpc[w] \in {"receive", "exited"}

(* A handler makes the entry of its job before it sends the task, and      *)
(* nothing else touches that entry until then.                             *)
EntryFollowsHandler ==
  \A r \in Job :
    /\ pc[r] \in {"idle", "lookup", "insert"} => store[r] = "absent"
    /\ pc[r] \in {"count", "submit"} => store[r] = "queued"

(* Only jobs that were started get overdue, and only those are marked. *)
OverdueJobsStarted ==
  /\ stuck \subseteq overdue
  /\ \A j \in overdue : store[j] = "running" \/ store[j] \in Terminal

(* A task the channel took is in it, with a worker, or settled. *)
SentJobsAreAccountedFor ==
  \A j \in Job : Sent(j) => InQueue(j) \/ Held(j) \/ store[j] \in Terminal

(* The job id in a 202 is that of a job the queue took. *)
AnswersNameSentJobs ==
  \A r \in Job : answer[r] = "accepted" => Sent(answerJob[r])

(* Handlers end before the server returns, the server before a worker      *)
(* leaves, the workers before main returns, and a worker that leaves found *)
(* the channel empty.                                                      *)
ShutdownInOrder ==
  /\ phase \in {"drained", "exited"} => \A r \in Job : pc[r] \in {"idle", "done"}
  /\ \A w \in Worker : wpc[w] = "exited" => queue = <<>> /\ phase \in {"drained", "exited"}
  /\ phase = "exited" => \A w \in Worker : wpc[w] = "exited"

(* The inductive invariant. *)
IInv ==
  /\ TypeOK
  /\ KeyedHandlers
  /\ WorkersHoldTasks
  /\ OnePlace
  /\ OnlySentJobsRun
  /\ EntryFollowsHandler
  /\ OverdueJobsStarted
  /\ KeyStandsForSentJob
  /\ StatusAgreesWithPlace
  /\ SentJobsAreAccountedFor
  /\ AnswersNameSentJobs
  /\ ShutdownInOrder

(* A status only moves forward, and a verdict only changes for a job that  *)
(* ran past the reaper's timeout (JobStore::update checks neither).        *)
StatusMovesForward ==
  [][\A j \in Job :
       store'[j] # store[j] =>
         \/ store[j] = "absent"  /\ store'[j] = "queued"
         \/ store[j] = "queued"  /\ store'[j] = "running"
         \/ store[j] = "running" /\ store'[j] \in Terminal
         \/ store[j] \in Terminal /\ store'[j] \in Terminal /\ j \in overdue]_vars

(* The promise of JobContract, read off the real state. *)
StageOf(j) ==
  CASE InQueue(j) -> "waiting"
    [] Held(j) -> "working"
    [] Sent(j) /\ ~InQueue(j) /\ ~Held(j) -> "finished"
    [] pc[j] = "uncount" \/ (pc[j] = "done" /\ answer[j] = "unavailable") -> "refused"
    [] OTHER -> "new"

Contract == INSTANCE JobContract WITH
  contract <- [j \in Job |-> StageOf(j)], MaxRunning <- Cardinality(Worker)

(* The service implements JobContract: accepted while there is room,       *)
(* refused only when the channel is full, run once, by one worker.         *)
ImplementsContract == Contract!Spec

(* ... and every job a client was promised gets a worker and a verdict, if *)
(* processing always ends.                                                 *)
FulfilsContract == Fairness => Contract!Fairness

-----------------------------------------------------------------------------
(* What the gauges say *)

(* Submitted and not put back by AnswerUnavailable. *)
Counted(r) == pc[r] \in {"submit", "uncount"} \/ Sent(r)

(* Jobs a worker has settled: taken from the queue and counted as finished. *)
Settled(j) ==
  /\ Sent(j)
  /\ ~InQueue(j)
  /\ \A w \in Worker : wjob[w] = j => wpc[w] = "clean"

WithWorker(w) == wpc[w] \in {"start", "process", "finish", "count"}

(* The gauges are exact until the reaper first counts a job as stuck:      *)
(* in_flight is the number of jobs submitted and not yet settled, running  *)
(* the number of jobs with a worker, queued that of the jobs still to      *)
(* start, whatever was refused meanwhile (state.rs and its callers).       *)
GaugesAccountForJobs ==
  metrics["stuck"] = 0 =>
    /\ metrics["in_flight"] = Cardinality({j \in Job : Counted(j) /\ ~Settled(j)})
    /\ metrics["running"] = Cardinality({w \in Worker : WithWorker(w)})
    /\ metrics["queued"] =
         Cardinality({j \in Job : /\ Counted(j) /\ ~Settled(j)
                                  /\ \A w \in Worker : HeldBy(w, j) => wpc[w] = "dispatched"})

(* No request is in a handler, no task in the channel, no job with a       *)
(* worker, and the reaper has worked off its list.                         *)
Quiet ==
  /\ \A r \in Job : pc[r] \in {"idle", "done"}
  /\ queue = <<>>
  /\ \A w \in Worker : wjob[w] = NoJob
  /\ rpc = "tick"

(* What queue.rs:218 and state.rs:151 say of the gauges: in_flight is the  *)
(* current number of jobs being processed, so it is 0 when there is none.  *)
(* The reaper and the worker both take a slow job off it, also one that    *)
(* has completed since the reaper made its list.                           *)
InFlightIsAccurate == Quiet => metrics["in_flight"] = 0 /\ metrics["running"] = 0

-----------------------------------------------------------------------------
(* Liveness *)

(* Even with workers that hang, a job does not stay "running" for ever. *)
RunningJobsEnd ==
  \A j \in Job : store[j] = "running" ~> store[j] \in Terminal

(* After the signal the process drains and ends, if processing always does. *)
ShutdownCompletes == Fairness => (phase = "draining" ~> phase = "exited")
=============================================================================
