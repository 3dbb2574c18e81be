--------------------------- MODULE MCJobLifecycle ---------------------------
(***************************************************************************)
(* Small instances of JobLifecycle.                                        *)
(***************************************************************************)
EXTENDS JobLifecycle, TLC

CONSTANTS r1, r2, k1

(* Two uploads that share an idempotency key. *)
TwoUploads   == {r1, r2}
TwoUploadKey == [r \in TwoUploads |-> k1]

(* Requests without a key: interchangeable. *)
KeylessKey == [r \in Job |-> NoKey]

WorkerSymmetry == Permutations(Worker)

(* Everything but the queue-depth gauge, what is read to set it, and the   *)
(* counters: no step reads them.                                           *)
WithoutDepth ==
  <<store, queue, [g \in {"queued", "running", "stuck", "in_flight"} |-> metrics[g]],
    remembered, phase, pc, answer, answerJob, workerVars, reaperVars>>
=============================================================================
