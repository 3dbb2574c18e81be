------------------------------- MODULE Metrics -------------------------------
(***************************************************************************)
(* The job gauges and counters of swift-api/src/state.rs.                  *)
(*                                                                         *)
(* A Metrics value is a record with one field per gauge (queued, running,  *)
(* succeeded, failed and stuck are the labels of swiftpipe_jobs_total;     *)
(* in_flight and queue_depth are gauges of their own) and per job counter. *)
(* A method touches several Prometheus atomics one after the other; they   *)
(* only add to or subtract from independent cells, so nothing but a scrape *)
(* in the middle of a method could tell the method from one atomic step.   *)
(* Gauges are IntGauge, so they may go below zero.  Histograms and the     *)
(* counters of parsed messages, bytes and object-store calls are left out. *)
(***************************************************************************)
EXTENDS Integers

Gauges   == {"queued", "running", "succeeded", "failed", "stuck",
             "in_flight", "queue_depth"}
Counters == {"jobs_submitted", "jobs_completed", "jobs_failed"}

NewMetrics == [g \in Gauges \cup Counters |-> 0]

Submitted(m) ==
  [m EXCEPT !["jobs_submitted"] = @ + 1,
            !["queued"]         = @ + 1,
            !["in_flight"]      = @ + 1]

Completed(m) ==
  [m EXCEPT !["jobs_completed"] = @ + 1,
            !["running"]        = @ - 1,
            !["succeeded"]      = @ + 1,
            !["in_flight"]      = @ - 1]

FailedForgetsLabel(m, ran) ==    \* mutant: the label is not chosen by `ran'
  [m EXCEPT !["jobs_failed"] = @ + 1,
            !["running"]     = @ - 1,
            !["failed"]      = @ + 1,
            !["in_flight"]   = @ - 1]

(* failed(Some(duration)) for a job that ran, failed(None) for a job that  *)
(* never left the queue.                                                   *)
Failed(m, ran) ==
  [m EXCEPT !["jobs_failed"]                          = @ + 1,
            ![IF ran THEN "running" ELSE "queued"]    = @ - 1,
            !["failed"]                               = @ + 1,
            !["in_flight"]                            = @ - 1]

(* The reaper's count of a job it has just marked failed. *)
Stuck(m) ==
  [m EXCEPT !["jobs_failed"] = @ + 1,
            !["running"]     = @ - 1,
            !["stuck"]       = @ + 1,
            !["in_flight"]   = @ - 1]

SetQueueDepth(m, depth) == [m EXCEPT !["queue_depth"] = depth]

Dispatched(m) ==
  [m EXCEPT !["queue_depth"] = @ - 1,
            !["queued"]      = @ - 1,
            !["running"]     = @ + 1]
=============================================================================
