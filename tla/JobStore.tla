------------------------------ MODULE JobStore ------------------------------
(***************************************************************************)
(* The in-memory job status table (swift-api/src/job_store.rs).            *)
(*                                                                         *)
(* The table is one RwLock around a map and a vector, so every method is   *)
(* one atomic step; each is an operator from a table to a table.  A table  *)
(* is a function from job ids to a status, "absent" standing for an id the *)
(* map does not hold.  Instants are abstracted to the set `overdue' of     *)
(* jobs whose started_at is older than the reaper's timeout, and the       *)
(* payloads of Completed (a manifest) and Failed (a text) are left out.    *)
(***************************************************************************)
CONSTANT Job      \* job ids: UUIDs in the code, never reused

Lifecycle == {"queued", "running", "completed", "failed"}
Terminal  == {"completed", "failed"}
Status    == Lifecycle \cup {"absent"}

NewStore == [j \in Job |-> "absent"]

(* An existing entry is silently overwritten. *)
Insert(store, j, status) == [store EXCEPT ![j] = status]

(* The entry must exist (the method returns false otherwise); the status   *)
(* it has is not looked at, a terminal one included.                       *)
Update(store, j, status) ==
  IF store[j] = "absent" THEN store ELSE [store EXCEPT ![j] = status]

(* Jobs that have been running for longer than the timeout. *)
ListStuck(store, overdue) == {j \in overdue : store[j] = "running"}

=============================================================================
